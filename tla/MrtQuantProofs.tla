--------------------------- MODULE MrtQuantProofs ---------------------------
(***************************************************************************)
(* Proofs about both generations of the quantiser: for every model, any    *)
(* thresholds and any widths the assumptions allow, no emitted operator    *)
(* leaves the range of the precision the tool declares for it, the clip to *)
(* the precision that a threshold needs cuts nothing off, and no           *)
(* requantisation of an input cuts off more than rounding and its mantissa *)
(* account for.                                                            *)
(*                                                                         *)
(* Recursive functions are given their equations first (Recursion), then   *)
(* powers of two, bit counts and exact fractions; the requantisations keep *)
(* an operator honest about its precision (Honest), whatever the mantissa  *)
(* search returns, for each ends in a clip; every operator of the two      *)
(* generations then counts the bits of what it computes.                   *)
(***************************************************************************)
EXTENDS MrtQuantV2, SequenceTheorems, WellFoundedInduction, TLAPS

-----------------------------------------------------------------------------
(* Functions defined by recursion.                                         *)

(* Every set of numbers has a least one.                                   *)
LEMMA LeastNumber ==
  ASSUME NEW T, T \subseteq Nat, T # {}
  PROVE  \E m \in T : \A k \in T : m <= k
<1> DEFINE R == {p \in Nat \X Nat : p[1] < p[2]}
<1>1. IsWellFoundedOn(R, Nat)
  BY NatLessThanWellFounded DEF OpToRel
<1>2. \E x \in T : \A y \in T : ~ (<<y, x>> \in R)
  <2> HIDE DEF R
  <2> QED BY <1>1, WFMin
<1>3. PICK x \in T : \A y \in T : ~ (<<y, x>> \in R)
  BY <1>2
<1>4. ASSUME NEW y \in T PROVE x <= y
  <2>1. <<y, x>> \in Nat \X Nat /\ ~(<<y, x>> \in R)
    BY <1>3
  <2> QED BY <2>1
<1> QED BY <1>4

(* What holds of zero and is passed on to the next number holds of all.    *)
LEMMA AllNumbers ==
  ASSUME NEW P, 0 \in P, \A n \in Nat : n \in P => n + 1 \in P
  PROVE  Nat \subseteq P
<1>1. SUFFICES ASSUME Nat \ P # {} PROVE FALSE
  OBVIOUS
<1>2. PICK m \in Nat \ P : \A k \in Nat \ P : m <= k
  BY <1>1, LeastNumber
<1>3. m # 0 /\ m - 1 \in Nat
  BY <1>2
<1>4. m - 1 \in P
  BY <1>2, <1>3
<1> QED BY <1>3, <1>4

(* f is computed by recursion along next, which descends in rank until it  *)
(* reaches base: start there, and combine the result with the argument     *)
(* everywhere else.                                                        *)
Solves(f, D, base, start, next, combine) ==
  \A x \in D : f[x] = IF x \in base THEN start[x] ELSE combine[<<x, f[next[x]]>>]

(* Such a recursion has a solution.                                        *)
LEMMA Recursion ==
  ASSUME NEW D, NEW V, NEW base,
         NEW start \in [D -> V], NEW next \in [D -> D],
         NEW combine \in [D \X V -> V], NEW rank \in [D -> Nat],
         \A x \in D \ base : rank[next[x]] < rank[x]
  PROVE  \E f \in [D -> V] : Solves(f, D, base, start, next, combine)
<1> DEFINE Below(n) == {x \in D : rank[x] < n}
           Part(n) == {f \in [Below(n) -> V] :
                         \A x \in Below(n) :
                           f[x] = IF x \in base THEN start[x] ELSE combine[<<x, f[next[x]]>>]}
<1>1. \A n \in Nat : \A x \in Below(n + 1) \ base : next[x] \in Below(n)
  OBVIOUS
<1>2. \A n \in Nat : Below(n) \subseteq Below(n + 1)
  OBVIOUS
<1>3. \A n \in Nat : \A x \in D : x \in Below(n) <=> rank[x] < n
  OBVIOUS
<1>4. \A n \in Nat : Below(n) \subseteq D
  OBVIOUS
<1>5. \A n \in Nat : \E f : f \in Part(n)
  <2> DEFINE P == {n \in Nat : \E f : f \in Part(n)}
  <2>1. 0 \in P
    <3>1. Below(0) = {}
      OBVIOUS
    <3>2. [x \in {} |-> start[x]] \in Part(0)
      BY <3>1
    <3> QED BY <3>2
  <2>2. ASSUME NEW n \in Nat, n \in P PROVE n + 1 \in P
    <3>1. PICK f : f \in Part(n)
      BY <2>2
    <3> DEFINE h == [x \in Below(n + 1) |->
                       IF x \in base THEN start[x] ELSE combine[<<x, f[next[x]]>>]]
    <3> HIDE DEF Below
    <3>2. f \in [Below(n) -> V]
      BY <3>1
    <3>3. \A y \in Below(n) : h[y] = f[y]
      BY <3>1, <1>2
    <3>4. ASSUME NEW x \in Below(n + 1), x \notin base
          PROVE  /\ next[x] \in Below(n)
                 /\ f[next[x]] \in V /\ <<x, f[next[x]]>> \in D \X V
                 /\ h[next[x]] = f[next[x]]
      <4>1. next[x] \in Below(n) /\ x \in D
        BY <3>4, <1>1, <1>4
      <4>2. h[next[x]] = f[next[x]]
        BY <4>1, <3>3
      <4>3. f[next[x]] \in V
        BY <4>1, <3>2
      <4> HIDE DEF h
      <4> QED BY <4>1, <4>2, <4>3
    <3>5. h \in [Below(n + 1) -> V]
      <4>1. ASSUME NEW x \in Below(n + 1), x \notin base
            PROVE  combine[<<x, f[next[x]]>>] \in V
        <5> HIDE DEF h
        <5>1. <<x, f[next[x]]>> \in D \X V
          BY <3>4, <4>1
        <5> QED BY <5>1
      <4>2. \A x \in Below(n + 1) : start[x] \in V
        BY <1>4
      <4> QED BY <4>1, <4>2
    <3>6. ASSUME NEW x \in Below(n + 1)
          PROVE  h[x] = IF x \in base THEN start[x] ELSE combine[<<x, h[next[x]]>>]
      BY <3>4
    <3>7. h \in Part(n + 1)
      <4> HIDE DEF h
      <4> QED BY <3>5, <3>6
    <3>8. \E e : e \in Part(n + 1)
      BY <3>7
    <3> QED BY <3>8
  <2>3. Nat \subseteq P
    <3> HIDE DEF P
    <3> QED BY <2>1, <2>2, AllNumbers
  <2> QED BY <2>3
<1>6. ASSUME NEW n \in Nat, NEW m \in Nat, NEW f \in Part(n), NEW h \in Part(m)
      PROVE  \A x \in Below(n) \cap Below(m) : f[x] = h[x]
  <2> DEFINE P == {k \in Nat : \A x \in Below(n) \cap Below(m) : rank[x] < k => f[x] = h[x]}
  <2>1. 0 \in P
    OBVIOUS
  <2>2. ASSUME NEW k \in Nat, k \in P PROVE k + 1 \in P
    <3>1. ASSUME NEW x \in Below(n) \cap Below(m), rank[x] < k + 1, x \notin base
          PROVE  f[next[x]] = h[next[x]]
      <4>1. rank[next[x]] < rank[x] /\ next[x] \in D
        BY <3>1
      <4>2. rank[next[x]] \in Nat /\ rank[x] \in Nat /\ rank[x] < n /\ rank[x] < m
        BY <4>1
      <4>3. rank[next[x]] < k /\ next[x] \in Below(n) \cap Below(m)
        BY <4>1, <4>2, <3>1
      <4> QED BY <4>3, <2>2
    <3>2. ASSUME NEW x \in Below(n) \cap Below(m), rank[x] < k + 1
          PROVE  f[x] = h[x]
      <4>1. /\ f[x] = IF x \in base THEN start[x] ELSE combine[<<x, f[next[x]]>>]
            /\ h[x] = IF x \in base THEN start[x] ELSE combine[<<x, h[next[x]]>>]
        OBVIOUS
      <4>2. x \notin base => f[next[x]] = h[next[x]]
        BY <3>1, <3>2
      <4> QED BY <4>1, <4>2
    <3> QED BY <3>2
  <2>3. Nat \subseteq P
    <3> HIDE DEF P
    <3> QED BY <2>1, <2>2, AllNumbers
  <2>4. ASSUME NEW x \in Below(n) \cap Below(m) PROVE f[x] = h[x]
    <3>1. rank[x] + 1 \in Nat /\ rank[x] < rank[x] + 1
      OBVIOUS
    <3> QED BY <3>1, <2>3
  <2> QED BY <2>4
<1> DEFINE part(x) == CHOOSE f : f \in Part(rank[x] + 1)
           whole == [x \in D |-> part(x)[x]]
<1>7. ASSUME NEW x \in D
      PROVE  part(x) \in Part(rank[x] + 1) /\ x \in Below(rank[x] + 1)
  <2>1. rank[x] + 1 \in Nat /\ rank[x] < rank[x] + 1
    OBVIOUS
  <2>2. part(x) \in Part(rank[x] + 1)
    <3> HIDE DEF Part
    <3> QED BY <2>1, <1>5
  <2> QED BY <2>1, <2>2, <1>3
<1>8. ASSUME NEW x \in D
      PROVE  whole[x] = part(x)[x] /\ part(x)[x] \in V
  <2>1. part(x) \in [Below(rank[x] + 1) -> V]
    BY <1>7
  <2> HIDE DEF part, Below
  <2> QED BY <2>1, <1>7
<1>9. ASSUME NEW x \in D, x \notin base
      PROVE  whole[x] = combine[<<x, whole[next[x]]>>]
  <2>1. next[x] \in D /\ rank[x] \in Nat /\ rank[next[x]] \in Nat /\ rank[next[x]] < rank[x]
    BY <1>9
  <2>2. next[x] \in Below(rank[x] + 1) \cap Below(rank[next[x]] + 1)
    BY <2>1
  <2>3. part(x) \in Part(rank[x] + 1) /\ part(next[x]) \in Part(rank[next[x]] + 1)
    BY <1>7, <2>1
  <2>4. part(x)[next[x]] = part(next[x])[next[x]]
    <3>1. rank[x] + 1 \in Nat /\ rank[next[x]] + 1 \in Nat
      BY <2>1
    <3> HIDE DEF Part, Below, part
    <3> QED BY <3>1, <2>2, <2>3, <1>6
  <2>5. part(x)[x] = combine[<<x, part(x)[next[x]]>>]
    <3>1. x \in Below(rank[x] + 1)
      BY <1>7
    <3> HIDE DEF Below, part
    <3> QED BY <2>3, <3>1, <1>9
  <2> HIDE DEF part, whole
  <2> QED BY <2>1, <2>4, <2>5, <1>8
<1>10. ASSUME NEW x \in D, x \in base
       PROVE  whole[x] = start[x]
  <2>1. part(x) \in Part(rank[x] + 1) /\ x \in Below(rank[x] + 1)
    BY <1>7
  <2>2. part(x)[x] = start[x]
    <3> HIDE DEF Below, part
    <3> QED BY <2>1, <1>10
  <2> HIDE DEF part, whole
  <2> QED BY <2>2, <1>8
<1>11. whole \in [D -> V]
  <2>1. \A x \in D : part(x)[x] \in V
    BY <1>8
  <2> HIDE DEF part
  <2> QED BY <2>1
<1> HIDE DEF whole
<1> QED BY <1>9, <1>10, <1>11 DEF Solves

-----------------------------------------------------------------------------
(* Powers of two.                                                          *)
LEMMA Pow2Equation ==
  Pow2 \in [Nat -> Nat] /\ \A n \in Nat : Pow2[n] = IF n = 0 THEN 1 ELSE 2 * Pow2[n - 1]
<1> DEFINE start == [n \in Nat |-> 1]
           next == [n \in Nat |-> IF n = 0 THEN 0 ELSE n - 1]
           combine == [p \in Nat \X Nat |-> 2 * p[2]]
           rank == [n \in Nat |-> n]
<1>1. PICK f \in [Nat -> Nat] : Solves(f, Nat, {0}, start, next, combine)
  <2>1. start \in [Nat -> Nat] /\ next \in [Nat -> Nat] /\ rank \in [Nat -> Nat]
    OBVIOUS
  <2>2. combine \in [Nat \X Nat -> Nat]
    OBVIOUS
  <2>3. \A n \in Nat \ {0} : rank[next[n]] < rank[n]
    OBVIOUS
  <2> HIDE DEF start, next, combine, rank
  <2> QED BY <2>1, <2>2, <2>3, Recursion
<1>2. ASSUME NEW n \in Nat
      PROVE  f[n] = IF n = 0 THEN 1 ELSE 2 * f[n - 1]
  <2>1. f[n] = IF n \in {0} THEN start[n] ELSE combine[<<n, f[next[n]]>>]
    <3> HIDE DEF start, next, combine
    <3> QED BY <1>1 DEF Solves
  <2> QED BY <2>1
<1>3. f = [n \in Nat |-> IF n = 0 THEN 1 ELSE 2 * f[n - 1]]
  BY <1>2
<1>4. Pow2 = [n \in Nat |-> IF n = 0 THEN 1 ELSE 2 * Pow2[n - 1]]
  <2> HIDE DEF start, next, combine, rank
  <2> QED BY <1>3 DEF Pow2
<1>5. Pow2 \in [Nat -> Nat]
  <2> DEFINE P == {n \in Nat : Pow2[n] \in Nat}
  <2>1. 0 \in P
    BY <1>4
  <2>2. ASSUME NEW n \in Nat, n \in P PROVE n + 1 \in P
    <3>1. Pow2[n + 1] = 2 * Pow2[n]
      BY <1>4
    <3> QED BY <2>2, <3>1
  <2>3. Nat \subseteq P
    <3> HIDE DEF P
    <3> QED BY <2>1, <2>2, AllNumbers
  <2>4. \A n \in Nat : Pow2[n] \in Nat
    BY <2>3
  <2> QED BY <1>4, <2>4
<1> QED BY <1>4, <1>5

LEMMA Pow2Next ==
  ASSUME NEW n \in Nat
  PROVE  Pow2[n] \in Nat /\ Pow2[n + 1] = 2 * Pow2[n] /\ Pow2[0] = 1
BY Pow2Equation

LEMMA Pow2Positive ==
  ASSUME NEW n \in Nat
  PROVE  Pow2[n] \in Nat \ {0}
<1> DEFINE P == {m \in Nat : Pow2[m] # 0}
<1>1. 0 \in P
  BY Pow2Next
<1>2. ASSUME NEW m \in Nat, m \in P PROVE m + 1 \in P
  BY <1>2, Pow2Next
<1>3. Nat \subseteq P
  <2> HIDE DEF P
  <2> QED BY <1>1, <1>2, AllNumbers
<1> QED BY <1>3, Pow2Next

LEMMA Pow2Sum ==
  ASSUME NEW a \in Nat, NEW b \in Nat
  PROVE  Pow2[a + b] = Pow2[a] * Pow2[b]
<1> DEFINE P == {m \in Nat : Pow2[a + m] = Pow2[a] * Pow2[m]}
<1>1. 0 \in P
  BY Pow2Next
<1>2. ASSUME NEW m \in Nat, m \in P PROVE m + 1 \in P
  <2>1. Pow2[(a + m) + 1] = 2 * Pow2[a + m] /\ Pow2[m + 1] = 2 * Pow2[m]
    BY Pow2Next
  <2>2. Pow2[a] \in Nat /\ Pow2[m] \in Nat
    BY Pow2Next
  <2>3. Pow2[a + (m + 1)] = 2 * (Pow2[a] * Pow2[m])
    BY <1>2, <2>1
  <2> QED BY <2>1, <2>2, <2>3
<1>3. Nat \subseteq P
  <2> HIDE DEF P
  <2> QED BY <1>1, <1>2, AllNumbers
<1> QED BY <1>3

LEMMA Pow2Ordered ==
  ASSUME NEW a \in Nat, NEW b \in Nat, a <= b
  PROVE  Pow2[a] <= Pow2[b]
<1>1. b - a \in Nat /\ b = a + (b - a)
  OBVIOUS
<1>2. Pow2[b] = Pow2[a] * Pow2[b - a]
  BY <1>1, Pow2Sum
<1>3. Pow2[a] \in Nat /\ Pow2[b - a] \in Nat \ {0} /\ Pow2[b] \in Nat
  BY <1>1, Pow2Positive
<1> QED BY <1>2, <1>3

-----------------------------------------------------------------------------
(* The bits of a number.                                                   *)
LEMMA BitCountEquation ==
  /\ get_bit_cnt \in [Nat -> Nat]
  /\ \A n \in Nat : get_bit_cnt[n] = IF n = 0 THEN 0 ELSE 1 + get_bit_cnt[n \div 2]
<1> DEFINE start == [n \in Nat |-> 0]
           next == [n \in Nat |-> n \div 2]
           combine == [p \in Nat \X Nat |-> 1 + p[2]]
           rank == [n \in Nat |-> n]
<1>0. \A n \in Nat : n \div 2 \in Nat /\ (n # 0 => n \div 2 < n)
  OBVIOUS
<1>1. PICK f \in [Nat -> Nat] : Solves(f, Nat, {0}, start, next, combine)
  <2>1. start \in [Nat -> Nat] /\ next \in [Nat -> Nat] /\ rank \in [Nat -> Nat]
    BY <1>0
  <2>2. combine \in [Nat \X Nat -> Nat]
    OBVIOUS
  <2>3. \A n \in Nat \ {0} : rank[next[n]] < rank[n]
    BY <1>0
  <2> HIDE DEF start, next, combine, rank
  <2> QED BY <2>1, <2>2, <2>3, Recursion
<1>2. ASSUME NEW n \in Nat
      PROVE  f[n] = IF n = 0 THEN 0 ELSE 1 + f[n \div 2]
  <2>1. f[n] = IF n \in {0} THEN start[n] ELSE combine[<<n, f[next[n]]>>]
    <3> HIDE DEF start, next, combine
    <3> QED BY <1>1 DEF Solves
  <2>2. f[n \div 2] \in Nat
    BY <1>0
  <2> QED BY <2>1, <2>2
<1>3. f = [n \in Nat |-> IF n = 0 THEN 0 ELSE 1 + f[n \div 2]]
  BY <1>2
<1>4. get_bit_cnt = [n \in Nat |-> IF n = 0 THEN 0 ELSE 1 + get_bit_cnt[n \div 2]]
  <2> HIDE DEF start, next, combine, rank
  <2> QED BY <1>3 DEF get_bit_cnt
<1>5. get_bit_cnt \in [Nat -> Nat]
  <2> DEFINE P == {m \in Nat : \A n \in Nat : n <= m => get_bit_cnt[n] \in Nat}
  <2>1. 0 \in P
    BY <1>4
  <2>2. ASSUME NEW m \in Nat, m \in P PROVE m + 1 \in P
    <3>1. ASSUME NEW n \in Nat, n <= m + 1, n # 0 PROVE get_bit_cnt[n] \in Nat
      <4>1. n \div 2 \in Nat /\ n \div 2 <= m
        BY <3>1, <1>0
      <4>2. get_bit_cnt[n] = 1 + get_bit_cnt[n \div 2]
        BY <3>1, <1>4
      <4> QED BY <4>1, <4>2, <2>2
    <3> QED BY <3>1, <1>4
  <2>3. Nat \subseteq P
    <3> HIDE DEF P
    <3> QED BY <2>1, <2>2, AllNumbers
  <2>4. \A n \in Nat : get_bit_cnt[n] \in Nat
    BY <2>3
  <2> QED BY <1>4, <2>4
<1> QED BY <1>4, <1>5

(* A number has so many bits that the next power of two exceeds it, and no *)
(* more.                                                                   *)
LEMMA BitCountBounds ==
  ASSUME NEW n \in Nat
  PROVE  /\ get_bit_cnt[n] \in Nat
         /\ n < Pow2[get_bit_cnt[n]]
         /\ n = 0 => get_bit_cnt[n] = 0
         /\ n # 0 => /\ get_bit_cnt[n] # 0
                     /\ Pow2[get_bit_cnt[n] - 1] <= n
<1> DEFINE Holds(k) == /\ k < Pow2[get_bit_cnt[k]]
                       /\ k # 0 => /\ get_bit_cnt[k] # 0
                                   /\ Pow2[get_bit_cnt[k] - 1] <= k
           P == {m \in Nat : \A k \in Nat : k <= m => Holds(k)}
<1>1. 0 \in P
  BY BitCountEquation, Pow2Next
<1>2. ASSUME NEW m \in Nat, m \in P PROVE m + 1 \in P
  <2>1. ASSUME NEW k \in Nat, k <= m + 1, k # 0 PROVE Holds(k)
    <3> DEFINE h == k \div 2
               c == get_bit_cnt[h]
    <3>1. h \in Nat /\ h <= m /\ (k = 2 * h \/ k = 2 * h + 1)
      BY <2>1
    <3>2. Holds(h) /\ c \in Nat
      BY <3>1, <1>2, BitCountEquation
    <3>3. get_bit_cnt[k] = c + 1
      BY <2>1, <3>2, BitCountEquation
    <3>4. Pow2[c + 1] = 2 * Pow2[c] /\ Pow2[c] \in Nat
      BY <3>2, Pow2Next
    <3>5. k < Pow2[get_bit_cnt[k]]
      BY <3>1, <3>2, <3>3, <3>4
    <3>6. Pow2[(c + 1) - 1] <= k
      <4>1. CASE h = 0
        <5>1. c = 0
          BY <4>1, BitCountEquation
        <5> QED BY <5>1, <2>1, Pow2Next
      <4>2. CASE h # 0
        <5>1. c # 0 /\ Pow2[c - 1] <= h /\ c - 1 \in Nat
          BY <3>2, <4>2
        <5>2. Pow2[c] = 2 * Pow2[c - 1] /\ Pow2[c - 1] \in Nat
          <6>1. Pow2[(c - 1) + 1] = 2 * Pow2[c - 1] /\ Pow2[c - 1] \in Nat
            BY <5>1, Pow2Next
          <6>2. (c - 1) + 1 = c
            BY <3>2
          <6> QED BY <6>1, <6>2
        <5> QED BY <5>1, <5>2, <3>1, <3>2
      <4> QED BY <4>1, <4>2
    <3> QED BY <3>3, <3>2, <3>5, <3>6
  <2>2. Holds(0)
    BY BitCountEquation, Pow2Next
  <2> HIDE DEF Holds
  <2> QED BY <2>1, <2>2
<1>3. Nat \subseteq P
  <2> HIDE DEF P
  <2> QED BY <1>1, <1>2, AllNumbers
<1>4. Holds(n)
  <2> HIDE DEF Holds
  <2> QED BY <1>3
<1> QED BY <1>4, BitCountEquation

-----------------------------------------------------------------------------
(* Fractions in lowest terms.                                              *)

Pos == Nat \ {0}

LEMMA GcdEquation ==
  /\ Gcd \in [Nat \X Nat -> Nat]
  /\ \A a, b \in Nat : Gcd[<<a, b>>] = IF b = 0 THEN a ELSE Gcd[<<b, a % b>>]
<1> DEFINE D == Nat \X Nat
           base == {p \in D : p[2] = 0}
           start == [p \in D |-> p[1]]
           next == [p \in D |-> IF p[2] = 0 THEN p ELSE <<p[2], p[1] % p[2]>>]
           combine == [p \in D \X Nat |-> p[2]]
           rank == [p \in D |-> p[2]]
<1>0. \A a \in Nat, b \in Pos : a % b \in Nat /\ a % b < b
  BY DEF Pos
<1>1. PICK f \in [D -> Nat] : Solves(f, D, base, start, next, combine)
  <2>1. start \in [D -> Nat] /\ rank \in [D -> Nat]
    OBVIOUS
  <2>2. next \in [D -> D]
    BY <1>0 DEF Pos
  <2>3. combine \in [D \X Nat -> Nat]
    OBVIOUS
  <2>4. \A p \in D \ base : rank[next[p]] < rank[p]
    <3>1. ASSUME NEW p \in D \ base PROVE rank[next[p]] < rank[p]
      <4>1. p[1] \in Nat /\ p[2] \in Pos
        BY DEF Pos
      <4>2. p[1] % p[2] \in Nat /\ p[1] % p[2] < p[2]
        BY <4>1, <1>0
      <4>3. next[p] = <<p[2], p[1] % p[2]>> /\ next[p] \in D
        BY <4>1, <4>2 DEF Pos
      <4>4. rank[next[p]] = p[1] % p[2] /\ rank[p] = p[2]
        BY <4>3
      <4> QED BY <4>2, <4>4
    <3> QED BY <3>1
  <2> HIDE DEF start, next, combine, rank, base, D
  <2> QED BY <2>1, <2>2, <2>3, <2>4, Recursion
<1>2. ASSUME NEW p \in D
      PROVE  f[p] = IF p[2] = 0 THEN p[1] ELSE f[<<p[2], p[1] % p[2]>>]
  <2>1. f[p] = IF p \in base THEN start[p] ELSE combine[<<p, f[next[p]]>>]
    <3> HIDE DEF start, next, combine, base, D
    <3> QED BY <1>1 DEF Solves
  <2>2. CASE p[2] = 0
    BY <2>1, <2>2
  <2>3. CASE p[2] # 0
    <3>1. p[1] \in Nat /\ p[2] \in Pos
      BY <2>3 DEF Pos
    <3>2. next[p] = <<p[2], p[1] % p[2]>> /\ next[p] \in D
      BY <3>1, <1>0, <2>3 DEF Pos
    <3>3. f[next[p]] \in Nat
      BY <3>2
    <3>4. combine[<<p, f[next[p]]>>] = f[next[p]]
      BY <3>3
    <3> QED BY <2>1, <2>3, <3>2, <3>4
  <2> QED BY <2>2, <2>3
<1>3. f = [p \in Nat \X Nat |-> IF p[2] = 0 THEN p[1] ELSE f[<<p[2], p[1] % p[2]>>]]
  BY <1>2
<1>4. Gcd = [p \in Nat \X Nat |-> IF p[2] = 0 THEN p[1] ELSE Gcd[<<p[2], p[1] % p[2]>>]]
  <2> HIDE DEF start, next, combine, rank, base, D
  <2> QED BY <1>3 DEF Gcd
<1>5. \A a, b \in Nat : Gcd[<<a, b>>] = IF b = 0 THEN a ELSE Gcd[<<b, a % b>>]
  BY <1>4
<1>6. \A a, b \in Nat : Gcd[<<a, b>>] \in Nat
  <2> DEFINE P == {m \in Nat : \A a, b \in Nat : b <= m => Gcd[<<a, b>>] \in Nat}
  <2>0. \A a \in Nat : Gcd[<<a, 0>>] \in Nat
    BY <1>5
  <2>1. 0 \in P
    <3>1. \A b \in Nat : b <= 0 => b = 0
      OBVIOUS
    <3> QED BY <2>0, <3>1
  <2>2. ASSUME NEW m \in Nat, m \in P PROVE m + 1 \in P
    <3>1. ASSUME NEW a \in Nat, NEW b \in Nat, b <= m + 1, b # 0
          PROVE  Gcd[<<a, b>>] \in Nat
      <4>1. a % b \in Nat /\ a % b <= m
        BY <3>1, <1>0 DEF Pos
      <4>2. Gcd[<<a, b>>] = Gcd[<<b, a % b>>]
        BY <3>1, <1>5
      <4> QED BY <4>1, <4>2, <2>2
    <3>2. \A a, b \in Nat : b <= m + 1 => Gcd[<<a, b>>] \in Nat
      BY <3>1, <2>0
    <3> QED BY <3>2
  <2>3. Nat \subseteq P
    <3> HIDE DEF P
    <3> QED BY <2>1, <2>2, AllNumbers
  <2>4. ASSUME NEW a \in Nat, NEW b \in Nat PROVE Gcd[<<a, b>>] \in Nat
    <3>1. b \in P /\ b <= b
      BY <2>3
    <3> QED BY <3>1
  <2> QED BY <2>4
<1>7. Gcd \in [Nat \X Nat -> Nat]
  <2>1. \A p \in Nat \X Nat : Gcd[p] \in Nat
    BY <1>6
  <2>2. Gcd = [p \in Nat \X Nat |-> Gcd[p]]
    BY <1>4
  <2> QED BY <2>1, <2>2
<1> QED BY <1>5, <1>7

(* The greatest common divisor divides both numbers.                       *)
Divides(d, n) == \E q \in Nat : n = d * q

LEMMA GcdDivides ==
  ASSUME NEW a \in Nat, NEW b \in Nat, a # 0 \/ b # 0
  PROVE  /\ Gcd[<<a, b>>] \in Pos
         /\ Divides(Gcd[<<a, b>>], a)
         /\ Divides(Gcd[<<a, b>>], b)
<1> DEFINE Holds(i, j) == /\ Gcd[<<i, j>>] \in Pos
                          /\ Divides(Gcd[<<i, j>>], i)
                          /\ Divides(Gcd[<<i, j>>], j)
           P == {m \in Nat : \A i, j \in Nat : j <= m /\ (i # 0 \/ j # 0) => Holds(i, j)}
<1>1. \A i \in Nat : i # 0 => Holds(i, 0)
  <2>1. ASSUME NEW i \in Nat, i # 0 PROVE Holds(i, 0)
    <3>1. Gcd[<<i, 0>>] = i
      BY GcdEquation
    <3>2. i = i * 1 /\ 0 = i * 0
      OBVIOUS
    <3> QED BY <2>1, <3>1, <3>2 DEF Divides, Pos
  <2> QED BY <2>1
<1>2. 0 \in P
  <2> HIDE DEF Holds
  <2> QED BY <1>1
<1>3. ASSUME NEW m \in Nat, m \in P PROVE m + 1 \in P
  <2>1. ASSUME NEW i \in Nat, NEW j \in Nat, j <= m + 1, j # 0
        PROVE  Holds(i, j)
    <3> DEFINE r == i % j
               g == Gcd[<<j, r>>]
    <3>1. r \in Nat /\ r <= m /\ i = j * (i \div j) + r /\ i \div j \in Nat
      BY <2>1
    <3>2. Gcd[<<i, j>>] = g
      BY <2>1, GcdEquation
    <3>3. Holds(j, r)
      BY <3>1, <2>1, <1>3
    <3>4. PICK p \in Nat, q \in Nat : j = g * p /\ r = g * q
      BY <3>3 DEF Divides
    <3>5. g \in Nat /\ p * (i \div j) + q \in Nat
      BY <3>1, <3>3, <3>4 DEF Pos
    <3>6. i = g * (p * (i \div j) + q)
      <4> DEFINE d == i \div j
      <4>1. i = j * d + r /\ d \in Nat /\ g \in Nat
        BY <3>1, <3>5
      <4>2. j = g * p /\ r = g * q
        BY <3>4
      <4>3. i = (g * p) * d + g * q
        <5> HIDE DEF d, g, r
        <5> QED BY <4>1, <4>2
      <4> HIDE DEF d, g
      <4>4. (g * p) * d + g * q = g * (p * d + q)
        BY <4>1
      <4>5. i = g * (p * d + q)
        BY <4>3, <4>4
      <4> QED BY <4>5 DEF d
    <3> QED BY <3>2, <3>3, <3>4, <3>5, <3>6 DEF Divides
  <2> HIDE DEF Holds
  <2>2. ASSUME NEW i \in Nat, NEW j \in Nat, j <= m + 1, i # 0 \/ j # 0
        PROVE  Holds(i, j)
    BY <2>1, <2>2, <1>1
  <2> QED BY <2>2
<1>4. Nat \subseteq P
  <2> HIDE DEF P
  <2> QED BY <1>2, <1>3, AllNumbers
<1>5. Holds(a, b)
  <2> HIDE DEF Holds
  <2> QED BY <1>4
<1> QED BY <1>5

-----------------------------------------------------------------------------
(* Rationals.  A cancelled fraction has the same value.                    *)
LEMMA RatExact ==
  ASSUME NEW n \in Nat, NEW d \in Pos
  PROVE  /\ Rat(n, d) \in Nat \X Pos
         /\ Rat(n, d)[1] * d = Rat(n, d)[2] * n
         /\ Rat(n, d)[1] = 0 <=> n = 0
<1> DEFINE g == Gcd[<<n, d>>]
<1>1. g \in Pos /\ Divides(g, n) /\ Divides(g, d)
  BY GcdDivides DEF Pos
<1>2. PICK p \in Nat, q \in Nat : n = g * p /\ d = g * q
  BY <1>1 DEF Divides
<1>3. n \div g = p /\ d \div g = q
  <2> HIDE DEF g
  <2>1. \A x \in Pos, y \in Nat : (x * y) \div x = y
    BY DEF Pos
  <2> QED BY <1>1, <1>2, <2>1
<1>4. Rat(n, d) = <<p, q>>
  BY <1>3 DEF Rat
<1>5. g \in Nat /\ g # 0
  BY <1>1 DEF Pos
<1>6. q # 0 /\ (p = 0 <=> n = 0)
  <2> HIDE DEF g
  <2> QED BY <1>2, <1>5 DEF Pos
<1>7. p * d = q * n
  <2> HIDE DEF g
  <2>1. p * (g * q) = q * (g * p)
    BY <1>5
  <2> QED BY <1>2, <2>1
<1> QED BY <1>4, <1>6, <1>7 DEF Pos

LEMMA RatMulExact ==
  ASSUME NEW x \in Nat \X Pos, NEW y \in Nat \X Pos
  PROVE  /\ RatMul(x, y) \in Nat \X Pos
         /\ RatMul(x, y)[1] * (x[2] * y[2]) = RatMul(x, y)[2] * (x[1] * y[1])
         /\ RatMul(x, y)[1] = 0 <=> x[1] = 0 \/ y[1] = 0
<1> DEFINE a == Rat(x[1], y[2])
           b == Rat(y[1], x[2])
<1>1. x[1] \in Nat /\ y[1] \in Nat /\ x[2] \in Pos /\ y[2] \in Pos
  OBVIOUS
<1>2. /\ a \in Nat \X Pos /\ a[1] * y[2] = a[2] * x[1] /\ (a[1] = 0 <=> x[1] = 0)
      /\ b \in Nat \X Pos /\ b[1] * x[2] = b[2] * y[1] /\ (b[1] = 0 <=> y[1] = 0)
  BY <1>1, RatExact
<1>3. RatMul(x, y) = <<a[1] * b[1], a[2] * b[2]>>
  BY DEF RatMul
<1>4. a[1] \in Nat /\ b[1] \in Nat /\ a[2] \in Pos /\ b[2] \in Pos
  BY <1>2
<1>5. \A i, j \in Nat : i * j \in Nat /\ (i * j = 0 <=> i = 0 \/ j = 0)
  OBVIOUS
<1>6. a[1] * b[1] \in Nat /\ a[2] * b[2] \in Pos
  BY <1>4, <1>5 DEF Pos
<1>7. (a[1] * b[1]) * (x[2] * y[2]) = (a[2] * b[2]) * (x[1] * y[1])
  <2> DEFINE a1 == a[1]  a2 == a[2]  b1 == b[1]  b2 == b[2]
             x1 == x[1]  x2 == x[2]  y1 == y[1]  y2 == y[2]
  <2>1. /\ a1 \in Nat /\ a2 \in Nat /\ b1 \in Nat /\ b2 \in Nat
        /\ x1 \in Nat /\ x2 \in Nat /\ y1 \in Nat /\ y2 \in Nat
    BY <1>1, <1>4 DEF Pos
  <2>2. a1 * y2 = a2 * x1 /\ b1 * x2 = b2 * y1
    BY <1>2
  <2> HIDE DEF a1, a2, b1, b2, x1, x2, y1, y2
  <2>3. (a1 * b1) * (x2 * y2) = (a1 * y2) * (b1 * x2)
    BY <2>1
  <2>4. (a2 * x1) * (b2 * y1) = (a2 * b2) * (x1 * y1)
    BY <2>1
  <2>5. (a1 * b1) * (x2 * y2) = (a2 * b2) * (x1 * y1)
    BY <2>2, <2>3, <2>4
  <2> QED BY <2>5 DEF a1, a2, b1, b2, x1, x2, y1, y2
<1>8. a[1] * b[1] = 0 <=> x[1] = 0 \/ y[1] = 0
  BY <1>2, <1>4, <1>5
<1> HIDE DEF a, b
<1> QED BY <1>3, <1>6, <1>7, <1>8

-----------------------------------------------------------------------------
(* Ranges, bits and scales.                                                *)

Fraction == Nat \X Pos
Positive == Pos \X Pos

(* Integer division rounds down.                                           *)
LEMMA Division ==
  ASSUME NEW a \in Int, NEW d \in Pos
  PROVE  a \div d \in Int /\ (a \div d) * d <= a /\ a < (a \div d) * d + d
BY DEF Pos

LEMMA DivisionOfNat ==
  ASSUME NEW a \in Nat, NEW d \in Pos
  PROVE  a \div d \in Nat
BY DEF Pos

LEMMA CeilBounds ==
  ASSUME NEW x \in Fraction
  PROVE  /\ Ceil(x) \in Nat
         /\ x[1] <= Ceil(x) * x[2]
         /\ (Ceil(x) - 1) * x[2] < x[1]
         /\ x[1] = 0 => Ceil(x) = 0
<1> DEFINE n == x[1]
           d == x[2]
           q == (-n) \div d
<1>1. n \in Nat /\ d \in Pos /\ -n \in Int /\ Ceil(x) = -q
  BY DEF Fraction, Ceil
<1>2. q \in Int /\ q * d <= -n /\ -n < q * d + d
  BY <1>1, Division
<1> HIDE DEF q
<1>3. d \in Nat /\ d # 0
  BY <1>1 DEF Pos
<1>4. q <= 0
  <2> HIDE DEF n, d
  <2>1. ASSUME q >= 1 PROVE q * d >= d
    BY <1>2, <1>3, <2>1
  <2> QED BY <2>1, <1>1, <1>2, <1>3
<1>5. -q \in Nat
  BY <1>2, <1>4
<1>6. n <= (-q) * d /\ ((-q) - 1) * d < n
  <2> HIDE DEF n, d
  <2> QED BY <1>1, <1>2, <1>3
<1>7. n = 0 => -q = 0
  <2> HIDE DEF n, d
  <2>1. ASSUME q <= -1 PROVE q * d + d <= 0
    <3>1. q * d <= -d
      BY <1>2, <1>3, <2>1
    <3>2. q * d \in Int
      BY <1>2, <1>3
    <3> QED BY <3>1, <3>2, <1>3
  <2>2. q * d \in Int /\ q * d + d \in Int
    BY <1>2, <1>3
  <2>3. ASSUME n = 0 PROVE q > -1
    BY <2>1, <2>2, <2>3, <1>2
  <2> QED BY <2>3, <1>2, <1>4
<1> QED BY <1>1, <1>5, <1>6, <1>7

LEMMA RangeIsNat ==
  ASSUME NEW p \in Int
  PROVE  /\ get_range(p) \in Nat
         /\ p >= 1 => get_range(p) = Pow2[p - 1] - 1
         /\ p <= 1 => get_range(p) = 0
         /\ p >= 2 => get_range(p) \in Pos
<1>1. CASE p < 1
  BY <1>1 DEF get_range
<1>2. CASE p >= 1
  <2>1. get_range(p) = Pow2[p - 1] - 1 /\ p - 1 \in Nat
    BY <1>2 DEF get_range
  <2>2. Pow2[p - 1] \in Nat \ {0}
    BY <2>1, Pow2Positive
  <2>3. p = 1 => Pow2[p - 1] = 1
    BY Pow2Next
  <2>4. p >= 2 => Pow2[1] <= Pow2[p - 1] /\ Pow2[1] = 2
    <3>1. Pow2[0 + 1] = 2 * Pow2[0] /\ Pow2[0] = 1
      BY Pow2Next
    <3>2. p >= 2 => Pow2[1] <= Pow2[p - 1]
      BY <2>1, Pow2Ordered
    <3> QED BY <3>1, <3>2
  <2> QED BY <1>2, <2>1, <2>2, <2>3, <2>4 DEF Pos
<1> QED BY <1>1, <1>2

LEMMA RangeOrdered ==
  ASSUME NEW p \in Int, NEW q \in Int, p <= q
  PROVE  get_range(p) <= get_range(q)
<1>1. get_range(p) \in Nat /\ get_range(q) \in Nat
  BY RangeIsNat
<1>2. CASE p < 1
  BY <1>1, <1>2, RangeIsNat
<1>3. CASE p >= 1
  <2>1. p - 1 \in Nat /\ q - 1 \in Nat /\ p - 1 <= q - 1
    BY <1>3
  <2>2. Pow2[p - 1] <= Pow2[q - 1] /\ Pow2[p - 1] \in Nat /\ Pow2[q - 1] \in Nat
    BY <2>1, Pow2Ordered, Pow2Next
  <2> QED BY <2>2, <1>3, RangeIsNat
<1> QED BY <1>2, <1>3

(* A precision that get_bit computes holds the value it was computed for.  *)
LEMMA BitsHold ==
  ASSUME NEW x \in Fraction
  PROVE  /\ get_bit(x) \in Pos
         /\ Ceil(x) <= get_range(get_bit(x))
         /\ x[1] = 0 => get_bit(x) = 1
<1>1. Ceil(x) \in Nat /\ (x[1] = 0 => Ceil(x) = 0)
  BY CeilBounds
<1> DEFINE c == get_bit_cnt[Ceil(x)]
<1>2. c \in Nat /\ Ceil(x) < Pow2[c] /\ (Ceil(x) = 0 => c = 0)
  BY <1>1, BitCountBounds
<1>3. get_bit(x) = c + 1
  BY DEF get_bit
<1>4. get_range(c + 1) = Pow2[c] - 1 /\ Pow2[c] \in Nat
  BY <1>2, RangeIsNat, Pow2Next
<1> QED BY <1>1, <1>2, <1>3, <1>4 DEF Pos

LEMMA BitsHoldInteger ==
  ASSUME NEW a \in Nat
  PROVE  get_bit(Int2Rat(a)) \in Pos /\ a <= get_range(get_bit(Int2Rat(a)))
<1>1. Int2Rat(a) = <<a, 1>> /\ Int2Rat(a) \in Fraction
  BY DEF Int2Rat, Fraction, Pos
<1>2. Ceil(Int2Rat(a)) \in Nat /\ a <= Ceil(Int2Rat(a)) * 1
  BY <1>1, CeilBounds
<1> QED BY <1>1, <1>2, BitsHold, RangeIsNat DEF Pos

(* Rounded data does not exceed the data rounded up.                       *)
LEMMA RoundedFits ==
  ASSUME NEW x \in Fraction
  PROVE  RoundHalfUp(x) \in Nat /\ RoundHalfUp(x) <= Ceil(x)
<1> DEFINE n == x[1]
           d == x[2]
           q == (2 * n + d) \div (2 * d)
           c == Ceil(x)
<1>1. n \in Nat /\ d \in Nat /\ d # 0
  BY DEF Fraction, Pos
<1>2. RoundHalfUp(x) = q
  BY DEF RoundHalfUp, Floor
<1>3. 2 * n + d \in Nat /\ 2 * d \in Pos
  BY <1>1 DEF Pos
<1>4. q \in Nat /\ q * (2 * d) <= 2 * n + d
  BY <1>3, Division, DivisionOfNat
<1>5. c \in Nat /\ n <= c * d
  BY CeilBounds
<1> HIDE DEF n, d, q, c
<1>6. ASSUME q >= c + 1 PROVE FALSE
  <2>1. (c + 1) * (2 * d) <= q * (2 * d)
    BY <1>1, <1>4, <1>5, <1>6
  <2>2. (c + 1) * (2 * d) = 2 * (c * d) + 2 * d
    BY <1>1, <1>5
  <2>3. c * d \in Nat
    BY <1>1, <1>5
  <2>4. q * (2 * d) \in Nat
    BY <1>1, <1>4
  <2> QED BY <2>1, <2>2, <2>3, <2>4, <1>1, <1>4, <1>5
<1>7. q <= c
  BY <1>4, <1>5, <1>6
<1> QED BY <1>2, <1>4, <1>7 DEF c

-----------------------------------------------------------------------------
LEMMA ProductsPositive ==
  ASSUME NEW x \in Positive, NEW y \in Positive
  PROVE  RatMul(x, y) \in Positive /\ RatDiv(x, y) \in Positive
<1>1. /\ x \in Nat \X Pos /\ x[1] # 0 /\ y \in Nat \X Pos /\ y[1] # 0
      /\ <<y[2], y[1]>> \in Nat \X Pos /\ y[2] # 0
  BY DEF Positive, Pos
<1>2. RatMul(x, y) \in Nat \X Pos /\ RatMul(x, y)[1] # 0
  BY <1>1, RatMulExact
<1>3. RatDiv(x, y) \in Nat \X Pos /\ RatDiv(x, y)[1] # 0
  BY <1>1, RatMulExact DEF RatDiv
<1>4. \A z \in Nat \X Pos : z[1] # 0 => z \in Positive
  BY DEF Positive, Pos
<1> QED BY <1>2, <1>3, <1>4

LEMMA FractionProducts ==
  ASSUME NEW x \in Fraction, NEW y \in Fraction
  PROVE  RatMul(x, y) \in Fraction /\ (x[1] = 0 => RatMul(x, y)[1] = 0)
BY RatMulExact DEF Fraction

LEMMA PositiveIsFraction == Positive \subseteq Fraction
BY DEF Positive, Fraction, Pos

LEMMA IntegersPositive ==
  ASSUME NEW n \in Pos
  PROVE  Int2Rat(n) \in Positive /\ <<1, n>> \in Positive
BY DEF Int2Rat, Positive, Pos

LEMMA ScalePositive ==
  ASSUME NEW threshold \in Fraction, NEW precision \in Nat, precision >= 2
  PROVE  scale(threshold, precision) \in Positive
<1>1. get_range(precision) \in Pos
  BY RangeIsNat
<1>2. Int2Rat(get_range(precision)) \in Positive /\ Int2Rat(1) \in Positive
  <2>1. 1 \in Pos
    BY DEF Pos
  <2> QED BY <1>1, <2>1, IntegersPositive
<1>3. threshold[1] # 0 => threshold \in Positive
  BY DEF Fraction, Positive, Pos
<1> QED BY <1>2, <1>3, ProductsPositive DEF scale

LEMMA ShiftExact ==
  ASSUME NEW x \in Positive, NEW e \in Int
  PROVE  /\ Shift(x, e) \in Positive
         /\ e >= 0 => Shift(x, e)[1] * x[2] = Shift(x, e)[2] * (x[1] * Pow2[e])
         /\ e < 0 => Shift(x, e)[1] * (x[2] * Pow2[-e]) = Shift(x, e)[2] * x[1]
<1>0. x \in Nat \X Pos /\ x[1] \in Nat /\ x[2] \in Nat
  BY DEF Positive, Pos
<1>1. CASE e >= 0
  <2> DEFINE y == <<Pow2[e], 1>>
  <2>1. Pow2[e] \in Pos
    BY <1>1, Pow2Positive DEF Pos
  <2>2. y \in Positive /\ y \in Nat \X Pos
    BY <2>1 DEF Positive, Pos
  <2>3. Shift(x, e) = RatMul(x, y)
    BY <1>1 DEF Shift
  <2>4. RatMul(x, y)[1] * (x[2] * 1) = RatMul(x, y)[2] * (x[1] * Pow2[e])
    BY <1>0, <2>2, RatMulExact
  <2>5. RatMul(x, y) \in Positive
    BY <2>2, ProductsPositive
  <2> QED BY <1>0, <1>1, <2>3, <2>4, <2>5
<1>2. CASE e < 0
  <2> DEFINE y == <<1, Pow2[-e]>>
  <2>1. Pow2[-e] \in Pos
    BY <1>2, Pow2Positive DEF Pos
  <2>2. y \in Positive /\ y \in Nat \X Pos
    BY <2>1 DEF Positive, Pos
  <2>3. Shift(x, e) = RatMul(x, y)
    BY <1>2 DEF Shift
  <2>4. RatMul(x, y)[1] * (x[2] * Pow2[-e]) = RatMul(x, y)[2] * (x[1] * 1)
    BY <1>0, <2>2, RatMulExact
  <2>5. RatMul(x, y) \in Positive
    BY <2>2, ProductsPositive
  <2> QED BY <1>0, <1>2, <2>3, <2>4, <2>5
<1> QED BY <1>1, <1>2

-----------------------------------------------------------------------------
(* Fractions compared by cross products.                                   *)
SameAs(x, n, d) == x[1] * d = x[2] * n

LEMMA Cancelled ==
  ASSUME NEW a \in Nat, NEW b \in Nat, NEW g \in Pos
  PROVE  /\ a * g <= b * g => a <= b
         /\ a * g = b * g => a = b
         /\ a * g < b * g => a < b
         /\ a <= b => a * g <= b * g
BY DEF Pos

LEMMA NatProduct ==
  ASSUME NEW a \in Nat, NEW b \in Nat
  PROVE  a * b \in Nat /\ a * b = b * a
OBVIOUS

LEMMA PosProduct ==
  ASSUME NEW a \in Pos, NEW b \in Pos
  PROVE  a * b \in Pos
BY DEF Pos

LEMMA SameProduct ==
  ASSUME NEW x \in Fraction, NEW y \in Fraction,
         NEW n \in Nat, NEW d \in Pos, NEW u \in Nat, NEW w \in Pos,
         SameAs(x, n, d), SameAs(y, u, w)
  PROVE  SameAs(RatMul(x, y), n * u, d * w)
<1> DEFINE z == RatMul(x, y)
           z1 == z[1]  z2 == z[2]
           a == x[1]  b == x[2]
           e == y[1]  f == y[2]
<1>1. /\ z1 \in Nat /\ z2 \in Nat /\ a \in Nat /\ b \in Pos /\ e \in Nat /\ f \in Pos
      /\ z1 * (b * f) = z2 * (a * e)
  BY RatMulExact DEF Fraction, Pos
<1>2. a * d = b * n /\ e * w = f * u
  BY DEF SameAs
<1>3. b \in Nat /\ f \in Nat /\ d \in Nat /\ w \in Nat
  BY <1>1 DEF Pos
<1> HIDE DEF z1, z2, a, b, e, f
<1>4. (z1 * (d * w)) * (b * f) = (z1 * (b * f)) * (d * w)
  BY <1>1, <1>3
<1>5. (z2 * (a * e)) * (d * w) = z2 * ((a * d) * (e * w))
  BY <1>1, <1>3
<1>6. z2 * ((b * n) * (f * u)) = (z2 * (n * u)) * (b * f)
  BY <1>1, <1>3
<1>7. (z1 * (d * w)) * (b * f) = (z2 * (n * u)) * (b * f)
  BY <1>1, <1>2, <1>4, <1>5, <1>6
<1>8. z1 * (d * w) \in Nat /\ z2 * (n * u) \in Nat /\ b * f \in Pos
  BY <1>1, <1>3, NatProduct, PosProduct
<1>9. z1 * (d * w) = z2 * (n * u)
  BY <1>7, <1>8, Cancelled
<1> QED BY <1>9 DEF SameAs, z1, z2

LEMMA SameQuotient ==
  ASSUME NEW x \in Positive, NEW y \in Positive,
         NEW n \in Nat, NEW d \in Pos, NEW u \in Pos, NEW w \in Pos,
         SameAs(x, n, d), SameAs(y, u, w)
  PROVE  SameAs(RatDiv(x, y), n * w, d * u)
<1> DEFINE i == <<y[2], y[1]>>
<1>1. /\ i \in Fraction /\ x \in Fraction /\ y[1] \in Nat /\ y[2] \in Nat
      /\ u \in Nat /\ w \in Nat
  BY DEF Positive, Fraction, Pos
<1>2. SameAs(i, w, u)
  <2>1. y[1] * w = y[2] * u
    BY DEF SameAs
  <2>2. i[1] = y[2] /\ i[2] = y[1]
    OBVIOUS
  <2> QED BY <2>1, <2>2, <1>1 DEF SameAs
<1> HIDE DEF i
<1>3. SameAs(RatMul(x, i), n * w, d * u)
  BY <1>1, <1>2, SameProduct
<1> QED BY <1>3 DEF RatDiv, i

LEMMA SameReduced ==
  ASSUME NEW x \in Fraction, NEW n \in Nat, NEW d \in Nat, NEW g \in Pos,
         SameAs(x, n * g, d * g)
  PROVE  SameAs(x, n, d)
<1> DEFINE a == x[1]  b == x[2]
<1>1. a \in Nat /\ b \in Nat /\ g \in Nat /\ a * (d * g) = b * (n * g)
  BY DEF SameAs, Fraction, Pos
<1> HIDE DEF a, b
<1>2. (a * d) * g = (b * n) * g /\ a * d \in Nat /\ b * n \in Nat
  BY <1>1
<1>3. a * d = b * n
  BY <1>2, Cancelled
<1> QED BY <1>3 DEF SameAs, a, b

LEMMA SameSelf ==
  ASSUME NEW x \in Fraction
  PROVE  SameAs(x, x[1], x[2])
BY DEF SameAs, Fraction, Pos

(* The integer part of v units at a rate of n to d.                        *)
LEMMA FloorAtRate ==
  ASSUME NEW v \in Nat, NEW r \in Fraction, NEW n \in Nat, NEW d \in Pos, SameAs(r, n, d)
  PROVE  LET i == Floor(RatMul(Int2Rat(v), r))
         IN  i \in Nat /\ i * d <= v * n
<1> DEFINE z == RatMul(Int2Rat(v), r)
           z1 == z[1]  z2 == z[2]
           i == z1 \div z2
<1>1. Int2Rat(v) \in Fraction /\ Int2Rat(v)[1] = v /\ Int2Rat(v)[2] = 1
  BY DEF Int2Rat, Fraction, Pos
<1>2. z \in Fraction
  BY <1>1, FractionProducts
<1>3. SameAs(Int2Rat(v), v, 1)
  BY <1>1 DEF SameAs
<1>4. SameAs(z, v * n, 1 * d)
  BY <1>1, <1>3, SameProduct DEF Pos
<1>5. z1 \in Nat /\ z2 \in Pos /\ z2 \in Nat /\ d \in Nat /\ z1 * d = z2 * (v * n)
  BY <1>2, <1>4 DEF SameAs, Fraction, Pos
<1> HIDE DEF z1, z2
<1>6. i \in Nat /\ i * z2 <= z1
  BY <1>5, Division, DivisionOfNat
<1> HIDE DEF i
<1>7. (i * d) * z2 = (i * z2) * d /\ z2 * (v * n) = (v * n) * z2
  BY <1>5, <1>6
<1>8. (i * z2) * d <= z1 * d
  BY <1>5, <1>6, NatProduct, Cancelled
<1>9. (i * d) * z2 <= (v * n) * z2
  BY <1>5, <1>7, <1>8
<1>10. i * d \in Nat /\ v * n \in Nat
  BY <1>5, <1>6
<1>11. i * d <= v * n
  BY <1>5, <1>9, <1>10, Cancelled
<1> QED BY <1>6, <1>11 DEF i, z1, z2, Floor

-----------------------------------------------------------------------------
(* Log2 is a power of two that does not exceed the number.                 *)
LEMMA Log2Below ==
  ASSUME NEW x \in Positive
  PROVE  /\ Log2(x) \in Int
         /\ Log2(x) >= 0 => Pow2[Log2(x)] * x[2] <= x[1]
         /\ Log2(x) < 0 => x[2] <= x[1] * Pow2[-Log2(x)]
<1> DEFINE n == x[1]
           d == x[2]
<1>1. n \in Pos /\ d \in Pos /\ n \in Nat /\ d \in Nat /\ n # 0 /\ d # 0
  BY DEF Positive, Pos
<1>2. CASE n >= d
  <2> DEFINE m == n \div d
             c == get_bit_cnt[m]
  <2>1. m \in Nat /\ m * d <= n /\ n < m * d + d
    <3>1. n \in Nat /\ n \in Int /\ d \in Pos
      BY <1>1
    <3> HIDE DEF n, d
    <3> QED BY <3>1, Division, DivisionOfNat
  <2>2. m # 0
    BY <2>1, <1>1, <1>2
  <2>3. c \in Nat /\ c # 0 /\ Pow2[c - 1] <= m
    BY <2>1, <2>2, BitCountBounds
  <2>4. Log2(x) = c - 1
    BY <1>2 DEF Log2, Floor
  <2>5. Pow2[c - 1] \in Nat
    BY <2>3, Pow2Next
  <2>6. Pow2[c - 1] * d <= n
    <3> HIDE DEF m, c, n, d
    <3>1. Pow2[c - 1] * d <= m * d
      BY <2>1, <2>3, <2>5, <1>1
    <3>2. Pow2[c - 1] * d \in Nat /\ m * d \in Nat
      BY <2>1, <2>5, <1>1
    <3> QED BY <3>1, <3>2, <2>1, <1>1
  <2> HIDE DEF c
  <2> QED BY <2>3, <2>4, <2>6
<1>3. CASE n < d
  <2> DEFINE y == <<d, n>>
             m == Ceil(y)
             c == get_bit_cnt[m - 1]
  <2>1. y \in Fraction
    BY <1>1 DEF Fraction
  <2>2. m \in Nat /\ d <= m * n
    BY <2>1, CeilBounds
  <2>3. m >= 2
    <3>1. \A i \in Nat : i < 2 => i = 0 \/ i = 1
      OBVIOUS
    <3> HIDE DEF m, n, d
    <3> QED BY <3>1, <2>2, <1>1, <1>3
  <2>4. m - 1 \in Nat /\ m - 1 # 0
    BY <2>2, <2>3
  <2>5. c \in Nat /\ m - 1 < Pow2[c] /\ c # 0
    BY <2>4, BitCountBounds
  <2>6. Log2(x) = -c
    BY <1>1, <1>3 DEF Log2
  <2>7. Pow2[c] \in Nat
    BY <2>5, Pow2Next
  <2>8. d <= n * Pow2[c]
    <3> HIDE DEF m, c, n, d
    <3>1. m * n <= Pow2[c] * n
      BY <2>2, <2>5, <2>7, <1>1
    <3>2. Pow2[c] * n = n * Pow2[c] /\ Pow2[c] * n \in Nat /\ m * n \in Nat
      BY <2>2, <2>7, <1>1
    <3> QED BY <3>1, <3>2, <2>2, <1>1
  <2> HIDE DEF c
  <2>9. -(-c) = c /\ -c < 0
    BY <2>5
  <2> QED BY <2>5, <2>6, <2>8, <2>9
<1> QED BY <1>1, <1>2, <1>3

(* Normalised by Log2 and then doubled k times, a number is at least 2^k.  *)
LEMMA NormalisedAtLeast ==
  ASSUME NEW x \in Positive, NEW k \in Nat
  PROVE  /\ Shift(x, k - Log2(x)) \in Positive
         /\ Pow2[k] * Shift(x, k - Log2(x))[2] <= Shift(x, k - Log2(x))[1]
<1> DEFINE n == x[1]
           d == x[2]
           e == Log2(x)
           s == Shift(x, k - e)
           a == s[1]
           b == s[2]
           P == Pow2[k]
<1>1. n \in Nat /\ d \in Nat /\ n # 0 /\ d # 0 /\ d \in Pos
  BY DEF Positive, Pos
<1>2. e \in Int /\ (e >= 0 => Pow2[e] * d <= n) /\ (e < 0 => d <= n * Pow2[-e])
  BY Log2Below
<1>3. k - e \in Int
  BY <1>2
<1>4. /\ s \in Positive
      /\ k - e >= 0 => a * d = b * (n * Pow2[k - e])
      /\ k - e < 0 => a * (d * Pow2[-(k - e)]) = b * n
  BY <1>3, ShiftExact
<1>5. a \in Nat /\ b \in Nat /\ P \in Nat
  <2>1. P \in Nat
    BY Pow2Next
  <2> HIDE DEF s, P
  <2> QED BY <1>4, <2>1 DEF Positive, Pos
<1> HIDE DEF s, e, a, b, n, d, P
<1>6. CASE e >= 0 /\ k - e >= 0
  <2> DEFINE q == Pow2[e]
             r == Pow2[k - e]
  <2>1. e \in Nat /\ k - e \in Nat /\ k = e + (k - e)
    BY <1>2, <1>6
  <2>2. q \in Nat /\ r \in Nat /\ P = q * r
    BY <2>1, Pow2Next, Pow2Sum DEF P
  <2>3. q * d <= n /\ a * d = b * (n * r)
    BY <1>2, <1>4, <1>6
  <2> HIDE DEF q, r
  <2>4. (q * d) * (b * r) <= n * (b * r)
    BY <1>1, <1>5, <2>2, <2>3
  <2>5. (P * b) * d = (q * d) * (b * r) /\ n * (b * r) = b * (n * r)
    BY <1>1, <1>5, <2>2
  <2>6. (P * b) * d <= a * d /\ P * b \in Nat
    BY <1>1, <1>5, <2>2, <2>3, <2>4, <2>5
  <2> QED BY <1>1, <1>4, <1>5, <2>6, Cancelled DEF P, a, b, s, e
<1>7. CASE e >= 0 /\ k - e < 0
  <2> DEFINE q == Pow2[e]
             r == Pow2[-(k - e)]
  <2>1. e \in Nat /\ -(k - e) \in Nat /\ e = k + (-(k - e))
    BY <1>2, <1>7
  <2>2. q \in Nat /\ r \in Nat \ {0} /\ q = P * r
    BY <2>1, Pow2Next, Pow2Positive, Pow2Sum DEF P
  <2>3. q * d <= n /\ a * (d * r) = b * n
    BY <1>2, <1>4, <1>7
  <2> HIDE DEF q, r
  <2>4. (q * d) * b <= n * b
    BY <1>1, <1>5, <2>2, <2>3
  <2>5. (P * b) * (d * r) = (q * d) * b /\ n * b = b * n
    BY <1>1, <1>5, <2>2
  <2>6. (P * b) * (d * r) <= a * (d * r) /\ P * b \in Nat /\ d * r \in Pos
    BY <1>1, <1>5, <2>2, <2>3, <2>4, <2>5 DEF Pos
  <2> QED BY <1>1, <1>4, <1>5, <2>6, Cancelled DEF P, a, b, s, e
<1>8. CASE e < 0
  <2> DEFINE q == Pow2[-e]
             r == Pow2[k - e]
  <2>1. -e \in Nat /\ k - e \in Nat /\ k - e = k + (-e) /\ k - e >= 0
    BY <1>2, <1>8
  <2>2. q \in Nat /\ r \in Nat /\ r = P * q
    BY <2>1, Pow2Next, Pow2Sum DEF P
  <2>3. d <= n * q /\ a * d = b * (n * r)
    BY <1>2, <1>4, <1>8, <2>1
  <2> HIDE DEF q, r
  <2>4. d * (P * b) <= (n * q) * (P * b)
    <3>1. n * q \in Nat /\ P * b \in Nat
      BY <1>1, <1>5, <2>2
    <3> HIDE DEF P
    <3> QED BY <3>1, <1>1, <2>3
  <2>5. (P * b) * d = d * (P * b) /\ (n * q) * (P * b) = b * (n * r)
    BY <1>1, <1>5, <2>2
  <2>6. (P * b) * d <= a * d /\ P * b \in Nat
    BY <1>1, <1>5, <2>2, <2>3, <2>4, <2>5
  <2> QED BY <1>1, <1>4, <1>5, <2>6, Cancelled DEF P, a, b, s, e
<1> QED BY <1>2, <1>3, <1>6, <1>7, <1>8

(* A mantissa is never rounded to zero.                                    *)
LEMMA RoundedAtLeastOne ==
  ASSUME NEW x \in Positive, x[2] <= x[1]
  PROVE  RoundHalfEven(x) \in Pos
<1> DEFINE n == x[1]
           d == x[2]
           f == n \div d
<1>1. n \in Nat /\ d \in Pos /\ d \in Nat
  BY DEF Positive, Pos
<1>2. f \in Nat /\ n < f * d + d
  <2>1. n \in Nat /\ n \in Int /\ d \in Pos
    BY <1>1
  <2> HIDE DEF n, d
  <2> QED BY <2>1, Division, DivisionOfNat
<1>3. f # 0
  BY <1>1, <1>2
<1>4. RoundHalfEven(x) = f \/ RoundHalfEven(x) = f + 1
  BY DEF RoundHalfEven, Floor
<1> QED BY <1>2, <1>3, <1>4 DEF Pos

(* What cvm_float rounds: the number normalised and doubled k times, until *)
(* it is an integer or the bits are used up.                               *)
LEMMA MantissaForm ==
  ASSUME NEW number \in Positive, NEW bits \in Int
  PROVE  \E k \in Nat :
           LET s == Shift(number, k - Log2(number))
           IN  /\ cvm_float(number, bits) =
                    [frac |-> Smaller(RoundHalfEven(s), Larger(get_range(bits), 1)),
                     exp |-> Log2(number) - k]
               /\ s[2] = 1 \/ k = Larger(bits - 2, 0)
<1> DEFINE alpha == Larger(get_range(bits), 1)
           e == Log2(number)
           norm(k) == Shift(number, k - e)
           last == Larger(bits - 2, 0)
           k == CHOOSE j \in 0 .. last :
                  /\ norm(j)[2] = 1 \/ j = last
                  /\ \A i \in 0 .. j - 1 : norm(i)[2] # 1
<1>1. number[1] # 0
  BY DEF Positive, Pos
<1>2. cvm_float(number, bits) = [frac |-> Smaller(RoundHalfEven(norm(k)), alpha), exp |-> e - k]
  BY <1>1 DEF cvm_float
<1>3. last \in Nat
  BY DEF Larger
<1>4. k \in 0 .. last /\ (norm(k)[2] = 1 \/ k = last)
  <2> DEFINE T == {j \in 0 .. last : norm(j)[2] = 1 \/ j = last}
  <2> HIDE DEF norm
  <2>1. T \subseteq Nat /\ last \in T
    BY <1>3
  <2>2. PICK j \in T : \A i \in T : j <= i
    <3> HIDE DEF T
    <3> QED BY <2>1, LeastNumber
  <2>3. \A i \in 0 .. j - 1 : norm(i)[2] # 1
    <3>1. ASSUME NEW i \in 0 .. j - 1, norm(i)[2] = 1 PROVE FALSE
      <4>1. j \in 0 .. last
        BY <2>2
      <4>2. i \in 0 .. last /\ i < j
        BY <3>1, <4>1, <1>3
      <4>3. i \in T
        BY <3>1, <4>2
      <4> HIDE DEF T
      <4> QED BY <2>2, <4>1, <4>2, <4>3
    <3> QED BY <3>1
  <2>4. \E i \in 0 .. last : /\ norm(i)[2] = 1 \/ i = last
                             /\ \A h \in 0 .. i - 1 : norm(h)[2] # 1
    BY <2>2, <2>3
  <2> HIDE DEF T, last
  <2> QED BY <2>4
<1> HIDE DEF k
<1>5. k \in Nat
  BY <1>3, <1>4
<1> QED BY <1>2, <1>4, <1>5

LEMMA MantissaPositive ==
  ASSUME NEW number \in Positive, NEW bits \in Int
  PROVE  cvm_float(number, bits).frac \in Pos /\ cvm_float(number, bits).exp \in Int
<1> DEFINE alpha == Larger(get_range(bits), 1)
           e == Log2(number)
           norm(k) == Shift(number, k - e)
<1>1. PICK k \in Nat : cvm_float(number, bits) =
        [frac |-> Smaller(RoundHalfEven(norm(k)), alpha), exp |-> e - k]
  BY MantissaForm
<1>2. alpha \in Pos
  BY RangeIsNat DEF Larger, Pos
<1>3. e \in Int
  BY Log2Below
<1>4. norm(k) \in Positive /\ norm(k)[2] <= norm(k)[1]
  <2> DEFINE m == norm(k)[1]
             n == norm(k)[2]
             P == Pow2[k]
  <2>1. norm(k) \in Positive /\ P * n <= m /\ P \in Nat \ {0}
    BY NormalisedAtLeast, Pow2Positive
  <2>2. m \in Nat /\ n \in Nat
    <3> HIDE DEF norm
    <3> QED BY <2>1 DEF Positive, Pos
  <2> HIDE DEF m, n, P, norm
  <2>3. n <= P * n /\ P * n \in Nat
    BY <2>1, <2>2
  <2>4. n <= m
    BY <2>1, <2>2, <2>3
  <2> QED BY <2>1, <2>4 DEF m, n
<1>5. RoundHalfEven(norm(k)) \in Pos
  <2> HIDE DEF norm
  <2> QED BY <1>4, RoundedAtLeastOne
<1> HIDE DEF norm, alpha, e
<1>6. Smaller(RoundHalfEven(norm(k)), alpha) \in Pos
  BY <1>2, <1>5 DEF Smaller
<1> QED BY <1>1, <1>3, <1>6

-----------------------------------------------------------------------------
(* Requantised operators.                                                  *)

Honest(sym, prec) ==
  /\ prec \in Pos /\ sym.bound \in Nat
  /\ sym.bound <= get_range(prec)

(* What a requantisation returns.                                          *)
GoodResult(r) == r.scale \in Positive /\ Honest(r.sym, r.prec)

GoodOperator(x) ==
  /\ x.th \in Fraction /\ x.scale \in Positive
  /\ Honest(x.sym, x.prec)
  /\ x.th[1] = 0 => x.prec = 1

LEMMA RealizeHonest ==
  ASSUME NEW X, X.bound \in Nat, NEW sb \in Int, NEW prec \in Int
  PROVE  /\ realize(X, sb, prec).bound \in Nat
         /\ realize(X, sb, prec).bound <= get_range(prec)
<1>0. get_range(prec) \in Nat
  BY RangeIsNat
<1> DEFINE R == get_range(prec)
<1> HIDE DEF R
<1>00. R \in Nat /\ R = get_range(prec)
  BY <1>0 DEF R
<1>1. CASE sb = 0
  <2>1. realize(X, sb, prec).bound = Smaller(X.bound, R)
    BY <1>1, <1>00 DEF realize, cvm_clip, Sym
  <2> QED BY <2>1, <1>00 DEF Smaller
<1>2. CASE sb < 0
  <2>1. realize(X, sb, prec).bound = Smaller(X.bound * Pow2[-sb], R)
    BY <1>2, <1>00 DEF realize, cvm_left_shift, Sym
  <2>2. X.bound * Pow2[-sb] \in Nat
    BY <1>2, Pow2Next
  <2> QED BY <2>1, <2>2, <1>00 DEF Smaller
<1>3. CASE sb > 0
  <2> DEFINE up == ShiftedRight(X.bound, sb)
             down == Magnitude(ShiftedRight(-X.bound, sb))
  <2>1. realize(X, sb, prec).bound = Smaller(Larger(up, down), R)
    BY <1>3, <1>00 DEF realize, cvm_right_shift, Sym
  <2>2. ASSUME NEW a \in Int PROVE ShiftedRight(a, sb) \in Int
    <3>1. Pow2[sb - 1] \in Pos
      BY <1>3, Pow2Positive DEF Pos
    <3>2. a \div Pow2[sb - 1] \in Int
      BY <3>1, Division
    <3> QED BY <3>2 DEF ShiftedRight
  <2>3. up \in Int /\ down \in Nat
    <3>1. -X.bound \in Int
      OBVIOUS
    <3>2. ShiftedRight(-X.bound, sb) \in Int /\ up \in Int
      BY <2>2, <3>1
    <3> QED BY <3>2 DEF Magnitude
  <2> HIDE DEF up, down
  <2> QED BY <2>1, <2>3, <1>00 DEF Smaller, Larger
<1> QED BY <1>1, <1>2, <1>3

LEMMA RescaleHonest ==
  ASSUME NEW X, X.bound \in Nat, NEW f, f.frac \in Pos, f.exp \in Int, NEW prec \in Int
  PROVE  /\ Rescale(X, f, prec).bound \in Nat
         /\ Rescale(X, f, prec).bound <= get_range(prec)
<1> DEFINE Y == IF f.frac > 1 THEN ByMantissa(X, f.frac) ELSE X
<1>1. Y.bound \in Nat
  BY DEF ByMantissa, Sym, Pos
<1>2. Rescale(X, f, prec) = realize(Y, -f.exp, prec)
  BY DEF Rescale
<1> HIDE DEF Y
<1> QED BY <1>1, <1>2, RealizeHonest

-----------------------------------------------------------------------------
(* The scale that a caller asks for: any, or a positive one.               *)
Wanted == Positive \cup {AnyScale}

LEMMA AnyScaleIsNone == AnyScale \notin Positive
BY DEF AnyScale, Positive, Pos

Bounded(X) == X.bound \in Nat

(* Requantised by a mantissa, the scale stays positive and the operator is *)
(* clipped to the precision.                                               *)
LEMMA MantissaGood ==
  ASSUME NEW X, Bounded(X), NEW iscale \in Positive, NEW oscale \in Positive,
         NEW bits \in Int, NEW f, f = cvm_float(RatDiv(oscale, iscale), bits)
  PROVE  /\ RatMul(iscale, Shift(Int2Rat(f.frac), f.exp)) \in Positive
         /\ \A prec \in Pos : Honest(Rescale(X, f, prec), prec)
<1>1. RatDiv(oscale, iscale) \in Positive
  BY ProductsPositive
<1>2. f.frac \in Pos /\ f.exp \in Int
  BY <1>1, MantissaPositive
<1>3. Int2Rat(f.frac) \in Positive
  BY <1>2, IntegersPositive
<1>4. Shift(Int2Rat(f.frac), f.exp) \in Positive
  BY <1>2, <1>3, ShiftExact
<1>5. ASSUME NEW prec \in Pos PROVE Honest(Rescale(X, f, prec), prec)
  <2>1. prec \in Int
    BY DEF Pos
  <2>2. X.bound \in Nat
    BY DEF Bounded
  <2> QED BY <1>2, <2>1, <2>2, RescaleHonest DEF Honest
<1> QED BY <1>4, <1>5, ProductsPositive

(* Shifting surplus bits out leaves a positive scale.                      *)
LEMMA ShiftedOut ==
  ASSUME NEW sc \in Positive, NEW sb \in Int, sb > shift_bits
  PROVE  RatDiv(sc, Int2Rat(Pow2[sb])) \in Positive
<1>1. Pow2[sb] \in Pos
  BY Pow2Positive, PrecisionsAssumption DEF Pos
<1> QED BY <1>1, IntegersPositive, ProductsPositive

LEMMA GoodRequantized ==
  ASSUME NEW sym, NEW prec, NEW sc \in Positive, Honest(sym, prec)
  PROVE  GoodResult(Requantized(sym, prec, sc))
<1>1. /\ Requantized(sym, prec, sc).sym = sym
      /\ Requantized(sym, prec, sc).prec = prec
      /\ Requantized(sym, prec, sc).scale = sc
  BY DEF Requantized
<1> QED BY <1>1 DEF GoodResult

(* A narrower operator is honest about a wider precision.                  *)
LEMMA Wider ==
  ASSUME NEW X, NEW p \in Int, NEW q \in Pos, p <= q,
         Bounded(X), X.bound <= get_range(p)
  PROVE  Honest(X, q)
<1> DEFINE b == X.bound
<1>1. q \in Int
  BY DEF Pos
<1>2. get_range(p) <= get_range(q) /\ get_range(p) \in Nat /\ get_range(q) \in Nat
  BY <1>1, RangeOrdered, RangeIsNat
<1>3. b \in Nat /\ b <= get_range(p)
  BY DEF Bounded
<1>4. b <= get_range(q)
  <2> HIDE DEF b
  <2> QED BY <1>2, <1>3
<1> QED BY <1>3, <1>4 DEF Honest

LEMMA RequantOperatorGood ==
  ASSUME NEW x, GoodOperator(x), NEW default \in Nat, default >= 2, NEW wanted \in Wanted
  PROVE  GoodResult(requant_operator(x, default, wanted))
<1> DEFINE oscale == IF wanted # AnyScale THEN wanted ELSE scale(x.th, default)
           sb == get_bit(RatMul(x.th, x.scale)) - default
           early == sb > shift_bits
           iprec == IF early THEN x.prec - sb ELSE x.prec
           X == IF early THEN realize(x.sym, sb, iprec) ELSE x.sym
           iscale == IF early THEN RatDiv(x.scale, Int2Rat(Pow2[sb])) ELSE x.scale
           f == cvm_float(RatDiv(oscale, iscale), MAX_BIT - iprec)
           r == requant_operator(x, default, wanted)
<1>0. default \in Pos /\ default \in Int
  BY DEF Pos
<1>1. /\ x.th \in Fraction /\ x.scale \in Positive /\ x.scale \in Fraction
      /\ x.prec \in Pos /\ x.prec \in Int /\ x.sym.bound \in Nat
      /\ x.sym.bound <= get_range(x.prec) /\ Honest(x.sym, x.prec)
      /\ x.th[1] = 0 => x.prec = 1
  BY PositiveIsFraction DEF GoodOperator, Honest, Pos
<1>2. oscale \in Positive
  BY <1>1, ScalePositive DEF Wanted
<1>3. sb \in Int
  BY <1>1, FractionProducts, BitsHold DEF Pos
<1>4. iprec \in Int
  <2> HIDE DEF sb
  <2> QED BY <1>1, <1>3
<1>5. Bounded(X) /\ X.bound <= get_range(iprec)
  <2> HIDE DEF sb
  <2>1. x.prec - sb \in Int
    BY <1>1, <1>3
  <2> QED BY <1>1, <1>3, <2>1, RealizeHonest DEF Bounded
<1>6. iscale \in Positive
  <2> HIDE DEF sb
  <2> QED BY <1>1, <1>3, ShiftedOut
<1>7. MAX_BIT - iprec \in Int
  BY <1>4, MaxBitAssumption
<1>8. CASE x.th[1] = 0
  <2> DEFINE sc == IF wanted # AnyScale THEN wanted ELSE Int2Rat(1)
  <2>1. r = Requantized(x.sym, 1, sc)
    BY <1>8 DEF requant_operator
  <2>2. sc \in Positive
    <3>1. 1 \in Pos
      BY DEF Pos
    <3> QED BY <3>1, IntegersPositive DEF Wanted
  <2>3. Honest(x.sym, 1)
    BY <1>1, <1>8
  <2> HIDE DEF sc
  <2> QED BY <2>1, <2>2, <2>3, GoodRequantized
<1>9. CASE x.th[1] # 0 /\ (wanted # AnyScale \/ iprec > default)
  <2> DEFINE sc == RatMul(iscale, Shift(Int2Rat(f.frac), f.exp))
             Y == Rescale(X, f, default)
  <2>1. r = Requantized(Y, default, sc)
    BY <1>9 DEF requant_operator, On
  <2>2. f = cvm_float(RatDiv(oscale, iscale), MAX_BIT - iprec)
    OBVIOUS
  <2> HIDE DEF oscale, iprec, X, iscale, f
  <2>3. sc \in Positive /\ Honest(Y, default)
    BY <1>0, <1>2, <1>5, <1>6, <1>7, <2>2, MantissaGood
  <2> HIDE DEF sc, Y
  <2> QED BY <2>1, <2>3, GoodRequantized
<1>10. CASE x.th[1] # 0 /\ wanted = AnyScale /\ iprec <= default
  <2>1. r = Requantized(X, default, iscale)
    BY <1>4, <1>10 DEF requant_operator
  <2> HIDE DEF oscale, iprec, X, iscale
  <2>2. Honest(X, default)
    BY <1>0, <1>4, <1>5, <1>10, Wider
  <2> QED BY <1>6, <2>1, <2>2, GoodRequantized
<1> HIDE DEF iprec
<1> QED BY <1>4, <1>8, <1>9, <1>10

-----------------------------------------------------------------------------
(* Requantised parameters; what products and sums need.                    *)

GoodNode(x) == IF x.op = "param" THEN x.th \in Fraction ELSE GoodOperator(x)

(* Data realised with a precision: within its range, and never more than   *)
(* the scaled data rounded up.                                             *)
LEMMA RealizedData ==
  ASSUME NEW y \in Fraction, NEW prec \in Int
  PROVE  /\ int_realize(y, prec) \in Nat
         /\ int_realize(y, prec) <= get_range(prec)
         /\ int_realize(y, prec) <= get_range(get_bit(y))
<1>1. RoundHalfUp(y) \in Nat /\ RoundHalfUp(y) <= Ceil(y) /\ Ceil(y) \in Nat
  BY RoundedFits, CeilBounds
<1>2. Ceil(y) <= get_range(get_bit(y)) /\ get_bit(y) \in Int
  BY BitsHold DEF Pos
<1>3. get_range(prec) \in Nat /\ get_range(get_bit(y)) \in Nat
  BY <1>2, RangeIsNat
<1> DEFINE a == RoundHalfUp(y)
           b == get_range(prec)
           d == get_range(get_bit(y))
<1>4. int_realize(y, prec) = Smaller(a, b)
  BY DEF int_realize
<1> HIDE DEF a, b, d
<1>5. a \in Nat /\ b \in Nat /\ d \in Nat /\ a <= d
  BY <1>1, <1>2, <1>3 DEF a, b, d
<1> QED BY <1>4, <1>5 DEF Smaller, b, d

LEMMA SymBound ==
  ASSUME NEW b, NEW p, NEW sc PROVE Sym(b, p, sc).bound = b /\ Sym(b, p, sc).scale = sc
BY DEF Sym

LEMMA HonestSym ==
  ASSUME NEW b \in Nat, NEW p, NEW sc, NEW prec \in Pos, b <= get_range(prec)
  PROVE  Honest(Sym(b, p, sc), prec)
BY SymBound DEF Honest

LEMMA ZerosHonest ==
  /\ Zeros.bound = 0
  /\ \A prec \in Pos : Honest(Zeros, prec)
<1>1. Zeros.bound = 0
  BY SymBound DEF Zeros
<1>2. \A prec \in Pos : prec \in Int /\ get_range(prec) \in Nat
  BY RangeIsNat DEF Pos
<1> QED BY <1>1, <1>2 DEF Honest

LEMMA OneIsGood == 1 \in Pos /\ Int2Rat(1) \in Positive /\ Int2Rat(1) \in Fraction
<1>1. 1 \in Pos
  BY DEF Pos
<1> QED BY <1>1, IntegersPositive, PositiveIsFraction

(* A parameter, requantised: its data is clipped to the precision, and to  *)
(* what its threshold needs at the scale that is told.                     *)
LEMMA RequantParameterGood ==
  ASSUME NEW w, w.th \in Fraction, NEW default \in Pos, NEW wanted \in Wanted,
         default >= 2 \/ wanted \in Positive
  PROVE  LET r == requant_parameter(w, default, wanted)
         IN  GoodResult(r) /\ r.sym.bound <= get_range(get_bit(RatMul(w.th, r.scale)))
<1> DEFINE oscale == IF wanted # AnyScale THEN wanted ELSE scale(w.th, default)
           y == RatMul(w.th, oscale)
           absmax == int_realize(y, default)
           r == requant_parameter(w, default, wanted)
<1>1. default \in Int /\ default \in Nat
  BY DEF Pos
<1>2. oscale \in Positive
  <2>1. wanted \in Positive => wanted # AnyScale
    BY AnyScaleIsNone
  <2> QED BY <1>1, <2>1, ScalePositive DEF Wanted
<1>3. CASE w.th[1] = 0
  <2>1. r = Requantized(Zeros, 1, Int2Rat(1))
    BY <1>3 DEF requant_parameter
  <2>2. r.sym = Zeros /\ r.scale = Int2Rat(1)
    BY <2>1 DEF Requantized
  <2>3. RatMul(w.th, Int2Rat(1)) \in Fraction
    BY OneIsGood, FractionProducts
  <2>4. get_range(get_bit(RatMul(w.th, Int2Rat(1)))) \in Nat
    BY <2>3, BitsHold, RangeIsNat DEF Pos
  <2>5. GoodResult(r)
    BY <2>1, OneIsGood, ZerosHonest, GoodRequantized
  <2> QED BY <2>2, <2>4, <2>5, ZerosHonest
<1>4. CASE w.th[1] # 0
  <2>1. r = Requantized(Sym(absmax, absmax, oscale), default, oscale)
    BY <1>4 DEF requant_parameter
  <2> HIDE DEF oscale
  <2>2. y \in Fraction
    BY <1>2, PositiveIsFraction, FractionProducts
  <2>3. absmax \in Nat /\ absmax <= get_range(default) /\ absmax <= get_range(get_bit(y))
    <3> HIDE DEF y
    <3> QED BY <1>1, <2>2, RealizedData
  <2>4. r.sym = Sym(absmax, absmax, oscale) /\ r.scale = oscale
    BY <2>1 DEF Requantized
  <2>5. r.sym.bound = absmax
    BY <2>4, SymBound
  <2>6. GoodResult(r)
    <3> HIDE DEF absmax
    <3>1. Honest(Sym(absmax, absmax, oscale), default)
      BY <2>3, HonestSym
    <3> QED BY <1>2, <2>1, <3>1, GoodRequantized
  <2> HIDE DEF absmax
  <2> QED BY <2>3, <2>4, <2>5, <2>6
<1> QED BY <1>3, <1>4

(* requant, and the us_quantize of the second generation.                  *)
LEMMA RequantGood ==
  ASSUME NEW x, GoodNode(x), NEW default \in Nat, default >= 2, NEW wanted \in Wanted
  PROVE  GoodResult(requant(x, default, wanted))
<1>1. default \in Pos
  BY DEF Pos
<1>2. CASE x.op = "param"
  BY <1>1, <1>2, RequantParameterGood DEF requant, GoodNode
<1>3. CASE x.op # "param"
  BY <1>3, RequantOperatorGood DEF requant, GoodNode
<1> QED BY <1>2, <1>3

LEMMA UsParameterGood ==
  ASSUME NEW w, w.th \in Fraction, NEW default \in Nat, default >= 2, NEW wanted \in Wanted
  PROVE  LET r == us_parameter(w, default, wanted)
         IN  GoodResult(r) /\ r.sym.bound <= get_range(get_bit(RatMul(w.th, r.scale)))
<1> DEFINE oscale == IF wanted # AnyScale THEN wanted ELSE scale(w.th, default)
           y == RatMul(w.th, oscale)
           absmax == int_realize(y, default)
           bits == get_bit(Int2Rat(absmax))
           r == us_parameter(w, default, wanted)
<1>1. default \in Int
  OBVIOUS
<1>2. oscale \in Positive
  BY ScalePositive DEF Wanted
<1>3. CASE w.th[1] = 0
  <2> DEFINE sc == IF wanted # AnyScale THEN wanted ELSE Int2Rat(1)
  <2>1. r = Requantized(Zeros, 1, sc)
    BY <1>3 DEF us_parameter
  <2>2. sc \in Positive
    BY OneIsGood DEF Wanted
  <2> HIDE DEF sc
  <2>3. r.sym = Zeros /\ r.scale = sc
    BY <2>1 DEF Requantized
  <2>4. RatMul(w.th, sc) \in Fraction
    BY <2>2, PositiveIsFraction, FractionProducts
  <2>5. get_range(get_bit(RatMul(w.th, sc))) \in Nat
    BY <2>4, BitsHold, RangeIsNat DEF Pos
  <2>6. GoodResult(r)
    BY <2>1, <2>2, OneIsGood, ZerosHonest, GoodRequantized
  <2> QED BY <2>3, <2>5, <2>6, ZerosHonest
<1>4. CASE w.th[1] # 0
  <2>1. r = Requantized(Sym(absmax, absmax, oscale), bits, oscale)
    BY <1>4 DEF us_parameter
  <2> HIDE DEF oscale
  <2>2. y \in Fraction
    BY <1>2, PositiveIsFraction, FractionProducts
  <2>3. absmax \in Nat /\ absmax <= get_range(get_bit(y))
    <3> HIDE DEF y
    <3> QED BY <1>1, <2>2, RealizedData
  <2>4. bits \in Pos /\ absmax <= get_range(bits)
    <3> HIDE DEF absmax
    <3> QED BY <2>3, BitsHoldInteger
  <2>5. r.sym = Sym(absmax, absmax, oscale) /\ r.scale = oscale
    BY <2>1 DEF Requantized
  <2>6. r.sym.bound = absmax
    BY <2>5, SymBound
  <2>7. GoodResult(r)
    <3> HIDE DEF absmax, bits
    <3>1. Honest(Sym(absmax, absmax, oscale), bits)
      BY <2>3, <2>4, HonestSym
    <3> QED BY <1>2, <2>1, <3>1, GoodRequantized
  <2> HIDE DEF absmax
  <2> QED BY <2>3, <2>5, <2>6, <2>7
<1> QED BY <1>3, <1>4

LEMMA UsOperatorGood ==
  ASSUME NEW x, GoodOperator(x), NEW default \in Nat, default >= 2, NEW wanted \in Wanted
  PROVE  GoodResult(us_operator(x, default, wanted))
<1> DEFINE oscale == IF wanted # AnyScale THEN wanted ELSE scale(x.th, default)
           sb == x.prec - default
           early == sb > shift_bits
           iprec == IF early THEN default ELSE x.prec
           X == IF early THEN realize(x.sym, sb, iprec) ELSE x.sym
           iscale == IF early THEN RatDiv(x.scale, Int2Rat(Pow2[sb])) ELSE x.scale
           f == cvm_float(RatDiv(oscale, iscale), MAX_BIT - iprec)
           r == us_operator(x, default, wanted)
<1>0. default \in Pos /\ default \in Int
  BY DEF Pos
<1>1. /\ x.th \in Fraction /\ x.scale \in Positive /\ x.prec \in Pos /\ x.prec \in Int
      /\ x.sym.bound \in Nat
      /\ x.sym.bound <= get_range(x.prec) /\ Honest(x.sym, x.prec)
      /\ x.th[1] = 0 => x.prec = 1
  BY DEF GoodOperator, Honest, Pos
<1>2. oscale \in Positive
  BY <1>1, ScalePositive DEF Wanted
<1>3. sb \in Int
  BY <1>0, <1>1
<1>4. iprec \in Pos
  BY <1>0, <1>1
<1>5. Bounded(X) /\ X.bound <= get_range(iprec)
  <2> HIDE DEF sb
  <2> QED BY <1>0, <1>1, <1>3, RealizeHonest DEF Bounded
<1>6. iscale \in Positive
  <2> HIDE DEF sb
  <2> QED BY <1>1, <1>3, ShiftedOut
<1>7. MAX_BIT - iprec \in Int
  BY <1>4, MaxBitAssumption DEF Pos
<1>8. CASE x.th[1] = 0
  <2> DEFINE sc == IF wanted # AnyScale THEN wanted ELSE Int2Rat(1)
  <2>1. r = Requantized(x.sym, 1, sc)
    BY <1>8 DEF us_operator
  <2>2. sc \in Positive
    BY OneIsGood DEF Wanted
  <2>3. Honest(x.sym, 1)
    BY <1>1, <1>8
  <2> HIDE DEF sc
  <2> QED BY <2>1, <2>2, <2>3, GoodRequantized
<1>9. CASE x.th[1] # 0 /\ (wanted # AnyScale \/ iprec > default)
  <2> DEFINE sc == RatMul(iscale, Shift(Int2Rat(f.frac), f.exp))
             oprec == get_bit(RatMul(sc, x.th))
             Y == Rescale(X, f, oprec)
  <2>1. r = Requantized(Y, oprec, sc)
    BY <1>9 DEF us_operator, On
  <2>2. f = cvm_float(RatDiv(oscale, iscale), MAX_BIT - iprec)
    OBVIOUS
  <2> HIDE DEF oscale, iprec, X, iscale, f
  <2>3. sc \in Positive /\ \A prec \in Pos : Honest(Rescale(X, f, prec), prec)
    BY <1>2, <1>5, <1>6, <1>7, <2>2, MantissaGood
  <2> HIDE DEF sc
  <2>4. RatMul(sc, x.th) \in Fraction
    BY <1>1, <2>3, PositiveIsFraction, FractionProducts
  <2>5. oprec \in Pos
    BY <2>4, BitsHold
  <2> HIDE DEF oprec
  <2>6. Honest(Y, oprec)
    BY <2>3, <2>5
  <2> HIDE DEF Y
  <2> QED BY <2>1, <2>3, <2>6, GoodRequantized
<1>10. CASE x.th[1] # 0 /\ wanted = AnyScale /\ iprec <= default
  <2>1. r = Requantized(X, iprec, iscale)
    <3>1. ~(iprec > default)
      BY <1>0, <1>4, <1>10 DEF Pos
    <3> QED BY <3>1, <1>10 DEF us_operator
  <2> HIDE DEF oscale, iprec, X, iscale
  <2>2. Honest(X, iprec)
    BY <1>4, <1>5 DEF Honest, Bounded
  <2> QED BY <1>6, <2>1, <2>2, GoodRequantized
<1>11. iprec > default \/ iprec <= default
  <2> HIDE DEF iprec
  <2> QED BY <1>0, <1>4 DEF Pos
<1> HIDE DEF iprec
<1> QED BY <1>8, <1>9, <1>10, <1>11

LEMMA UsQuantizeGood ==
  ASSUME NEW x, GoodNode(x), NEW default \in Nat, default >= 2, NEW wanted \in Wanted
  PROVE  GoodResult(us_quantize(x, default, wanted))
<1>1. CASE x.op = "param"
  BY <1>1, UsParameterGood DEF us_quantize, GoodNode
<1>2. CASE x.op # "param"
  BY <1>2, UsOperatorGood DEF us_quantize, GoodNode
<1> QED BY <1>1, <1>2

-----------------------------------------------------------------------------
(* Sums and products.                                                      *)
LEMMA HonestBound ==
  ASSUME NEW X, NEW p, Honest(X, p)
  PROVE  /\ X.bound \in Nat /\ p \in Pos /\ p \in Nat /\ p - 1 \in Nat
         /\ X.bound <= Pow2[p - 1] - 1
         /\ Pow2[p - 1] \in Nat /\ Pow2[p - 1] # 0
<1>1. X.bound \in Nat /\ p \in Pos /\ X.bound <= get_range(p)
  BY DEF Honest
<1>2. p \in Nat /\ p - 1 \in Nat /\ p >= 1
  BY <1>1 DEF Pos
<1> QED BY <1>1, <1>2, RangeIsNat, Pow2Positive

LEMMA RangeFromPow2 ==
  ASSUME NEW p \in Pos, NEW b \in Nat, b <= Pow2[p - 1] - 1
  PROVE  b <= get_range(p)
BY RangeIsNat DEF Pos

LEMMA ProductHonest ==
  ASSUME NEW X, NEW p, Honest(X, p), NEW Y, NEW q, Honest(Y, q)
  PROVE  Honest(Times(X, Y), p + q)
<1> DEFINE a == X.bound
           b == Y.bound
           u == Pow2[p - 1]
           v == Pow2[q - 1]
<1>1. /\ a \in Nat /\ a <= u - 1 /\ u \in Nat /\ u # 0 /\ p \in Nat /\ p - 1 \in Nat
      /\ b \in Nat /\ b <= v - 1 /\ v \in Nat /\ v # 0 /\ q \in Nat /\ q - 1 \in Nat
  BY HonestBound
<1>2. Times(X, Y).bound = a * b
  BY SymBound DEF Times
<1>3. p + q \in Pos
  BY <1>1 DEF Pos
<1>4. a * b <= u * v - 1 /\ a * b \in Nat /\ u * v \in Nat
  <2> HIDE DEF a, b, u, v
  <2>1. a * b <= (u - 1) * b
    BY <1>1
  <2>2. (u - 1) * b <= (u - 1) * (v - 1)
    BY <1>1
  <2>3. (u - 1) * (v - 1) = u * v - u - v + 1
    BY <1>1
  <2>4. a * b \in Nat /\ u * v \in Nat /\ (u - 1) * b \in Nat /\ (u - 1) * (v - 1) \in Nat
    BY <1>1
  <2> QED BY <2>1, <2>2, <2>3, <2>4, <1>1
<1>5. u * v <= Pow2[(p + q) - 1]
  <2>1. Pow2[(p - 1) + (q - 1)] = u * v
    BY <1>1, Pow2Sum
  <2>2. (p - 1) + (q - 1) \in Nat /\ (p + q) - 1 \in Nat /\ (p - 1) + (q - 1) <= (p + q) - 1
    BY <1>1
  <2>3. Pow2[(p - 1) + (q - 1)] <= Pow2[(p + q) - 1]
    BY <2>2, Pow2Ordered
  <2> QED BY <2>1, <2>3
<1>6. Pow2[(p + q) - 1] \in Nat
  <2>1. (p + q) - 1 \in Nat
    BY <1>1
  <2> QED BY <2>1, Pow2Next
<1>7. a * b <= get_range(p + q)
  <2> DEFINE w == Pow2[(p + q) - 1]
  <2>1. a * b <= w - 1
    <3> HIDE DEF a, b, u, v, w
    <3> QED BY <1>4, <1>5, <1>6 DEF w
  <2> HIDE DEF a, b
  <2> QED BY <1>3, <1>4, <2>1, RangeFromPow2
<1> QED BY <1>2, <1>3, <1>4, <1>7 DEF Honest

LEMMA SumHonest ==
  ASSUME NEW X, NEW p, Honest(X, p), NEW k \in Nat \ {0}
  PROVE  Honest(SumOf(X, k), get_bit_cnt[k] + p)
<1> DEFINE a == X.bound
           u == Pow2[p - 1]
           c == get_bit_cnt[k]
           v == Pow2[c]
<1>1. a \in Nat /\ a <= u - 1 /\ u \in Nat /\ u # 0 /\ p \in Nat /\ p - 1 \in Nat
  BY HonestBound
<1>2. c \in Nat /\ k < v /\ v \in Nat
  <2>1. c \in Nat /\ k < v
    BY BitCountBounds
  <2> QED BY <2>1, Pow2Next
<1>3. SumOf(X, k).bound = a * k
  BY SymBound DEF SumOf
<1>4. c + p \in Pos /\ (c + p) - 1 = c + (p - 1)
  <2> HIDE DEF c
  <2> QED BY <1>1, <1>2, HonestBound DEF Pos
<1>5. a * k <= v * u - 1 /\ a * k \in Nat
  <2> HIDE DEF a, u, v, c
  <2>1. a * k <= (u - 1) * k
    BY <1>1
  <2>2. (u - 1) * k = u * k - k
    BY <1>1
  <2>3. u * k <= v * u
    BY <1>1, <1>2
  <2>4. a * k \in Nat /\ u * k \in Nat /\ v * u \in Nat
    BY <1>1, <1>2
  <2> QED BY <2>1, <2>2, <2>3, <2>4
<1>6. Pow2[(c + p) - 1] = v * u
  <2>1. Pow2[c + (p - 1)] = v * u
    BY <1>1, <1>2, Pow2Sum
  <2> QED BY <1>4, <2>1
<1>7. a * k <= get_range(c + p)
  <2>1. a * k <= Pow2[(c + p) - 1] - 1
    BY <1>5, <1>6
  <2> HIDE DEF a, c
  <2> QED BY <1>4, <1>5, <2>1, RangeFromPow2
<1> QED BY <1>3, <1>4, <1>5, <1>7 DEF Honest

LEMMA PlusHonest ==
  ASSUME NEW X, NEW p, Honest(X, p), NEW Y, NEW q, Honest(Y, q),
         NEW m \in Nat, p <= m, q <= m
  PROVE  Honest(Plus(X, Y), m + 1)
<1> DEFINE a == X.bound
           b == Y.bound
           w == Pow2[m - 1]
<1>1. /\ a \in Nat /\ p \in Pos /\ p - 1 \in Nat /\ a <= Pow2[p - 1] - 1 /\ Pow2[p - 1] \in Nat
      /\ b \in Nat /\ q \in Pos /\ q - 1 \in Nat /\ b <= Pow2[q - 1] - 1 /\ Pow2[q - 1] \in Nat
  BY HonestBound
<1>2. m - 1 \in Nat /\ p - 1 <= m - 1 /\ q - 1 <= m - 1
  BY <1>1 DEF Pos
<1>3. Pow2[p - 1] <= w /\ Pow2[q - 1] <= w /\ w \in Nat
  BY <1>1, <1>2, Pow2Ordered, Pow2Next
<1>4. Plus(X, Y).bound = a + b
  BY SymBound DEF Plus
<1>5. Pow2[(m + 1) - 1] = 2 * w
  <2>1. Pow2[(m - 1) + 1] = 2 * w
    BY <1>2, Pow2Next
  <2>2. (m - 1) + 1 = (m + 1) - 1
    OBVIOUS
  <2> QED BY <2>1, <2>2
<1>6. a + b <= Pow2[(m + 1) - 1] - 1 /\ a + b \in Nat /\ m + 1 \in Pos
  BY <1>1, <1>3, <1>5 DEF Pos
<1>7. a + b <= get_range(m + 1)
  <2> HIDE DEF a, b
  <2> QED BY <1>6, RangeFromPow2
<1> QED BY <1>4, <1>6, <1>7 DEF Honest

(* What a quantize method returns.                                         *)
GoodQuantized(q) ==
  /\ q = Quantized(q.th, q.prec, q.scale, q.sym, q.seen)
  /\ q.th \in Fraction /\ q.scale \in Positive /\ Honest(q.sym, q.prec)

LEMMA QuantizedGood ==
  ASSUME NEW th \in Fraction, NEW prec, NEW sc \in Positive, NEW sym, NEW ins,
         Honest(sym, prec)
  PROVE  GoodQuantized(Quantized(th, prec, sc, sym, ins))
<1> DEFINE q == Quantized(th, prec, sc, sym, ins)
<1>1. q.th = th /\ q.prec = prec /\ q.scale = sc /\ q.sym = sym /\ q.seen = ins
  BY DEF Quantized
<1> HIDE DEF q
<1>2. q = Quantized(q.th, q.prec, q.scale, q.sym, q.seen)
  BY <1>1 DEF q
<1>3. GoodQuantized(q)
  BY <1>1, <1>2 DEF GoodQuantized
<1> QED BY <1>3 DEF q

LEMMA ResultParts ==
  ASSUME NEW r, GoodResult(r)
  PROVE  /\ r.scale \in Positive /\ Honest(r.sym, r.prec)
         /\ r.prec \in Pos /\ r.prec \in Nat
BY DEF GoodResult, Honest, Pos

LEMMA OperatorIsNode ==
  ASSUME NEW x, GoodNode(x), x.op # "param"
  PROVE  /\ GoodOperator(x) /\ x.scale \in Positive /\ x.th \in Fraction
         /\ Honest(x.sym, x.prec)
BY DEF GoodNode, GoodOperator

LEMMA AnyIsWanted == AnyScale \in Wanted /\ Positive \subseteq Wanted
BY DEF Wanted

LEMMA ScalesPositive ==
  ASSUME NEW th \in Fraction, NEW p \in {InputPrec, NarrowPrec, WidePrec, OutputPrec, TablePrec}
  PROVE  /\ p \in Nat /\ p >= 2 /\ p \in Pos
         /\ scale(th, p) \in Positive /\ scale(th, p) \in Wanted
<1>1. p \in Nat /\ p >= 2 /\ p \in Pos
  BY PrecisionsAssumption DEF Pos
<1> QED BY <1>1, ScalePositive, AnyIsWanted

-----------------------------------------------------------------------------
(* Each operator of the first generation.                                  *)
LEMMA XwbGood ==
  ASSUME NEW x, GoodOperator(x), NEW w, w.th \in Fraction,
         NEW b, b = <<>> \/ b[1].th \in Fraction,
         NEW k \in Nat \ {0}, NEW th \in Fraction
  PROVE  GoodQuantized(quantize_xwb(x, w, b, k, th))
<1> DEFINE X == requant_operator(x, NarrowPrec, AnyScale)
           W == requant_parameter(w, NarrowPrec, AnyScale)
           sc == RatMul(X.scale, W.scale)
           bias_prec == get_bit(RatMul(b[1].th, sc))
           B == requant_parameter(b[1], bias_prec, sc)
           infer == get_bit_cnt[k] + X.prec + W.prec
           dot == SumOf(Times(X.sym, W.sym), k)
           wide == Larger(infer, B.prec)
<1>1. GoodResult(X) /\ GoodResult(W)
  <2>1. NarrowPrec \in Nat /\ NarrowPrec >= 2 /\ NarrowPrec \in Pos
    BY ScalesPositive, OneIsGood
  <2> QED BY <2>1, AnyIsWanted, RequantOperatorGood, RequantParameterGood
<1>2. quantize_xwb(x, w, b, k, th) =
        IF b = <<>> THEN Quantized(th, infer, sc, dot, <<X, W>>)
        ELSE Quantized(th, wide + 1, sc, Plus(dot, B.sym), <<X, W, B>>)
  BY DEF quantize_xwb, On
<1> HIDE DEF X, W
<1>3. /\ X.scale \in Positive /\ Honest(X.sym, X.prec) /\ X.prec \in Nat
      /\ W.scale \in Positive /\ Honest(W.sym, W.prec) /\ W.prec \in Nat
  BY <1>1, ResultParts
<1>4. sc \in Positive
  BY <1>3, ProductsPositive
<1>5. Honest(dot, infer) /\ infer \in Nat
  <2>1. Honest(Times(X.sym, W.sym), X.prec + W.prec)
    BY <1>3, ProductHonest
  <2>2. Honest(dot, get_bit_cnt[k] + (X.prec + W.prec))
    BY <2>1, SumHonest
  <2>3. get_bit_cnt[k] \in Nat
    BY BitCountBounds
  <2>4. get_bit_cnt[k] + (X.prec + W.prec) = infer /\ infer \in Nat
    BY <1>3, <2>3
  <2> HIDE DEF dot, infer
  <2> QED BY <2>2, <2>4
<1> HIDE DEF sc, infer, dot
<1>6. CASE b = <<>>
  BY <1>2, <1>4, <1>5, <1>6, QuantizedGood
<1>7. CASE b # <<>>
  <2>1. b[1].th \in Fraction
    BY <1>7
  <2>2. RatMul(b[1].th, sc) \in Fraction
    BY <2>1, <1>4, PositiveIsFraction, FractionProducts
  <2>3. bias_prec \in Pos
    BY <2>2, BitsHold
  <2> HIDE DEF bias_prec
  <2>4. GoodResult(B)
    BY <2>1, <2>3, <1>4, AnyIsWanted, RequantParameterGood
  <2> HIDE DEF B
  <2>5. Honest(B.sym, B.prec) /\ B.prec \in Nat
    BY <2>4, ResultParts
  <2>6. wide \in Nat /\ infer <= wide /\ B.prec <= wide
    BY <2>5, <1>5 DEF Larger
  <2> HIDE DEF wide
  <2>7. Honest(Plus(dot, B.sym), wide + 1)
    BY <1>5, <2>5, <2>6, PlusHonest
  <2> QED BY <1>2, <1>4, <1>7, <2>7, QuantizedGood
<1> QED BY <1>6, <1>7

LEMMA LargerThreshold ==
  ASSUME NEW s \in Fraction, NEW t \in Fraction
  PROVE  RatMax(s, t) \in Fraction
BY DEF RatMax

LEMMA ScaleGood ==
  ASSUME NEW kind, NEW cs, GoodNode(cs[1]), GoodNode(cs[2]), NEW th \in Fraction,
         cs[1].th \in Fraction, cs[2].th \in Fraction
  PROVE  GoodQuantized(quantize_scale(kind, cs, th))
<1> DEFINE in_th == RatMax(cs[1].th, cs[2].th)
           oscale == scale(in_th, WidePrec)
           q == [i \in 1 .. 2 |-> requant(cs[i], WidePrec, oscale)]
           widest == Larger(q[1].prec, q[2].prec)
           sum == Plus(q[1].sym, q[2].sym)
           joined == Sym(Larger(q[1].sym.bound, q[2].sym.bound),
                         Larger(q[1].sym.peak, q[2].sym.peak), sum.scale)
<1>1. quantize_scale(kind, cs, th) =
        IF kind = "Concat" THEN Quantized(th, widest, oscale, joined, q)
        ELSE Quantized(th, widest + 1, oscale, sum, q)
  BY DEF quantize_scale, On
<1>2. oscale \in Positive /\ oscale \in Wanted /\ WidePrec \in Nat /\ WidePrec >= 2
  BY LargerThreshold, ScalesPositive
<1> HIDE DEF oscale
<1>3. q[1] = requant(cs[1], WidePrec, oscale) /\ q[2] = requant(cs[2], WidePrec, oscale)
  OBVIOUS
<1> HIDE DEF q
<1>4. GoodResult(q[1]) /\ GoodResult(q[2])
  BY <1>2, <1>3, RequantGood
<1>5. /\ Honest(q[1].sym, q[1].prec) /\ q[1].prec \in Nat /\ q[1].prec \in Pos
      /\ Honest(q[2].sym, q[2].prec) /\ q[2].prec \in Nat /\ q[2].prec \in Pos
  BY <1>4, ResultParts
<1>6. widest \in Nat /\ widest \in Pos /\ q[1].prec <= widest /\ q[2].prec <= widest
  BY <1>5 DEF Larger
<1> HIDE DEF widest
<1>7. Honest(sum, widest + 1)
  BY <1>5, <1>6, PlusHonest
<1>8. Honest(joined, widest)
  <2> DEFINE a == q[1].sym.bound
             b == q[2].sym.bound
             c == Larger(a, b)
  <2>1. Honest(q[1].sym, widest) /\ Honest(q[2].sym, widest)
    <3>1. /\ q[1].prec \in Int /\ Bounded(q[1].sym) /\ a <= get_range(q[1].prec)
          /\ q[2].prec \in Int /\ Bounded(q[2].sym) /\ b <= get_range(q[2].prec)
      BY <1>5 DEF Honest, Bounded
    <3> QED BY <3>1, <1>6, Wider
  <2>2. a \in Nat /\ b \in Nat /\ a <= get_range(widest) /\ b <= get_range(widest)
    BY <2>1 DEF Honest
  <2>3. c \in Nat /\ c <= get_range(widest)
    <3> HIDE DEF a, b
    <3> QED BY <2>2 DEF Larger
  <2> HIDE DEF c
  <2>4. \A p, s : Honest(Sym(c, p, s), widest)
    BY <2>3, <1>6, HonestSym
  <2> QED BY <2>4 DEF c
<1> HIDE DEF sum, joined
<1> QED BY <1>1, <1>2, <1>7, <1>8, QuantizedGood

LEMMA RangeHonest ==
  ASSUME NEW prec \in Pos, NEW p, NEW sc
  PROVE  Honest(Sym(get_range(prec), p, sc), prec)
<1>1. get_range(prec) \in Nat
  BY RangeIsNat DEF Pos
<1> QED BY <1>1, HonestSym

LEMMA ZeroAddGood ==
  ASSUME NEW cs, GoodNode(cs[1]), GoodNode(cs[2]),
         cs[1].th \in Fraction, cs[2].th \in Fraction, NEW th
  PROVE  GoodQuantized(quantize_zero_add(cs, th))
<1> DEFINE c == IF cs[1].th[1] = 0 THEN cs[2] ELSE cs[1]
           bit == IF c.op = "param" THEN get_bit(c.th) ELSE c.prec
           sc == IF c.op = "param" THEN Int2Rat(1) ELSE c.scale
           sym == IF c.op = "param" THEN Sym(get_range(bit), get_range(bit), sc) ELSE c.sym
<1>1. quantize_zero_add(cs, th) =
        IF cs[1].th[1] = 0 /\ cs[2].th[1] = 0
        THEN Quantized(<<0, 1>>, 1, Int2Rat(1), Zeros, <<>>)
        ELSE Quantized(Int2Rat(get_range(bit)), bit, sc, sym, <<>>)
  BY DEF quantize_zero_add
<1>2. GoodNode(c) /\ c.th \in Fraction
  OBVIOUS
<1> HIDE DEF c
<1>3. bit \in Pos /\ sc \in Positive /\ Honest(sym, bit)
  <2>1. CASE c.op = "param"
    <3>1. get_bit(c.th) \in Pos
      BY <1>2, BitsHold
    <3> QED BY <2>1, <3>1, OneIsGood, RangeHonest
  <2>2. CASE c.op # "param"
    <3>1. c.scale \in Positive /\ Honest(c.sym, c.prec)
      BY <2>2, <1>2, OperatorIsNode
    <3>2. c.prec \in Pos
      BY <3>1 DEF Honest
    <3> QED BY <2>2, <3>1, <3>2
  <2> QED BY <2>1, <2>2
<1> HIDE DEF bit, sc, sym
<1>4. Int2Rat(get_range(bit)) \in Fraction
  <2>1. get_range(bit) \in Nat
    BY <1>3, RangeIsNat DEF Pos
  <2> QED BY <2>1, OneIsGood DEF Int2Rat, Fraction
<1>5. <<0, 1>> \in Fraction
  BY OneIsGood DEF Fraction
<1>6. GoodQuantized(Quantized(<<0, 1>>, 1, Int2Rat(1), Zeros, <<>>))
  BY <1>5, OneIsGood, ZerosHonest, QuantizedGood
<1>7. GoodQuantized(Quantized(Int2Rat(get_range(bit)), bit, sc, sym, <<>>))
  BY <1>3, <1>4, QuantizedGood
<1> QED BY <1>1, <1>6, <1>7

(* A factor that is told with one bit at scale one is zero.                *)
LEMMA ZeroFactor ==
  ASSUME NEW X, NEW p, Honest(X, p), NEW Y, Honest(Y, 1)
  PROVE  Honest(Times(X, Y), 1)
<1> DEFINE a == X.bound
           b == Y.bound
<1>1. a \in Nat /\ b \in Nat /\ b <= get_range(1)
  BY DEF Honest
<1>2. get_range(1) = 0
  BY RangeIsNat
<1>3. a * b = 0
  <2> HIDE DEF a, b
  <2> QED BY <1>1, <1>2
<1>4. Times(X, Y).bound = a * b
  BY SymBound DEF Times
<1> HIDE DEF a, b
<1>5. Times(X, Y).bound = 0
  BY <1>3, <1>4
<1> QED BY <1>2, <1>5, OneIsGood DEF Honest

LEMMA ProductGood ==
  ASSUME NEW A, NEW B, GoodResult(A), GoodResult(B), NEW th \in Fraction, NEW ins,
         NEW zero, zero => B.prec = 1
  PROVE  /\ zero => GoodQuantized(Quantized(th, 1, Int2Rat(1), Times(A.sym, B.sym), ins))
         /\ GoodQuantized(Quantized(th, A.prec + B.prec, RatMul(A.scale, B.scale),
                                    Times(A.sym, B.sym), ins))
<1>1. /\ A.scale \in Positive /\ Honest(A.sym, A.prec)
      /\ B.scale \in Positive /\ Honest(B.sym, B.prec)
  BY ResultParts
<1>2. Honest(Times(A.sym, B.sym), A.prec + B.prec)
  BY <1>1, ProductHonest
<1>3. RatMul(A.scale, B.scale) \in Positive
  BY <1>1, ProductsPositive
<1>4. zero => Honest(Times(A.sym, B.sym), 1)
  BY <1>1, ZeroFactor
<1> QED BY <1>2, <1>3, <1>4, OneIsGood, QuantizedGood

LEMMA MulGood ==
  ASSUME NEW cs, GoodNode(cs[1]), GoodNode(cs[2]), NEW th \in Fraction
  PROVE  GoodQuantized(quantize_mul(cs, th))
<1> DEFINE A == requant(cs[1], WidePrec, AnyScale)
           B == requant(cs[2], WidePrec, AnyScale)
           zero == B.prec = 1 /\ B.scale = Int2Rat(1)
<1>1. quantize_mul(cs, th) =
        IF zero THEN Quantized(th, 1, Int2Rat(1), Times(A.sym, B.sym), <<A, B>>)
        ELSE Quantized(th, A.prec + B.prec, RatMul(A.scale, B.scale),
                       Times(A.sym, B.sym), <<A, B>>)
  BY DEF quantize_mul, On
<1>2. GoodResult(A) /\ GoodResult(B)
  BY ScalesPositive, AnyIsWanted, RequantGood, OneIsGood
<1>3. zero => B.prec = 1
  OBVIOUS
<1> HIDE DEF A, B, zero
<1> QED BY <1>1, <1>2, <1>3, ProductGood

LEMMA SumGood ==
  ASSUME NEW x, GoodOperator(x), NEW k \in Nat \ {0}, NEW th \in Fraction
  PROVE  GoodQuantized(quantize_sum(x, k, th))
<1> DEFINE X == requant_operator(x, NarrowPrec, AnyScale)
<1>1. quantize_sum(x, k, th) =
        Quantized(th, get_bit_cnt[k] + X.prec, X.scale, SumOf(X.sym, k), <<X>>)
  BY DEF quantize_sum
<1>2. GoodResult(X)
  BY ScalesPositive, AnyIsWanted, RequantOperatorGood, OneIsGood
<1> HIDE DEF X
<1>3. Honest(SumOf(X.sym, k), get_bit_cnt[k] + X.prec) /\ X.scale \in Positive
  BY <1>2, ResultParts, SumHonest
<1> QED BY <1>1, <1>3, QuantizedGood

LEMMA ClippedHonest ==
  ASSUME NEW x, Honest(x.sym, x.prec), NEW limit \in Fraction, x.scale \in Positive
  PROVE  LET a_max == Floor(RatMul(limit, x.scale))
         IN  Honest(Sym(Smaller(x.sym.bound, a_max), x.sym.peak, x.sym.scale),
                    get_bit(Int2Rat(a_max)))
<1> DEFINE a_max == Floor(RatMul(limit, x.scale))
           a == x.sym.bound
           bits == get_bit(Int2Rat(a_max))
<1>1. RatMul(limit, x.scale) \in Fraction
  BY PositiveIsFraction, FractionProducts
<1>2. a_max \in Nat
  <2> DEFINE y == RatMul(limit, x.scale)
  <2> HIDE DEF y
  <2>1. y \in Nat \X Pos
    BY <1>1 DEF y, Fraction
  <2>2. y[1] \in Nat /\ y[2] \in Pos
    BY <2>1
  <2>3. y[1] \div y[2] \in Nat
    BY <2>2, DivisionOfNat
  <2> QED BY <2>3 DEF Floor, y
<1> HIDE DEF a_max
<1>3. bits \in Pos /\ a_max <= get_range(bits)
  BY <1>2, BitsHoldInteger
<1>4. a \in Nat
  BY DEF Honest
<1>5. get_range(bits) \in Nat
  BY <1>3, RangeIsNat DEF Pos
<1> HIDE DEF a, bits
<1>6. Smaller(a, a_max) \in Nat /\ Smaller(a, a_max) <= get_range(bits)
  BY <1>2, <1>3, <1>4, <1>5 DEF Smaller
<1>7. \A p, s : Honest(Sym(Smaller(a, a_max), p, s), bits)
  BY <1>3, <1>6, HonestSym
<1> QED BY <1>7 DEF a, bits, a_max

LEMMA ClipGood ==
  ASSUME NEW x, GoodOperator(x), NEW limit \in Fraction, NEW th \in Fraction
  PROVE  /\ GoodQuantized(quantize_clip(x, limit, th))
         /\ GoodQuantized(scale_clip(x, limit, th))
<1> DEFINE a_max == Floor(RatMul(limit, x.scale))
           sym == Sym(Smaller(x.sym.bound, a_max), x.sym.peak, x.sym.scale)
           bits == get_bit(Int2Rat(a_max))
<1>1. /\ quantize_clip(x, limit, th) = Quantized(th, bits, x.scale, sym, <<>>)
      /\ scale_clip(x, limit, th) = Quantized(th, bits, x.scale, sym, <<>>)
  BY DEF quantize_clip, scale_clip
<1>2. x.scale \in Positive /\ Honest(x.sym, x.prec)
  BY DEF GoodOperator
<1>3. Honest(sym, bits)
  BY <1>2, ClippedHonest
<1> HIDE DEF sym, bits
<1> QED BY <1>1, <1>2, <1>3, QuantizedGood

LEMMA TableGood ==
  ASSUME NEW x, NEW th \in Fraction
  PROVE  GoodQuantized(quantize_table(x, th)) /\ GoodQuantized(scale_table(x, th))
<1> DEFINE sc == scale(Int2Rat(1), TablePrec)
<1>1. PICK p, ins : quantize_table(x, th) =
                 Quantized(th, TablePrec, sc, Sym(get_range(TablePrec), p, sc), ins)
  BY DEF quantize_table
<1>2. PICK r, more : scale_table(x, th) =
                 Quantized(th, TablePrec, sc, Sym(get_range(TablePrec), r, sc), more)
  BY DEF scale_table
<1>3. sc \in Positive /\ TablePrec \in Pos
  BY ScalesPositive, OneIsGood
<1> HIDE DEF sc
<1>4. \A b : Honest(Sym(get_range(TablePrec), b, sc), TablePrec)
  BY <1>3, RangeHonest
<1> QED BY <1>1, <1>2, <1>3, <1>4, QuantizedGood

LEMMA SoftmaxGood ==
  ASSUME NEW x, NEW k, NEW th \in Fraction
  PROVE  GoodQuantized(quantize_softmax(x, k, th)) /\ GoodQuantized(scale_softmax(x, k, th))
<1> DEFINE oprec == Smaller(SoftmaxPrec, MAX_BIT - 1 - ExpPrec)
           oscale == Int2Rat(get_range(oprec))
<1>1. PICK p, ins : quantize_softmax(x, k, th) =
                 Quantized(th, oprec, oscale, Sym(get_range(oprec), p, oscale), ins)
  BY DEF quantize_softmax
<1>2. PICK r, more : scale_softmax(x, k, th) =
                 Quantized(th, oprec, oscale, Sym(get_range(oprec), r, oscale), more)
  <2>1. \A b, v, sc : Sym(b, v, sc).bound = b /\ Sym(b, v, sc).scale = sc
    BY SymBound
  <2> QED BY <2>1 DEF scale_softmax
<1>3. oprec \in Nat /\ oprec >= 2
  BY PrecisionsAssumption, MaxBitAssumption DEF Smaller
<1> HIDE DEF oprec
<1>4. oprec \in Pos /\ get_range(oprec) \in Pos
  BY <1>3, RangeIsNat DEF Pos
<1>5. oscale \in Positive
  BY <1>4, IntegersPositive
<1> HIDE DEF oscale
<1>6. \A b : Honest(Sym(get_range(oprec), b, oscale), oprec)
  BY <1>4, RangeHonest
<1> QED BY <1>1, <1>2, <1>5, <1>6, QuantizedGood

LEMMA EmbeddingGood ==
  ASSUME NEW x, NEW w, w.th \in Fraction, w.op = "param"
  PROVE  GoodQuantized(quantize_embedding(x, w)) /\ GoodQuantized(scale_embedding(x, w))
<1> DEFINE W == requant_parameter(w, WidePrec, AnyScale)
           U == us_quantize(w, WidePrec, AnyScale)
<1>1. PICK p, ins : quantize_embedding(x, w) =
        Quantized(w.th, get_bit(RatMul(w.th, W.scale)), W.scale,
                  Sym(W.sym.bound, p, W.sym.scale), ins)
  BY DEF quantize_embedding
<1>2. PICK r, more : scale_embedding(x, w) =
        Quantized(w.th, get_bit(RatMul(w.th, U.scale)), U.scale,
                  Sym(U.sym.bound, r, U.sym.scale), more)
  BY DEF scale_embedding
<1>3. U = us_parameter(w, WidePrec, AnyScale)
  BY DEF us_quantize
<1>4. /\ GoodResult(W) /\ W.sym.bound <= get_range(get_bit(RatMul(w.th, W.scale)))
      /\ GoodResult(U) /\ U.sym.bound <= get_range(get_bit(RatMul(w.th, U.scale)))
  <2>1. WidePrec \in Nat /\ WidePrec >= 2 /\ WidePrec \in Pos
    BY ScalesPositive, OneIsGood
  <2> HIDE DEF U
  <2> QED BY <1>3, <2>1, AnyIsWanted, RequantParameterGood, UsParameterGood
<1>5. ASSUME NEW V, GoodResult(V), V.sym.bound <= get_range(get_bit(RatMul(w.th, V.scale))),
             NEW s, NEW i
      PROVE  GoodQuantized(Quantized(w.th, get_bit(RatMul(w.th, V.scale)), V.scale,
                                     Sym(V.sym.bound, s, V.sym.scale), i))
  <2> DEFINE bits == get_bit(RatMul(w.th, V.scale))
             b == V.sym.bound
  <2>1. V.scale \in Positive /\ b \in Nat
    BY <1>5 DEF GoodResult, Honest
  <2>2. RatMul(w.th, V.scale) \in Fraction
    BY <2>1, PositiveIsFraction, FractionProducts
  <2>3. bits \in Pos /\ b <= get_range(bits)
    BY <1>5, <2>2, BitsHold
  <2> HIDE DEF bits, b
  <2>4. Honest(Sym(b, s, V.sym.scale), bits)
    BY <2>1, <2>3, HonestSym
  <2>5. GoodQuantized(Quantized(w.th, bits, V.scale, Sym(b, s, V.sym.scale), i))
    BY <2>1, <2>4, QuantizedGood
  <2> QED BY <2>5 DEF bits, b
<1> HIDE DEF W, U
<1>6. GoodQuantized(quantize_embedding(x, w))
  BY <1>1, <1>4, <1>5
<1>7. GoodQuantized(scale_embedding(x, w))
  BY <1>2, <1>4, <1>5
<1> QED BY <1>6, <1>7

LEMMA DefaultGood ==
  ASSUME NEW x, GoodOperator(x), NEW th \in Fraction
  PROVE  GoodQuantized(quantize_default(x, th)) /\ GoodQuantized(scale_default(x, th))
BY QuantizedGood DEF quantize_default, scale_default, GoodOperator

-----------------------------------------------------------------------------
(* Each operator of the second generation.                                 *)
IsPair(s) == DOMAIN s = 1 .. 2 /\ Len(s) = 2

LEMMA AddedPair ==
  ASSUME NEW q, IsPair(q)
  PROVE  Added(q) = Plus(q[1].sym, q[2].sym)
<1> DEFINE Step(s) == [i \in DOMAIN q |-> IF i = 1 THEN q[1].sym ELSE Plus(s[i - 1], q[i].sym)]
           f == [i \in 1 .. 2 |-> IF i = 1 THEN q[1].sym ELSE Plus(q[1].sym, q[2].sym)]
           sum == CHOOSE s : s = Step(s)
<1>1. f = Step(f)
  <2>1. \A i \in 1 .. 2 : i = 1 \/ i = 2
    OBVIOUS
  <2> QED BY <2>1 DEF IsPair
<1>2. sum = Step(sum)
  <2> HIDE DEF Step, f
  <2> QED BY <1>1
<1>3. Added(q) = sum[2]
  BY DEF Added, IsPair
<1> HIDE DEF sum
<1>4. sum[1] = q[1].sym
  BY <1>2 DEF IsPair
<1>5. sum[2] = Plus(sum[1], q[2].sym)
  BY <1>2 DEF IsPair
<1> QED BY <1>3, <1>4, <1>5

LEMMA HighestOfPair ==
  ASSUME NEW cs, IsPair(cs), cs[1].th \in Fraction, cs[2].th \in Fraction
  PROVE  /\ HighestThreshold(cs) = RatMax(cs[2].th, cs[1].th)
         /\ HighestThreshold(cs) \in Fraction
<1> DEFINE Step(s) == [i \in DOMAIN cs |-> IF i = 1 THEN cs[1].th ELSE RatMax(cs[i].th, s[i - 1])]
           f == [i \in 1 .. 2 |-> IF i = 1 THEN cs[1].th ELSE RatMax(cs[2].th, cs[1].th)]
           ths == CHOOSE s : s = Step(s)
<1>1. f = Step(f)
  <2>1. \A i \in 1 .. 2 : i = 1 \/ i = 2
    OBVIOUS
  <2> QED BY <2>1 DEF IsPair
<1>2. ths = Step(ths)
  <2> HIDE DEF Step, f
  <2> QED BY <1>1
<1>3. HighestThreshold(cs) = ths[2]
  BY DEF HighestThreshold, IsPair
<1> HIDE DEF ths
<1>4. ths[1] = cs[1].th
  BY <1>2 DEF IsPair
<1>5. ths[2] = RatMax(cs[2].th, ths[1])
  BY <1>2 DEF IsPair
<1> QED BY <1>3, <1>4, <1>5, LargerThreshold

LEMMA WidestOfPair ==
  ASSUME NEW q, IsPair(q), q[1].prec \in Pos, q[2].prec \in Pos
  PROVE  Widest(q) \in Pos /\ q[1].prec <= Widest(q) /\ q[2].prec <= Widest(q)
<1> DEFINE S == {q[i].prec : i \in DOMAIN q}
           a == q[1].prec
           b == q[2].prec
<1>1. S = {a, b}
  <2>1. \A i \in 1 .. 2 : i = 1 \/ i = 2
    OBVIOUS
  <2> QED BY <2>1 DEF IsPair
<1>2. \E p \in S : \A i \in DOMAIN q : q[i].prec <= p
  <2>1. \E p \in S : a <= p /\ b <= p
    <3> HIDE DEF a, b, S
    <3>1. a \in Nat /\ b \in Nat
      BY DEF Pos, a, b
    <3> QED BY <1>1, <3>1
  <2>2. \A i \in DOMAIN q : q[i].prec = a \/ q[i].prec = b
    <3>1. \A i \in DOMAIN q : i = 1 \/ i = 2
      BY DEF IsPair
    <3> QED BY <3>1
  <2> HIDE DEF S, a, b
  <2> QED BY <2>1, <2>2
<1>3. Widest(q) \in S /\ \A i \in DOMAIN q : q[i].prec <= Widest(q)
  BY <1>2 DEF Widest
<1>4. 1 \in DOMAIN q /\ 2 \in DOMAIN q
  BY DEF IsPair
<1> QED BY <1>1, <1>3, <1>4

LEMMA JoinedPair ==
  ASSUME NEW q, IsPair(q), NEW p \in Pos, Honest(q[1].sym, p), Honest(q[2].sym, p)
  PROVE  Honest(Joined(q), p)
<1> DEFINE S == {q[i].sym.bound : i \in DOMAIN q}
           a == q[1].sym.bound
           b == q[2].sym.bound
           largest == CHOOSE m \in S : \A c \in S : c <= m
<1>1. S = {a, b}
  <2>1. \A i \in 1 .. 2 : i = 1 \/ i = 2
    OBVIOUS
  <2> QED BY <2>1 DEF IsPair
<1>2. a \in Nat /\ b \in Nat /\ a <= get_range(p) /\ b <= get_range(p)
  BY DEF Honest
<1>3. \E m \in S : \A c \in S : c <= m
  <2> HIDE DEF a, b, S
  <2> QED BY <1>1, <1>2
<1>4. largest \in S
  <2> HIDE DEF S
  <2> QED BY <1>3
<1> HIDE DEF largest, S, a, b
<1>5. largest \in Nat /\ largest <= get_range(p)
  BY <1>1, <1>2, <1>4
<1>6. Joined(q) = Sym(largest, Added(q).peak, Added(q).scale)
  BY DEF Joined, largest, S
<1> QED BY <1>5, <1>6, HonestSym

LEMMA InputsGood ==
  ASSUME NEW kind, kind # "add_n", NEW cs, IsPair(cs), NEW th \in Fraction,
         GoodNode(cs[1]), GoodNode(cs[2]),
         cs[1].th \in Fraction, cs[2].th \in Fraction
  PROVE  GoodQuantized(scale_inputs(kind, cs, th))
<1> DEFINE oscale == scale(HighestThreshold(cs), WidePrec)
           q == [i \in DOMAIN cs |-> us_quantize(cs[i], WidePrec, oscale)]
<1>1. scale_inputs(kind, cs, th) =
        IF kind = "Concat" THEN Quantized(th, Widest(q), oscale, Joined(q), q)
        ELSE Quantized(th, Widest(q) + 1, oscale, Added(q), q)
  BY DEF scale_inputs, On
<1>2. oscale \in Positive /\ oscale \in Wanted /\ WidePrec \in Nat /\ WidePrec >= 2
  BY HighestOfPair, ScalesPositive
<1> HIDE DEF oscale
<1>3. IsPair(q)
  <2>1. DOMAIN q = 1 .. 2
    BY DEF IsPair
  <2>2. Len(q) = 2
    <3> DEFINE f(i) == us_quantize(cs[i], WidePrec, oscale)
    <3>1. q = [i \in 1 .. 2 |-> f(i)]
      BY DEF IsPair
    <3> HIDE DEF f, q
    <3> QED BY <3>1
  <2> HIDE DEF q
  <2> QED BY <2>1, <2>2 DEF IsPair
<1>4. /\ q[1] = us_quantize(cs[1], WidePrec, oscale)
      /\ q[2] = us_quantize(cs[2], WidePrec, oscale)
  BY DEF IsPair
<1> HIDE DEF q
<1>5. GoodResult(q[1]) /\ GoodResult(q[2])
  BY <1>2, <1>4, UsQuantizeGood
<1>6. /\ Honest(q[1].sym, q[1].prec) /\ q[1].prec \in Pos /\ q[1].prec \in Int
      /\ Honest(q[2].sym, q[2].prec) /\ q[2].prec \in Pos /\ q[2].prec \in Int
  BY <1>5, ResultParts
<1> DEFINE w == Widest(q)
<1>7. w \in Pos /\ q[1].prec <= w /\ q[2].prec <= w
  BY <1>3, <1>6, WidestOfPair
<1> HIDE DEF w
<1>8. Honest(Added(q), w + 1)
  <2>1. w \in Nat
    BY <1>7 DEF Pos
  <2>2. Honest(Plus(q[1].sym, q[2].sym), w + 1)
    BY <2>1, <1>6, <1>7, PlusHonest
  <2> QED BY <2>2, <1>3, AddedPair
<1>9. Honest(Joined(q), w)
  <2>1. /\ Bounded(q[1].sym) /\ q[1].sym.bound <= get_range(q[1].prec)
        /\ Bounded(q[2].sym) /\ q[2].sym.bound <= get_range(q[2].prec)
    BY <1>6 DEF Honest, Bounded
  <2>2. Honest(q[1].sym, w) /\ Honest(q[2].sym, w)
    BY <2>1, <1>6, <1>7, Wider
  <2> QED BY <2>2, <1>3, <1>7, JoinedPair
<1>10. GoodQuantized(Quantized(th, w, oscale, Joined(q), q))
  BY <1>2, <1>9, QuantizedGood
<1>11. GoodQuantized(Quantized(th, w + 1, oscale, Added(q), q))
  BY <1>2, <1>8, QuantizedGood
<1> QED BY <1>1, <1>10, <1>11 DEF w

LEMMA BroadcastGood ==
  ASSUME NEW cs, IsPair(cs), NEW th \in Fraction, GoodNode(cs[1]), GoodNode(cs[2]),
         cs[1].th \in Fraction, cs[2].th \in Fraction
  PROVE  GoodQuantized(scale_broadcast(cs, th))
<1> DEFINE zero(i) == cs[i].th[1] = 0
           c == IF zero(1) THEN cs[2] ELSE cs[1]
           raw == c.op = "param"
           bit == IF raw THEN get_bit(c.th) ELSE c.prec
           sc == IF raw THEN Int2Rat(1) ELSE c.scale
           sym == IF raw THEN Sym(get_range(bit), get_range(bit), Int2Rat(1)) ELSE c.sym
<1>1. scale_broadcast(cs, th) =
        IF zero(1) /\ zero(2) THEN Quantized(<<0, 1>>, 1, Int2Rat(1), Zeros, <<>>)
        ELSE IF zero(1) \/ zero(2) THEN Quantized(c.th, bit, sc, sym, <<>>)
        ELSE scale_inputs("add", cs, th)
  BY DEF scale_broadcast
<1>2. GoodNode(c) /\ c.th \in Fraction
  OBVIOUS
<1> HIDE DEF c
<1>3. bit \in Pos /\ sc \in Positive /\ Honest(sym, bit)
  <2>1. CASE c.op = "param"
    <3>1. get_bit(c.th) \in Pos
      BY <1>2, BitsHold
    <3> QED BY <2>1, <3>1, OneIsGood, RangeHonest
  <2>2. CASE c.op # "param"
    <3>1. c.scale \in Positive /\ Honest(c.sym, c.prec)
      BY <2>2, <1>2, OperatorIsNode
    <3>2. c.prec \in Pos
      BY <3>1 DEF Honest
    <3> QED BY <2>2, <3>1, <3>2
  <2> QED BY <2>1, <2>2
<1> HIDE DEF bit, sc, sym, zero
<1>4. <<0, 1>> \in Fraction
  BY OneIsGood DEF Fraction
<1>5. GoodQuantized(Quantized(<<0, 1>>, 1, Int2Rat(1), Zeros, <<>>))
  BY <1>4, OneIsGood, ZerosHonest, QuantizedGood
<1>6. GoodQuantized(Quantized(c.th, bit, sc, sym, <<>>))
  BY <1>2, <1>3, QuantizedGood
<1>7. GoodQuantized(scale_inputs("add", cs, th))
  BY InputsGood
<1> QED BY <1>1, <1>5, <1>6, <1>7

LEMMA XwGood ==
  ASSUME NEW x, GoodNode(x), NEW w, GoodNode(w), NEW k \in Nat \ {0}, NEW th \in Fraction
  PROVE  GoodQuantized(quantize_xw(x, w, k, th))
<1> DEFINE X == us_quantize(x, NarrowPrec, AnyScale)
           W == us_quantize(w, NarrowPrec, AnyScale)
           dot == SumOf(Times(X.sym, W.sym), k)
           infer == get_bit_cnt[k] + X.prec + W.prec
<1>1. quantize_xw(x, w, k, th) =
        Quantized(th, infer, RatMul(X.scale, W.scale), dot, <<X, W>>)
  BY DEF quantize_xw
<1>2. GoodResult(X) /\ GoodResult(W)
  BY ScalesPositive, AnyIsWanted, UsQuantizeGood, OneIsGood
<1> HIDE DEF X, W
<1>3. /\ X.scale \in Positive /\ Honest(X.sym, X.prec) /\ X.prec \in Nat
      /\ W.scale \in Positive /\ Honest(W.sym, W.prec) /\ W.prec \in Nat
  BY <1>2, ResultParts
<1>4. Honest(dot, infer)
  <2>1. Honest(Times(X.sym, W.sym), X.prec + W.prec)
    BY <1>3, ProductHonest
  <2>2. Honest(dot, get_bit_cnt[k] + (X.prec + W.prec))
    BY <2>1, SumHonest
  <2>3. get_bit_cnt[k] \in Nat
    BY BitCountBounds
  <2>4. get_bit_cnt[k] + (X.prec + W.prec) = infer
    BY <1>3, <2>3
  <2> HIDE DEF dot, infer
  <2> QED BY <2>2, <2>4
<1> HIDE DEF dot, infer
<1> QED BY <1>1, <1>3, <1>4, ProductsPositive, QuantizedGood

LEMMA ScaleMulGood ==
  ASSUME NEW cs, GoodNode(cs[1]), GoodNode(cs[2]), NEW th \in Fraction
  PROVE  GoodQuantized(scale_mul(cs, th))
<1> DEFINE A == us_quantize(cs[1], WidePrec, AnyScale)
           B == us_quantize(cs[2], WidePrec, AnyScale)
           zero == B.prec = 1 /\ B.scale = Int2Rat(1)
<1>1. scale_mul(cs, th) =
        IF zero THEN Quantized(th, 1, Int2Rat(1), Times(A.sym, B.sym), <<A, B>>)
        ELSE Quantized(th, A.prec + B.prec, RatMul(A.scale, B.scale),
                       Times(A.sym, B.sym), <<A, B>>)
  BY DEF scale_mul, On
<1>2. GoodResult(A) /\ GoodResult(B)
  BY ScalesPositive, AnyIsWanted, UsQuantizeGood, OneIsGood
<1>3. zero => B.prec = 1
  OBVIOUS
<1> HIDE DEF A, B, zero
<1> QED BY <1>1, <1>2, <1>3, ProductGood

LEMMA ScaleSumGood ==
  ASSUME NEW x, GoodNode(x), NEW k \in Nat \ {0}, NEW th \in Fraction
  PROVE  GoodQuantized(scale_sum(x, k, th))
<1> DEFINE X == us_quantize(x, NarrowPrec, AnyScale)
<1>1. scale_sum(x, k, th) =
        Quantized(th, get_bit_cnt[k] + X.prec, X.scale, SumOf(X.sym, k), <<X>>)
  BY DEF scale_sum
<1>2. GoodResult(X)
  BY ScalesPositive, AnyIsWanted, UsQuantizeGood, OneIsGood
<1> HIDE DEF X
<1>3. Honest(SumOf(X.sym, k), get_bit_cnt[k] + X.prec) /\ X.scale \in Positive
  BY <1>2, ResultParts, SumHonest
<1> QED BY <1>1, <1>3, QuantizedGood

-----------------------------------------------------------------------------
(* _quant clips to the tight precision, which is one bit if the threshold  *)
(* is zero.                                                                *)
LEMMA TightenedGood ==
  ASSUME NEW th \in Fraction, NEW prec, NEW sc \in Positive, NEW sym, NEW ins,
         Honest(sym, prec)
  PROVE  LET t == Tightened(Quantized(th, prec, sc, sym, ins))
         IN  t.th = th /\ GoodOperator(t)
<1> DEFINE q == Quantized(th, prec, sc, sym, ins)
           tight_prec == get_bit(RatMul(th, sc))
           t == Tightened(q)
<1>1. q = [th |-> th, prec |-> prec, scale |-> sc, sym |-> sym, seen |-> ins]
  BY DEF Quantized
<1>2. q.th = th /\ q.prec = prec /\ q.scale = sc /\ q.sym = sym /\ q.seen = ins
  BY <1>1
<1>3. /\ prec > tight_prec =>
           /\ t.th = th /\ t.prec = tight_prec /\ t.scale = sc
           /\ t.sym = cvm_clip(sym, tight_prec)
      /\ ~(prec > tight_prec) => t = q
  <2>1. t = IF q.prec > get_bit(RatMul(q.th, q.scale))
            THEN [q EXCEPT !.prec = get_bit(RatMul(q.th, q.scale)),
                           !.sym = cvm_clip(q.sym, get_bit(RatMul(q.th, q.scale)))]
            ELSE q
    BY DEF Tightened
  <2> HIDE DEF q, t
  <2>2. t = IF prec > tight_prec
            THEN [q EXCEPT !.prec = tight_prec, !.sym = cvm_clip(sym, tight_prec)]
            ELSE q
    BY <2>1, <1>2
  <2> DEFINE Y == cvm_clip(sym, tight_prec)
  <2> HIDE DEF tight_prec, Y
  <2>3. /\ [q EXCEPT !.prec = tight_prec, !.sym = Y].th = th
        /\ [q EXCEPT !.prec = tight_prec, !.sym = Y].prec = tight_prec
        /\ [q EXCEPT !.prec = tight_prec, !.sym = Y].scale = sc
        /\ [q EXCEPT !.prec = tight_prec, !.sym = Y].sym = Y
    BY <1>1
  <2> QED BY <2>2, <2>3 DEF Y
<1>4. RatMul(th, sc) \in Fraction /\ (th[1] = 0 => RatMul(th, sc)[1] = 0)
  BY PositiveIsFraction, FractionProducts
<1>5. tight_prec \in Pos /\ tight_prec \in Nat /\ (th[1] = 0 => tight_prec = 1)
  BY <1>4, BitsHold DEF Pos
<1> HIDE DEF tight_prec, t
<1>6. prec \in Nat /\ prec >= 1 /\ sym.bound \in Nat
  BY DEF Honest, Pos
<1>7. CASE prec > tight_prec
  <2>1. Honest(cvm_clip(sym, tight_prec), tight_prec)
    <3> DEFINE a == sym.bound
               b == get_range(tight_prec)
    <3>1. cvm_clip(sym, tight_prec).bound = Smaller(a, b)
      BY SymBound DEF cvm_clip
    <3>2. a \in Nat /\ b \in Nat
      BY <1>5, <1>6, RangeIsNat
    <3> HIDE DEF a, b
    <3>3. Smaller(a, b) \in Nat /\ Smaller(a, b) <= b
      BY <3>2 DEF Smaller
    <3> QED BY <3>1, <3>3, <1>5 DEF Honest, b
  <2>3. t.th = th /\ t.prec = tight_prec /\ t.scale = sc /\ t.sym = cvm_clip(sym, tight_prec)
    BY <1>3, <1>7
  <2>4. t.th = th /\ GoodOperator(t)
    BY <2>1, <2>3, <1>5 DEF GoodOperator
  <2> QED BY <2>4 DEF t
<1>8. CASE ~(prec > tight_prec)
  <2>1. t = q
    BY <1>3, <1>8
  <2>2. th[1] = 0 => prec = 1
    BY <1>5, <1>6, <1>8
  <2>3. t.th = th /\ GoodOperator(t)
    BY <1>2, <2>1, <2>2 DEF GoodOperator
  <2> QED BY <2>3 DEF t
<1> QED BY <1>7, <1>8

-----------------------------------------------------------------------------
(* The inductive invariant, and operators over the nodes of a model.       *)

(* Every node has the fields of Record, a threshold, and, if it is an      *)
(* operator, a positive scale and a precision it stays within; one whose   *)
(* threshold is zero is told with one bit.                                 *)
QuantInv ==
  /\ nodes \in Seq({nodes[n] : n \in DOMAIN nodes})
  /\ \A n \in Node :
       LET x == nodes[n]
       IN  /\ x = Record(x.op, x.args, x, x.real, x.free)
           /\ x.th \in Fraction /\ GoodNode(x)

Args(args) == [i \in DOMAIN args |-> nodes[args[i]]]

LEMMA NodesGood ==
  ASSUME QuantInv
  PROVE  /\ \A n \in Node : nodes[n].th \in Fraction /\ GoodNode(nodes[n])
         /\ \A n \in Operators : nodes[n].th \in Fraction /\ GoodNode(nodes[n])
                                 /\ GoodOperator(nodes[n])
         /\ \A n \in Params : nodes[n].th \in Fraction /\ GoodNode(nodes[n])
                              /\ nodes[n].op = "param"
         /\ Operators \subseteq Node /\ Params \subseteq Node
<1>1. \A n \in Node : nodes[n].th \in Fraction /\ GoodNode(nodes[n])
  BY DEF QuantInv
<1>2. Operators \subseteq Node /\ Params \subseteq Node
  BY DEF Operators, Params
<1>3. \A n \in Operators : nodes[n].op # "param"
  BY DEF Operators
<1>4. \A n \in Params : nodes[n].op = "param"
  BY DEF Params
<1>5. \A n \in Operators : GoodOperator(nodes[n])
  BY <1>1, <1>2, <1>3, OperatorIsNode
<1> QED BY <1>1, <1>2, <1>4, <1>5

LEMMA PairOfArgs ==
  ASSUME NEW x, NEW y
  PROVE  LET cs == Args(<<x, y>>)
         IN  /\ IsPair(cs) /\ cs[1] = nodes[x] /\ cs[2] = nodes[y]
             /\ Len(cs) = 2 /\ SubSeq(cs, 3, Len(cs)) = <<>>
<1> DEFINE cs == Args(<<x, y>>)
<1>1. cs = <<nodes[x], nodes[y]>>
  <2>1. DOMAIN <<x, y>> = 1 .. 2
    OBVIOUS
  <2>2. \A i \in 1 .. 2 : i = 1 \/ i = 2
    OBVIOUS
  <2> QED BY <2>1, <2>2 DEF Args
<1>2. IsPair(cs) /\ cs[1] = nodes[x] /\ cs[2] = nodes[y] /\ Len(cs) = 2
  BY <1>1 DEF IsPair
<1>3. SubSeq(<<nodes[x], nodes[y]>>, 3, 2) = <<>>
  OBVIOUS
<1> QED BY <1>1, <1>2, <1>3

(* The optional bias.                                                      *)
Third(cs) == SubSeq(cs, 3, Len(cs))

LEMMA TripleOfArgs ==
  ASSUME NEW x, NEW y, NEW z, NEW cs, cs = Args(<<x, y, z>>)
  PROVE  /\ cs[1] = nodes[x] /\ cs[2] = nodes[y]
         /\ Third(cs)[1] = nodes[z]
<1>1. cs = <<nodes[x], nodes[y], nodes[z]>>
  <2>1. DOMAIN <<x, y, z>> = 1 .. 3
    OBVIOUS
  <2>2. \A i \in 1 .. 3 : i = 1 \/ i = 2 \/ i = 3
    OBVIOUS
  <2> QED BY <2>1, <2>2 DEF Args
<1>2. cs[1] = nodes[x] /\ cs[2] = nodes[y] /\ cs[3] = nodes[z] /\ Len(cs) = 3
  BY <1>1
<1>3. \A i \in 3 .. 3 : cs[i] \in {nodes[z]}
  BY <1>2
<1>4. \A i \in 1 .. 3 - 3 + 1 : SubSeq(cs, 3, 3)[i] = cs[3 + i - 1]
  BY <1>3, SubSeqProperties
<1>5. SubSeq(cs, 3, 3)[1] = cs[3]
  BY <1>4
<1> QED BY <1>2, <1>5 DEF Third

LEMMA OneArg ==
  ASSUME NEW x
  PROVE  Args(<<x>>)[1] = nodes[x]
BY DEF Args

LEMMA QuantizeGood ==
  ASSUME QuantInv, NEW kind \in CountedOps, NEW k \in Nat \ {0}, NEW th \in Fraction,
         NEW args \in ArgsOf(kind)
  PROVE  GoodQuantized(Quantize(kind, Args(args), k, th))
<1> DEFINE cs == Args(args)
<1>1. CASE kind = "dense"
  <2>1. Quantize(kind, cs, k, th) =
          quantize_xwb(cs[1], cs[2], SubSeq(cs, 3, Len(cs)), k, th)
    BY <1>1 DEF Quantize
  <2>2. args \in (Operators \X Params) \cup
                 {<<x, w, b>> : x \in Operators, w \in Params, b \in Params}
    BY <1>1 DEF ArgsOf
  <2>3. CASE args \in Operators \X Params
    <3>1. PICK x \in Operators, w \in Params : args = <<x, w>>
      BY <2>3
    <3>2. cs[1] = nodes[x] /\ cs[2] = nodes[w] /\ SubSeq(cs, 3, Len(cs)) = <<>>
      BY <3>1, PairOfArgs
    <3>3. GoodOperator(nodes[x]) /\ nodes[w].th \in Fraction
      BY NodesGood
    <3> QED BY <2>1, <3>2, <3>3, XwbGood
  <2>4. CASE args \in {<<x, w, b>> : x \in Operators, w \in Params, b \in Params}
    <3>1. PICK x \in Operators, w \in Params, b \in Params : args = <<x, w, b>>
      BY <2>4
    <3>5. cs = Args(<<x, w, b>>)
      BY <3>1
    <3> HIDE DEF cs
    <3>2. /\ cs[1] = nodes[x] /\ cs[2] = nodes[w]
          /\ Third(cs)[1] = nodes[b]
      BY <3>5, TripleOfArgs
    <3>3. GoodOperator(nodes[x]) /\ nodes[w].th \in Fraction /\ nodes[b].th \in Fraction
      BY NodesGood
    <3>4. GoodQuantized(quantize_xwb(nodes[x], nodes[w], Third(cs), k, th))
      BY <3>2, <3>3, XwbGood
    <3> QED BY <2>1, <3>2, <3>4 DEF cs, Third
  <2> QED BY <2>2, <2>3, <2>4
<1>2. CASE kind \in {"add", "elemwise_add", "Concat", "mul"}
  <2>1. args \in Operators \X Node
    BY <1>2 DEF ArgsOf
  <2>2. PICK x \in Operators, y \in Node : args = <<x, y>>
    BY <2>1
  <2>3. cs[1] = nodes[x] /\ cs[2] = nodes[y]
    BY <2>2, PairOfArgs
  <2>4. /\ GoodNode(cs[1]) /\ cs[1].th \in Fraction
        /\ GoodNode(cs[2]) /\ cs[2].th \in Fraction
    BY <2>3, NodesGood
  <2> HIDE DEF cs
  <2>5. /\ GoodQuantized(quantize_scale(kind, cs, th))
        /\ GoodQuantized(quantize_zero_add(cs, th))
        /\ GoodQuantized(quantize_mul(cs, th))
    BY <2>4, ScaleGood, ZeroAddGood, MulGood
  <2>6. \/ Quantize(kind, cs, k, th) = quantize_scale(kind, cs, th)
        \/ Quantize(kind, cs, k, th) = quantize_zero_add(cs, th)
        \/ Quantize(kind, cs, k, th) = quantize_mul(cs, th)
    BY <1>2 DEF Quantize
  <2> QED BY <2>5, <2>6 DEF cs
<1>3. CASE kind = "embedding"
  <2>1. args \in Operators \X Params
    BY <1>3 DEF ArgsOf
  <2>2. PICK x \in Operators, w \in Params : args = <<x, w>>
    BY <2>1
  <2>3. cs[1] = nodes[x] /\ cs[2] = nodes[w]
    BY <2>2, PairOfArgs
  <2>4. nodes[w].th \in Fraction /\ nodes[w].op = "param"
    BY NodesGood
  <2>5. Quantize(kind, cs, k, th) = quantize_embedding(cs[1], cs[2])
    BY <1>3 DEF Quantize
  <2> QED BY <2>3, <2>4, <2>5, EmbeddingGood
<1>4. CASE kind \in {"sum", "clip", "table", "softmax", "default"}
  <2>1. args \in {<<x>> : x \in Operators}
    BY <1>4 DEF ArgsOf
  <2>2. PICK x \in Operators : args = <<x>>
    BY <2>1
  <2>3. cs[1] = nodes[x]
    BY <2>2, OneArg
  <2>4. GoodOperator(nodes[x])
    BY NodesGood
  <2>5. /\ GoodQuantized(quantize_sum(nodes[x], k, th))
        /\ GoodQuantized(quantize_clip(nodes[x], th, th))
        /\ GoodQuantized(quantize_table(nodes[x], th))
        /\ GoodQuantized(quantize_softmax(nodes[x], k, th))
        /\ GoodQuantized(quantize_default(nodes[x], th))
    BY <2>4, SumGood, ClipGood, TableGood, SoftmaxGood, DefaultGood
  <2> HIDE DEF cs
  <2>6. \/ Quantize(kind, cs, k, th) = quantize_sum(cs[1], k, th)
        \/ Quantize(kind, cs, k, th) = quantize_clip(cs[1], th, th)
        \/ Quantize(kind, cs, k, th) = quantize_table(cs[1], th)
        \/ Quantize(kind, cs, k, th) = quantize_softmax(cs[1], k, th)
        \/ Quantize(kind, cs, k, th) = quantize_default(cs[1], th)
    BY <1>4 DEF Quantize
  <2> QED BY <2>3, <2>5, <2>6 DEF cs
<1> QED BY <1>1, <1>2, <1>3, <1>4 DEF CountedOps

LEMMA QuantizeV2Good ==
  ASSUME QuantInv, NEW kind \in CountedOps, NEW k \in Nat \ {0}, NEW th \in Fraction,
         NEW args \in ArgsOfV2(kind)
  PROVE  GoodQuantized(QuantizeV2(kind, Args(args), k, th))
<1> DEFINE cs == Args(args)
<1>0. kind # "add_n"
  BY DEF CountedOps
<1>1. CASE kind = "dense"
  <2>1. QuantizeV2(kind, cs, k, th) = quantize_xw(cs[1], cs[2], k, th)
    BY <1>1 DEF QuantizeV2
  <2>2. args \in Operators \X Params
    BY <1>1 DEF ArgsOfV2
  <2>3. PICK x \in Operators, w \in Params : args = <<x, w>>
    BY <2>2
  <2>4. cs[1] = nodes[x] /\ cs[2] = nodes[w]
    BY <2>3, PairOfArgs
  <2>5. GoodNode(nodes[x]) /\ GoodNode(nodes[w])
    BY NodesGood
  <2> QED BY <2>1, <2>4, <2>5, XwGood
<1>2. CASE kind \in {"add", "elemwise_add", "Concat", "mul"}
  <2>1. args \in Operators \X Node
    BY <1>2 DEF ArgsOfV2, ArgsOf
  <2>2. PICK x \in Operators, y \in Node : args = <<x, y>>
    BY <2>1
  <2>3. IsPair(cs) /\ cs[1] = nodes[x] /\ cs[2] = nodes[y]
    BY <2>2, PairOfArgs
  <2>4. /\ GoodNode(cs[1]) /\ cs[1].th \in Fraction
        /\ GoodNode(cs[2]) /\ cs[2].th \in Fraction
    BY <2>3, NodesGood
  <2>5. IsPair(cs)
    BY <2>3
  <2> HIDE DEF cs
  <2>6. /\ GoodQuantized(scale_inputs(kind, cs, th))
        /\ GoodQuantized(scale_broadcast(cs, th))
        /\ GoodQuantized(scale_mul(cs, th))
    BY <1>0, <2>4, <2>5, InputsGood, BroadcastGood, ScaleMulGood
  <2>7. \/ QuantizeV2(kind, cs, k, th) = scale_inputs(kind, cs, th)
        \/ QuantizeV2(kind, cs, k, th) = scale_broadcast(cs, th)
        \/ QuantizeV2(kind, cs, k, th) = scale_mul(cs, th)
    BY <1>2 DEF QuantizeV2
  <2> QED BY <2>6, <2>7 DEF cs
<1>3. CASE kind = "embedding"
  <2>1. args \in Operators \X Params
    BY <1>3 DEF ArgsOfV2, ArgsOf
  <2>2. PICK x \in Operators, w \in Params : args = <<x, w>>
    BY <2>1
  <2>3. cs[1] = nodes[x] /\ cs[2] = nodes[w]
    BY <2>2, PairOfArgs
  <2>4. nodes[w].th \in Fraction /\ nodes[w].op = "param"
    BY NodesGood
  <2>5. QuantizeV2(kind, cs, k, th) = scale_embedding(cs[1], cs[2])
    BY <1>3 DEF QuantizeV2
  <2> QED BY <2>3, <2>4, <2>5, EmbeddingGood
<1>4. CASE kind \in {"sum", "clip", "table", "softmax", "default"}
  <2>1. args \in {<<x>> : x \in Operators}
    BY <1>4 DEF ArgsOfV2, ArgsOf
  <2>2. PICK x \in Operators : args = <<x>>
    BY <2>1
  <2>3. cs[1] = nodes[x]
    BY <2>2, OneArg
  <2>4. GoodOperator(nodes[x]) /\ GoodNode(nodes[x])
    BY NodesGood
  <2>5. /\ GoodQuantized(scale_sum(nodes[x], k, th))
        /\ GoodQuantized(scale_clip(nodes[x], th, th))
        /\ GoodQuantized(scale_table(nodes[x], th))
        /\ GoodQuantized(scale_softmax(nodes[x], k, th))
        /\ GoodQuantized(scale_default(nodes[x], th))
    BY <2>4, ScaleSumGood, ClipGood, TableGood, SoftmaxGood, DefaultGood
  <2> HIDE DEF cs
  <2>6. \/ QuantizeV2(kind, cs, k, th) = scale_sum(cs[1], k, th)
        \/ QuantizeV2(kind, cs, k, th) = scale_clip(cs[1], th, th)
        \/ QuantizeV2(kind, cs, k, th) = scale_table(cs[1], th)
        \/ QuantizeV2(kind, cs, k, th) = scale_softmax(cs[1], k, th)
        \/ QuantizeV2(kind, cs, k, th) = scale_default(cs[1], th)
    BY <1>4 DEF QuantizeV2
  <2> QED BY <2>3, <2>5, <2>6 DEF cs
<1> QED BY <1>1, <1>2, <1>3, <1>4 DEF CountedOps

-----------------------------------------------------------------------------
(* Every step keeps the invariant.                                         *)

(* A node as the pass leaves it.                                           *)
GoodRecord(x) ==
  /\ x = Record(x.op, x.args, x, x.real, x.free)
  /\ x.th \in Fraction /\ GoodNode(x)

LEMMA RecordParts ==
  ASSUME NEW kind, NEW args, NEW q, NEW real, NEW free
  PROVE  LET r == Record(kind, args, q, real, free)
         IN  /\ r.op = kind /\ r.args = args /\ r.real = real /\ r.free = free
             /\ r.th = q.th /\ r.prec = q.prec /\ r.scale = q.scale
             /\ r.sym = q.sym /\ r.seen = q.seen
             /\ r = Record(r.op, r.args, r, r.real, r.free)
<1> DEFINE r == Record(kind, args, q, real, free)
<1>1. /\ r.op = kind /\ r.args = args /\ r.real = real /\ r.free = free
      /\ r.th = q.th /\ r.prec = q.prec /\ r.scale = q.scale
      /\ r.sym = q.sym /\ r.seen = q.seen
  BY DEF Record
<1>2. Record(kind, args, r, real, free) = Record(kind, args, q, real, free)
  <2> HIDE DEF r
  <2> QED BY <1>1 DEF Record
<1> QED BY <1>1, <1>2

LEMMA RecordGood ==
  ASSUME NEW kind, NEW args, NEW q, NEW real, NEW free, GoodOperator(q)
  PROVE  GoodRecord(Record(kind, args, q, real, free))
<1> DEFINE r == Record(kind, args, q, real, free)
<1>1. /\ r.th = q.th /\ r.prec = q.prec /\ r.scale = q.scale /\ r.sym = q.sym
      /\ r = Record(r.op, r.args, r, r.real, r.free)
  BY RecordParts
<1> HIDE DEF r
<1>2. GoodOperator(r)
  BY <1>1 DEF GoodOperator
<1>3. r.th \in Fraction /\ GoodNode(r)
  BY <1>2 DEF GoodNode, GoodOperator
<1>4. GoodRecord(r)
  BY <1>1, <1>3 DEF GoodRecord
<1> QED BY <1>4 DEF r

(* What _quant records of an operator quantised well.                      *)
LEMMA QuantisedRecordGood ==
  ASSUME NEW kind, NEW args, NEW q, GoodQuantized(q), NEW real
  PROVE  GoodRecord(Record(kind, args, Tightened(q), real, q.sym.bound))
<1>1. GoodOperator(Tightened(Quantized(q.th, q.prec, q.scale, q.sym, q.seen)))
  BY TightenedGood DEF GoodQuantized
<1>2. GoodOperator(Tightened(q))
  BY <1>1 DEF GoodQuantized
<1> QED BY <1>2, RecordGood

LEMMA InvRecords ==
  QuantInv <=> /\ nodes \in Seq({nodes[n] : n \in DOMAIN nodes})
               /\ \A n \in Node : GoodRecord(nodes[n])
BY DEF QuantInv, GoodRecord

(* Enough nodes that are good, in sequence.                                *)
LEMMA InvFrom ==
  ASSUME NEW m \in Nat, nodes' = [n \in 1 .. m |-> nodes'[n]],
         \A n \in 1 .. m : GoodRecord(nodes'[n])
  PROVE  QuantInv'
<1> DEFINE S == {nodes'[n] : n \in DOMAIN nodes'}
<1>1. DOMAIN nodes' = 1 .. m
  OBVIOUS
<1>2. \A n \in 1 .. m : nodes'[n] \in S
  BY <1>1
<1> HIDE DEF S
<1>3. nodes' \in Seq(S) /\ Len(nodes') = m
  BY <1>2
<1>4. \A n \in Node' : GoodRecord(nodes'[n])
  BY <1>3 DEF Node
<1>5. /\ nodes' \in Seq({nodes'[n] : n \in DOMAIN nodes'})
      /\ \A n \in Node' : GoodRecord(nodes'[n])
  BY <1>3, <1>4 DEF S
<1>6. \A n \in Node' :
        /\ nodes'[n] = Record(nodes'[n].op, nodes'[n].args, nodes'[n],
                              nodes'[n].real, nodes'[n].free)
        /\ nodes'[n].th \in Fraction /\ GoodNode(nodes'[n])
  BY <1>5 DEF GoodRecord
<1> QED BY <1>5, <1>6 DEF QuantInv

LEMMA AppendKeepsInv ==
  ASSUME QuantInv, NEW r, GoodRecord(r), nodes' = Append(nodes, r)
  PROVE  QuantInv'
<1> DEFINE S == {nodes[n] : n \in DOMAIN nodes} \cup {r}
           m == Len(nodes) + 1
<1>1. nodes \in Seq(S) /\ r \in S /\ m - 1 \in Nat /\ DOMAIN nodes = 1 .. m - 1
  BY DEF QuantInv
<1> HIDE DEF S
<1>2. /\ nodes' \in Seq(S) /\ Len(nodes') = m
      /\ \A i \in 1 .. m - 1 : nodes'[i] = nodes[i]
      /\ nodes'[m] = r
  BY <1>1, AppendProperties
<1>3. \A n \in 1 .. m - 1 : GoodRecord(nodes[n])
  BY InvRecords DEF Node
<1>4. \A n \in 1 .. m : n = m \/ n \in 1 .. m - 1
  BY <1>1
<1>5. \A n \in 1 .. m : GoodRecord(nodes'[n])
  BY <1>2, <1>3, <1>4
<1>6. nodes' = [n \in 1 .. m |-> nodes'[n]] /\ m \in Nat
  <2> DEFINE s == nodes'
  <2>1. s \in Seq(S) /\ Len(s) = m
    BY <1>2
  <2> HIDE DEF s
  <2>2. s \in [1 .. m -> S]
    BY <2>1, SeqDef
  <2>3. m \in Nat
    BY <1>1
  <2> QED BY <2>2, <2>3 DEF s
<1> QED BY <1>5, <1>6, InvFrom

(* The number of a threshold.                                              *)
LEMMA ThresholdsAreFractions ==
  \A t \in Nat : Int2Rat(t) \in Fraction /\ (t # 0 => Int2Rat(t) \in Positive)
BY DEF Int2Rat, Fraction, Positive, Pos

LEMMA InputGood ==
  ASSUME NEW th \in Fraction, th[1] # 0
  PROVE  GoodOperator(quantize_null(th))
<1> DEFINE sc == scale(th, InputPrec)
           sym == Sym(get_range(InputPrec), get_range(InputPrec), sc)
<1>1. sc \in Positive /\ InputPrec \in Pos
  BY ScalesPositive
<1>2. Honest(sym, InputPrec)
  BY <1>1, RangeHonest
<1> HIDE DEF sc, sym
<1>3. quantize_null(th) = Quantized(th, InputPrec, sc, sym, <<>>)
  BY DEF quantize_null, sc, sym
<1>4. LET q == Quantized(th, InputPrec, sc, sym, <<>>)
      IN  q.th = th /\ q.prec = InputPrec /\ q.scale = sc /\ q.sym = sym
  BY DEF Quantized
<1> QED BY <1>1, <1>2, <1>3, <1>4 DEF GoodOperator

LEMMA InitKeepsInv == ASSUME Init PROVE QuantInv
<1>1. PICK x \in LeafThresholds \ {0}, w \in LeafThresholds :
        nodes = << Record("data", <<>>, quantize_null(Int2Rat(x)), Int2Rat(x),
                          get_range(InputPrec)),
                   Record("param", <<>>, Quantized(Int2Rat(w), 0, AnyScale,
                                           Zeros, <<>>), Int2Rat(w), 0) >>
  BY DEF Init
<1> DEFINE d == Record("data", <<>>, quantize_null(Int2Rat(x)), Int2Rat(x),
                       get_range(InputPrec))
           q == Quantized(Int2Rat(w), 0, AnyScale, Zeros, <<>>)
           p == Record("param", <<>>, q, Int2Rat(w), 0)
<1>2. x \in Nat /\ x # 0 /\ w \in Nat
  BY SamplesAssumption
<1>3. GoodRecord(d)
  <2>1. Int2Rat(x) \in Fraction /\ Int2Rat(x)[1] # 0
    BY <1>2, ThresholdsAreFractions DEF Int2Rat
  <2>2. GoodOperator(quantize_null(Int2Rat(x)))
    BY <2>1, InputGood
  <2> QED BY <2>2, RecordGood
<1>4. GoodRecord(p)
  <2>1. p.op = "param" /\ p.th = q.th /\ p = Record(p.op, p.args, p, p.real, p.free)
    BY RecordParts
  <2>2. q.th \in Fraction
    BY <1>2, ThresholdsAreFractions DEF Quantized
  <2> HIDE DEF p, q
  <2> QED BY <2>1, <2>2 DEF GoodRecord, GoodNode
<1> HIDE DEF d, p
<1>5. nodes = <<d, p>>
  BY <1>1 DEF d, p
<1>6. nodes \in Seq({nodes[n] : n \in DOMAIN nodes}) /\ Node = 1 .. 2
  BY <1>5 DEF Node
<1>7. \A n \in 1 .. 2 : n = 1 \/ n = 2
  OBVIOUS
<1>8. \A n \in Node : GoodRecord(nodes[n])
  BY <1>3, <1>4, <1>5, <1>6, <1>7
<1> QED BY <1>6, <1>8, InvRecords

-----------------------------------------------------------------------------
(* An output requantised in place.                                         *)
LEMMA RequantisedGood ==
  ASSUME NEW x, GoodRecord(x), x.op # "param",
         NEW q, GoodResult(q), x.th[1] = 0 => q.prec = 1
  PROVE  GoodRecord([x EXCEPT !.prec = q.prec, !.scale = q.scale, !.sym = q.sym])
<1> DEFINE prec == q.prec
           sc == q.scale
           sym == q.sym
           y == [x EXCEPT !.prec = prec, !.scale = sc, !.sym = sym]
<1>0. x = [op |-> x.op, args |-> x.args, th |-> x.th, real |-> x.real, prec |-> x.prec,
           scale |-> x.scale, sym |-> x.sym, seen |-> x.seen, free |-> x.free]
  BY DEF GoodRecord, Record
<1> DEFINE a == [x EXCEPT !.prec = prec]
           b == [a EXCEPT !.scale = sc]
           c == [b EXCEPT !.sym = sym]
<1>1. a = [op |-> x.op, args |-> x.args, th |-> x.th, real |-> x.real, prec |-> prec,
           scale |-> x.scale, sym |-> x.sym, seen |-> x.seen, free |-> x.free]
  <2> HIDE DEF prec
  <2> QED BY <1>0
<1>4. y = c
  OBVIOUS
<1> HIDE DEF a
<1>2. b = [op |-> x.op, args |-> x.args, th |-> x.th, real |-> x.real, prec |-> prec,
           scale |-> sc, sym |-> x.sym, seen |-> x.seen, free |-> x.free]
  <2> HIDE DEF prec, sc
  <2> QED BY <1>1
<1> HIDE DEF b
<1>3. c = [op |-> x.op, args |-> x.args, th |-> x.th, real |-> x.real, prec |-> prec,
           scale |-> sc, sym |-> sym, seen |-> x.seen, free |-> x.free]
  <2> HIDE DEF prec, sc, sym
  <2> QED BY <1>2
<1> HIDE DEF c
<1>5. y = [op |-> x.op, args |-> x.args, th |-> x.th, real |-> x.real, prec |-> prec,
           scale |-> sc, sym |-> sym, seen |-> x.seen, free |-> x.free]
  BY <1>3, <1>4
<1>6. sc \in Positive /\ Honest(sym, prec) /\ (x.th[1] = 0 => prec = 1)
  BY DEF GoodResult
<1> HIDE DEF y, prec, sc, sym
<1>7. /\ y.op = x.op /\ y.args = x.args /\ y.th = x.th /\ y.real = x.real
      /\ y.prec = prec /\ y.scale = sc /\ y.sym = sym /\ y.seen = x.seen /\ y.free = x.free
  BY <1>5
<1>8. y = Record(y.op, y.args, y, y.real, y.free)
  BY <1>5, <1>7 DEF Record
<1>9. x.th \in Fraction
  BY DEF GoodRecord
<1>10. GoodOperator(y)
  BY <1>6, <1>7, <1>9 DEF GoodOperator
<1>11. GoodRecord(y)
  BY <1>7, <1>8, <1>9, <1>10 DEF GoodRecord, GoodNode
<1> QED BY <1>11 DEF y, prec, sc, sym

(* A threshold of zero is told with one bit, whoever requantises.          *)
LEMMA ZeroIsOneBit ==
  ASSUME NEW x, x.op # "param", x.th[1] = 0, NEW default, NEW wanted
  PROVE  /\ requant(x, default, wanted).prec = 1
         /\ us_quantize(x, default, wanted).prec = 1
<1>1. \A sc : Requantized(x.sym, 1, sc).prec = 1
  BY DEF Requantized
<1>2. /\ requant_operator(x, default, wanted) =
           Requantized(x.sym, 1, IF wanted # AnyScale THEN wanted ELSE Int2Rat(1))
      /\ us_operator(x, default, wanted) =
           Requantized(x.sym, 1, IF wanted # AnyScale THEN wanted ELSE Int2Rat(1))
  BY DEF requant_operator, us_operator
<1> QED BY <1>1, <1>2 DEF requant, us_quantize

LEMMA OutputsKeepInv ==
  ASSUME QuantInv, QuantizeOutputs \/ QuantizeOutputsV2
  PROVE  QuantInv'
<1> DEFINE Q1(n) == requant(nodes[n], OutputPrec, scale(nodes[n].th, OutputPrec))
           Q2(n) == us_quantize(nodes[n], OutputPrec, scale(nodes[n].th, OutputPrec))
           Y(n, q) == [nodes[n] EXCEPT !.prec = q.prec, !.scale = q.scale, !.sym = q.sym]
<1>1. \A n \in Node : GoodRecord(nodes[n])
  BY InvRecords
<1>2. ASSUME NEW n \in Operators
      PROVE  GoodRecord(Y(n, Q1(n))) /\ GoodRecord(Y(n, Q2(n)))
  <2>1. GoodRecord(nodes[n]) /\ nodes[n].op # "param"
    BY <1>1 DEF Operators
  <2>2. nodes[n].th \in Fraction /\ GoodNode(nodes[n])
    BY <2>1 DEF GoodRecord
  <2>3. /\ scale(nodes[n].th, OutputPrec) \in Wanted
        /\ OutputPrec \in Nat /\ OutputPrec >= 2
    BY <2>2, ScalesPositive
  <2>4. GoodResult(Q1(n)) /\ GoodResult(Q2(n))
    BY <2>2, <2>3, RequantGood, UsQuantizeGood
  <2>5. nodes[n].th[1] = 0 => Q1(n).prec = 1 /\ Q2(n).prec = 1
    BY <2>1, ZeroIsOneBit
  <2> HIDE DEF Q1, Q2
  <2> QED BY <2>1, <2>4, <2>5, RequantisedGood
<1>3. PICK outs \in SUBSET Outputs :
        \/ nodes' = [n \in Node |-> IF n \notin outs THEN nodes[n] ELSE Y(n, Q1(n))]
        \/ nodes' = [n \in Node |-> IF n \notin outs THEN nodes[n] ELSE Y(n, Q2(n))]
  BY DEF QuantizeOutputs, QuantizeOutputsV2
<1>4. \A n \in outs : n \in Operators
  BY DEF Outputs
<1> HIDE DEF Y, Q1, Q2
<1>5. \A n \in Node : GoodRecord(nodes'[n])
  BY <1>1, <1>2, <1>3, <1>4
<1>6. nodes' = [n \in Node |-> nodes'[n]]
  BY <1>3
<1>7. Len(nodes) \in Nat
  BY DEF QuantInv
<1> QED BY <1>5, <1>6, <1>7, InvFrom DEF Node

(* One operator more, quantised by either generation.                      *)
LEMMA NextKeepsInv ==
  ASSUME QuantInv, Ops \subseteq CountedOps, QuantizeNext \/ QuantizeNextV2
  PROVE  QuantInv'
<1>1. CASE QuantizeNext
  <2>1. PICK kind \in Ops, k \in Terms, t \in Thresholds : \E args \in ArgsOf(kind) :
          \E q \in {Quantize(kind, Args(args), k, Int2Rat(t))} :
            nodes' = Append(nodes, Record(kind, args, Tightened(q), Int2Rat(t), q.sym.bound))
    BY <1>1 DEF QuantizeNext, Args
  <2>2. PICK args \in ArgsOf(kind) :
          LET q == Quantize(kind, Args(args), k, Int2Rat(t))
          IN  nodes' = Append(nodes,
                         Record(kind, args, Tightened(q), Int2Rat(t), q.sym.bound))
    BY <2>1
  <2>3. kind \in CountedOps /\ k \in Nat \ {0} /\ Int2Rat(t) \in Fraction
    BY SamplesAssumption, ThresholdsAreFractions
  <2>4. GoodQuantized(Quantize(kind, Args(args), k, Int2Rat(t)))
    BY <2>3, QuantizeGood
  <2> QED BY <2>2, <2>4, QuantisedRecordGood, AppendKeepsInv
<1>2. CASE QuantizeNextV2
  <2>1. PICK kind \in Ops, k \in Terms, t \in Thresholds : \E args \in ArgsOfV2(kind) :
          \E q \in {QuantizeV2(kind, Args(args), k, Int2Rat(t))} :
            nodes' = Append(nodes, Record(kind, args, Tightened(q), Int2Rat(t), q.sym.bound))
    BY <1>2 DEF QuantizeNextV2, Args
  <2>2. PICK args \in ArgsOfV2(kind) :
          LET q == QuantizeV2(kind, Args(args), k, Int2Rat(t))
          IN  nodes' = Append(nodes,
                         Record(kind, args, Tightened(q), Int2Rat(t), q.sym.bound))
    BY <2>1
  <2>3. kind \in CountedOps /\ k \in Nat \ {0} /\ Int2Rat(t) \in Fraction
    BY SamplesAssumption, ThresholdsAreFractions
  <2>4. GoodQuantized(QuantizeV2(kind, Args(args), k, Int2Rat(t)))
    BY <2>3, QuantizeV2Good
  <2> QED BY <2>2, <2>4, QuantisedRecordGood, AppendKeepsInv
<1> QED BY <1>1, <1>2

(* The strengthening is inductive.                                         *)
THEOREM QuantInvariance ==
  ASSUME Ops \subseteq CountedOps
  PROVE  SpecAny => []QuantInv
<1>1. InitAny => QuantInv
  BY InitKeepsInv DEF InitAny
<1>2. QuantInv /\ [NextAny]_<<vars, generation>> => QuantInv'
  <2>1. CASE QuantInv /\ (QuantizeNext \/ QuantizeNextV2)
    BY <2>1, NextKeepsInv
  <2>2. CASE QuantInv /\ (QuantizeOutputs \/ QuantizeOutputsV2)
    BY <2>2, OutputsKeepInv
  <2>3. CASE QuantInv /\ UNCHANGED vars
    BY <2>3 DEF QuantInv, vars, Node
  <2> QED BY <2>1, <2>2, <2>3 DEF NextAny, Next, NextV2, Done
<1> QED BY <1>1, <1>2, PTL DEF SpecAny

LEMMA InvHonest == ASSUME QuantInv PROVE PrecisionHonest
BY NodesGood DEF PrecisionHonest, GoodOperator, Honest

(* No emitted operator leaves the range of the precision told for it.      *)
THEOREM PrecisionsHonest ==
  ASSUME Ops \subseteq CountedOps
  PROVE  SpecAny => []PrecisionHonest
<1>1. SpecAny => []QuantInv
  BY QuantInvariance
<1> QED BY <1>1, InvHonest, PTL

-----------------------------------------------------------------------------
(* The clip to the tight precision.  An operator either records the        *)
(* threshold that was calibrated, or declares no more bits than the        *)
(* threshold it records needs, or is zero.                                 *)
Tight(x) == x.prec <= get_bit(RatMul(x.th, x.scale))

Covers(q, real) == q.th = real \/ Tight(q) \/ q.sym.bound = 0

LEMMA ThOf ==
  ASSUME NEW th, NEW prec, NEW sc, NEW sym, NEW ins
  PROVE  LET q == Quantized(th, prec, sc, sym, ins)
         IN  q.th = th /\ q.prec = prec /\ q.scale = sc /\ q.sym = sym
BY DEF Quantized

LEMMA FloorBelowCeil ==
  ASSUME NEW x \in Fraction
  PROVE  Floor(x) \in Int /\ Floor(x) <= Ceil(x)
<1> DEFINE n == x[1]
           d == x[2]
           f == n \div d
           c == Ceil(x)
<1>1. n \in Nat /\ d \in Pos /\ d \in Int /\ d > 0
  BY DEF Fraction, Pos
<1>2. c \in Nat /\ n <= c * d
  BY CeilBounds
<1> HIDE DEF n, d, c
<1>3. f \in Int /\ f * d <= n
  BY <1>1, Division
<1> HIDE DEF f
<1>4. f * d <= c * d
  <2>1. f * d \in Int /\ c * d \in Int
    BY <1>1, <1>2, <1>3
  <2> QED BY <2>1, <1>1, <1>2, <1>3
<1>5. f <= c
  BY <1>1, <1>2, <1>3, <1>4
<1> QED BY <1>3, <1>5 DEF f, c, n, d, Floor

LEMMA ClipKeeps ==
  ASSUME NEW q, GoodQuantized(q), NEW real \in Fraction, Covers(q, real)
  PROVE  LET t == Tightened(q)
         IN  /\ Tight(t)
             /\ Smaller(q.sym.bound, Floor(RatMul(real, t.scale))) <= t.sym.bound
<1> DEFINE t == Tightened(q)
           bits == get_bit(RatMul(q.th, q.scale))
           b == q.sym.bound
           v == Floor(RatMul(real, q.scale))
           r == get_range(bits)
<1>1. /\ q.th \in Fraction /\ q.scale \in Fraction /\ b \in Nat /\ q.prec \in Int
      /\ RatMul(real, q.scale) \in Fraction /\ RatMul(q.th, q.scale) \in Fraction
  BY PositiveIsFraction, FractionProducts DEF GoodQuantized, Honest, Pos
<1>2. v \in Int
  BY <1>1, FloorBelowCeil
<1>3. bits \in Pos /\ bits \in Int /\ r \in Nat
  BY <1>1, BitsHold, RangeIsNat DEF Pos
<1>4. q.th = real => v <= r
  BY <1>1, <1>2, <1>3, BitsHold, FloorBelowCeil, CeilBounds
<1>5. CASE q.prec > bits
  <2>1. t = [q EXCEPT !.prec = bits, !.sym = cvm_clip(q.sym, bits)]
    BY <1>5 DEF Tightened
  <2>2. q = [th |-> q.th, prec |-> q.prec, scale |-> q.scale, sym |-> q.sym,
             seen |-> q.seen]
    BY DEF GoodQuantized, Quantized
  <2> DEFINE Y == cvm_clip(q.sym, bits)
  <2> HIDE DEF t, bits, Y
  <2>3. /\ [q EXCEPT !.prec = bits, !.sym = Y].th = q.th
        /\ [q EXCEPT !.prec = bits, !.sym = Y].prec = bits
        /\ [q EXCEPT !.prec = bits, !.sym = Y].scale = q.scale
        /\ [q EXCEPT !.prec = bits, !.sym = Y].sym = Y
    BY <2>2
  <2>4. t.th = q.th /\ t.prec = bits /\ t.scale = q.scale /\ t.sym = Y
    BY <2>1, <2>3 DEF Y
  <2>5. Y.bound = Smaller(b, r)
    BY SymBound DEF cvm_clip, Y
  <2>6. ~Tight(q)
    BY <1>1, <1>3, <1>5 DEF Tight, bits
  <2>7. v <= r \/ b = 0
    BY <1>4, <2>6 DEF Covers
  <2>8. Smaller(b, v) <= Smaller(b, r)
    <3> HIDE DEF b, v, r
    <3> QED BY <1>1, <1>2, <1>3, <2>7 DEF Smaller
  <2>9. Tight(t)
    BY <2>4, <1>3 DEF Tight, bits
  <2> QED BY <2>4, <2>5, <2>8, <2>9 DEF t
<1>6. CASE ~(q.prec > bits)
  <2>1. t = q
    BY <1>6 DEF Tightened
  <2>2. Tight(q)
    BY <1>1, <1>3, <1>6 DEF Tight
  <2>3. Smaller(b, v) <= b
    <3> HIDE DEF b, v
    <3> QED BY <1>1, <1>2 DEF Smaller
  <2> QED BY <2>1, <2>2, <2>3
<1> QED BY <1>5, <1>6

-----------------------------------------------------------------------------
(* The thresholds that operators record.                                   *)
LEMMA ScaledTogether ==
  ASSUME NEW kind, NEW cs, NEW th
  PROVE  \E prec, sc, sym :
           quantize_scale(kind, cs, th) =
             Quantized(th, prec, sc, sym,
                       [i \in 1 .. 2 |-> requant(cs[i], WidePrec,
                                                scale(RatMax(cs[1].th, cs[2].th), WidePrec))])
<1> DEFINE oscale == scale(RatMax(cs[1].th, cs[2].th), WidePrec)
           q == [i \in 1 .. 2 |-> requant(cs[i], WidePrec, oscale)]
           widest == Larger(q[1].prec, q[2].prec)
           sum == Plus(q[1].sym, q[2].sym)
           joined == Sym(Larger(q[1].sym.bound, q[2].sym.bound),
                         Larger(q[1].sym.peak, q[2].sym.peak), sum.scale)
<1>1. quantize_scale(kind, cs, th) =
        IF kind = "Concat" THEN Quantized(th, widest, oscale, joined, q)
        ELSE Quantized(th, widest + 1, oscale, sum, q)
  BY DEF quantize_scale, On
<1> HIDE DEF q, widest, sum, joined
<1>2. \E prec, sc, sym : quantize_scale(kind, cs, th) = Quantized(th, prec, sc, sym, q)
  BY <1>1
<1> QED BY <1>2 DEF q

LEMMA RecordsThreshold ==
  ASSUME NEW kind, NEW cs, NEW x, NEW y, NEW b, NEW k, NEW th
  PROVE  /\ quantize_xwb(x, y, b, k, th).th = th
         /\ quantize_scale(kind, cs, th).th = th
         /\ quantize_mul(cs, th).th = th
         /\ quantize_sum(x, k, th).th = th
         /\ quantize_clip(x, th, th).th = th
         /\ quantize_table(x, th).th = th
         /\ quantize_softmax(x, k, th).th = th
         /\ quantize_default(x, th).th = th
<1>1. quantize_xwb(x, y, b, k, th).th = th
  BY ThOf DEF quantize_xwb, On
<1>2. quantize_scale(kind, cs, th).th = th
  <2> DEFINE q == [i \in 1 .. 2 |-> requant(cs[i], WidePrec,
                                        scale(RatMax(cs[1].th, cs[2].th), WidePrec))]
  <2>1. PICK prec, sc, sym : quantize_scale(kind, cs, th) = Quantized(th, prec, sc, sym, q)
    BY ScaledTogether
  <2> HIDE DEF q
  <2> QED BY <2>1, ThOf
<1>3. quantize_mul(cs, th).th = th
  BY ThOf DEF quantize_mul, On
<1>4. quantize_sum(x, k, th).th = th
  BY ThOf DEF quantize_sum
<1>5. quantize_clip(x, th, th).th = th
  BY ThOf DEF quantize_clip
<1>6. quantize_table(x, th).th = th
  BY ThOf DEF quantize_table
<1>7. quantize_softmax(x, k, th).th = th
  BY ThOf DEF quantize_softmax
<1>8. quantize_default(x, th).th = th
  BY ThOf DEF quantize_default
<1> QED BY <1>1, <1>2, <1>3, <1>4, <1>5, <1>6, <1>7, <1>8

LEMMA RecordsThresholdV2 ==
  ASSUME NEW kind, NEW cs, NEW x, NEW y, NEW k, NEW th
  PROVE  /\ quantize_xw(x, y, k, th).th = th
         /\ scale_inputs(kind, cs, th).th = th
         /\ scale_mul(cs, th).th = th
         /\ scale_sum(x, k, th).th = th
         /\ scale_clip(x, th, th).th = th
         /\ scale_table(x, th).th = th
         /\ scale_softmax(x, k, th).th = th
         /\ scale_default(x, th).th = th
<1>1. quantize_xw(x, y, k, th).th = th
  BY ThOf DEF quantize_xw
<1>2. scale_inputs(kind, cs, th).th = th
  BY ThOf DEF scale_inputs, On
<1>3. scale_mul(cs, th).th = th
  BY ThOf DEF scale_mul, On
<1>4. scale_sum(x, k, th).th = th
  BY ThOf DEF scale_sum
<1>5. scale_clip(x, th, th).th = th
  BY ThOf DEF scale_clip
<1>6. scale_table(x, th).th = th
  BY ThOf DEF scale_table
<1>7. scale_softmax(x, k, th).th = th
  BY ThOf DEF scale_softmax
<1>8. scale_default(x, th).th = th
  BY ThOf DEF scale_default
<1> QED BY <1>1, <1>2, <1>3, <1>4, <1>5, <1>6, <1>7, <1>8

LEMMA QuantizeRecords ==
  ASSUME NEW kind \in CountedOps, kind # "embedding", NEW cs, NEW k, NEW th,
         kind = "add" => \A i \in 1 .. 2 : cs[i].th[1] # 0
  PROVE  Quantize(kind, cs, k, th).th = th
<1>1. kind = "add" => Quantize(kind, cs, k, th) = quantize_scale(kind, cs, th)
  BY DEF Quantize
<1>2. \/ Quantize(kind, cs, k, th) = quantize_xwb(cs[1], cs[2], SubSeq(cs, 3, Len(cs)), k, th)
      \/ Quantize(kind, cs, k, th) = quantize_scale(kind, cs, th)
      \/ Quantize(kind, cs, k, th) = quantize_mul(cs, th)
      \/ Quantize(kind, cs, k, th) = quantize_sum(cs[1], k, th)
      \/ Quantize(kind, cs, k, th) = quantize_clip(cs[1], th, th)
      \/ Quantize(kind, cs, k, th) = quantize_table(cs[1], th)
      \/ Quantize(kind, cs, k, th) = quantize_softmax(cs[1], k, th)
      \/ Quantize(kind, cs, k, th) = quantize_default(cs[1], th)
  BY <1>1 DEF Quantize, CountedOps
<1> QED BY <1>2, RecordsThreshold

LEMMA QuantizeV2Records ==
  ASSUME NEW kind \in CountedOps \ {"embedding", "add"}, NEW cs, NEW k, NEW th
  PROVE  QuantizeV2(kind, cs, k, th).th = th
<1>1. \/ QuantizeV2(kind, cs, k, th) = quantize_xw(cs[1], cs[2], k, th)
      \/ QuantizeV2(kind, cs, k, th) = scale_inputs(kind, cs, th)
      \/ QuantizeV2(kind, cs, k, th) = scale_mul(cs, th)
      \/ QuantizeV2(kind, cs, k, th) = scale_sum(cs[1], k, th)
      \/ QuantizeV2(kind, cs, k, th) = scale_clip(cs[1], th, th)
      \/ QuantizeV2(kind, cs, k, th) = scale_table(cs[1], th)
      \/ QuantizeV2(kind, cs, k, th) = scale_softmax(cs[1], k, th)
      \/ QuantizeV2(kind, cs, k, th) = scale_default(cs[1], th)
  BY DEF QuantizeV2, CountedOps
<1> QED BY <1>1, RecordsThresholdV2

(* An embedding declares what its table needs.                             *)
LEMMA EmbeddingTight ==
  ASSUME NEW x, NEW w, w.th \in Fraction, w.op = "param"
  PROVE  Tight(quantize_embedding(x, w)) /\ Tight(scale_embedding(x, w))
<1>0. \A sc, sym, ins : Tight(Quantized(w.th, get_bit(RatMul(w.th, sc)), sc, sym, ins))
                        \/ ~(RatMul(w.th, sc) \in Fraction)
  BY ThOf, BitsHold DEF Tight, Pos
<1> DEFINE W == requant_parameter(w, WidePrec, AnyScale)
           U == us_quantize(w, WidePrec, AnyScale)
<1>1. RatMul(w.th, W.scale) \in Fraction /\ RatMul(w.th, U.scale) \in Fraction
  <2>1. WidePrec \in Nat /\ WidePrec >= 2 /\ WidePrec \in Pos
    BY PrecisionsAssumption DEF Pos
  <2>2. W.scale \in Positive /\ U.scale \in Positive
    BY <2>1, AnyIsWanted, RequantParameterGood, UsQuantizeGood DEF GoodResult, GoodNode
  <2> QED BY <2>2, PositiveIsFraction, FractionProducts
<1>2. PICK p, ins : quantize_embedding(x, w) =
        Quantized(w.th, get_bit(RatMul(w.th, W.scale)), W.scale,
                  Sym(W.sym.bound, p, W.sym.scale), ins)
  BY DEF quantize_embedding
<1>3. PICK r, more : scale_embedding(x, w) =
        Quantized(w.th, get_bit(RatMul(w.th, U.scale)), U.scale,
                  Sym(U.sym.bound, r, U.sym.scale), more)
  BY DEF scale_embedding
<1> HIDE DEF W, U
<1> QED BY <1>0, <1>1, <1>2, <1>3

(* A fraction times one is itself.                                         *)
LEMMA TimesOne ==
  ASSUME NEW x \in Fraction
  PROVE  RatMul(x, Int2Rat(1)) = x
<1> DEFINE n == x[1]
           d == x[2]
<1>1. x = <<n, d>> /\ n \in Nat /\ d \in Nat /\ d # 0
  BY DEF Fraction, Pos
<1> HIDE DEF n, d
<1>2. Gcd[<<1, 0>>] = 1
  BY GcdEquation
<1>3. Gcd[<<n, 1>>] = 1
  <2>1. n % 1 = 0
    BY <1>1
  <2> QED BY <1>1, <1>2, <2>1, GcdEquation
<1>4. Gcd[<<1, d>>] = 1
  <2>1. CASE d = 1
    <3>1. 1 % 1 = 0
      OBVIOUS
    <3> QED BY <2>1, <3>1, <1>2, GcdEquation
  <2>2. CASE d # 1
    <3>1. 1 % d = 1
      BY <1>1, <2>2
    <3>2. d % 1 = 0
      BY <1>1
    <3>3. Gcd[<<1, d>>] = Gcd[<<d, 1 % d>>]
      BY <1>1, GcdEquation
    <3>4. Gcd[<<d, 1>>] = Gcd[<<1, d % 1>>]
      BY <1>1, GcdEquation
    <3> QED BY <3>1, <3>2, <3>3, <3>4, <1>2
  <2> QED BY <2>1, <2>2
<1>5. Rat(n, 1) = <<n, 1>> /\ Rat(1, d) = <<1, d>>
  BY <1>1, <1>3, <1>4 DEF Rat
<1>6. RatMul(<<n, d>>, <<1, 1>>) = <<n * 1, 1 * d>>
  BY <1>5 DEF RatMul
<1> QED BY <1>1, <1>6 DEF Int2Rat

(* Input data needs the precision its scale was made for.                  *)
LEMMA InputTight ==
  ASSUME NEW th \in Fraction, th[1] # 0
  PROVE  Tight(quantize_null(th))
<1> DEFINE s == scale(th, InputPrec)
           z == RatMul(th, s)
           R == get_range(InputPrec)
           c == get_bit_cnt[Ceil(z)]
<1>1. InputPrec \in Nat /\ InputPrec - 1 \in Nat /\ InputPrec >= 1 /\ InputPrec >= 2
  BY PrecisionsAssumption
<1>2. s \in Positive /\ R \in Pos /\ R = Pow2[InputPrec - 1] - 1
  BY <1>1, ScalesPositive, RangeIsNat
<1>3. s = RatMul(Int2Rat(R), <<th[2], th[1]>>)
  BY DEF scale, RatDiv
<1>4. s[1] * th[1] = s[2] * (R * th[2])
  <2> DEFINE y == <<th[2], th[1]>>
  <2>1. Int2Rat(R) \in Nat \X Pos /\ y \in Nat \X Pos
    BY <1>2 DEF Fraction, Pos, Int2Rat
  <2>2. s[1] * (Int2Rat(R)[2] * y[2]) = s[2] * (Int2Rat(R)[1] * y[1])
    BY <2>1, <1>3, RatMulExact
  <2>3. Int2Rat(R)[2] = 1 /\ Int2Rat(R)[1] = R /\ y[1] = th[2] /\ y[2] = th[1]
    BY DEF Int2Rat
  <2>4. 1 * th[1] = th[1]
    BY DEF Fraction
  <2> HIDE DEF s, R, y
  <2> QED BY <2>2, <2>3, <2>4
<1>5. z \in Fraction /\ z[1] * (th[2] * s[2]) = z[2] * (th[1] * s[1])
  BY <1>2, RatMulExact DEF Fraction, Positive, Pos
<1>6. R <= Ceil(z)
  <2> DEFINE a == th[1]
             d == th[2]
             u == s[1]
             v == s[2]
             m == z[1]
             n == z[2]
             e == Ceil(z)
  <2>1. /\ a \in Nat /\ d \in Nat /\ d # 0 /\ u \in Nat /\ v \in Nat /\ v # 0
        /\ m \in Nat /\ n \in Nat /\ n # 0 /\ e \in Nat /\ m <= e * n /\ R \in Nat
    BY <1>2, <1>5, CeilBounds DEF Fraction, Positive, Pos
  <2>2. u * a = v * (R * d) /\ m * (d * v) = n * (a * u)
    BY <1>4, <1>5
  <2> HIDE DEF a, d, u, v, m, n, e, R
  <2>3. a * u = u * a /\ n * (v * (R * d)) = (n * R) * (d * v)
    BY <2>1
  <2>4. m * (d * v) = (n * R) * (d * v)
    BY <2>2, <2>3
  <2>5. d * v \in Nat /\ d * v # 0
    BY <2>1
  <2>6. m = n * R
    <3> DEFINE g == d * v
               h == n * R
    <3>1. g \in Nat /\ g # 0 /\ h \in Nat /\ m * g = h * g
      BY <2>1, <2>4, <2>5
    <3> HIDE DEF g, h
    <3>2. m = h
      BY <2>1, <3>1
    <3> QED BY <3>2 DEF h
  <2>7. n * R <= n * e
    BY <2>1, <2>6
  <2>8. R <= e
    BY <2>1, <2>7
  <2> QED BY <2>8 DEF e
<1>7. Ceil(z) \in Nat /\ c \in Nat /\ Ceil(z) < Pow2[c]
  BY <1>5, CeilBounds, BitCountBounds
<1> DEFINE p == InputPrec - 1
<1>8. p <= c
  <2> SUFFICES ASSUME c < p
               PROVE  FALSE
    BY <1>1, <1>7
  <2>1. p \in Nat /\ c + 1 \in Nat /\ c + 1 <= p
    BY <1>1, <1>7
  <2>2. /\ Pow2[c + 1] <= Pow2[p] /\ Pow2[c + 1] = 2 * Pow2[c]
        /\ Pow2[c] \in Pos /\ Pow2[p] \in Pos
    BY <1>7, <2>1, Pow2Ordered, Pow2Next, Pow2Positive DEF Pos
  <2>3. Pow2[p] - 1 < Pow2[c]
    BY <1>2, <1>6, <1>7, <2>2 DEF Pos
  <2> HIDE DEF p, c
  <2> QED BY <2>2, <2>3 DEF Pos
<1>9. InputPrec <= get_bit(z)
  <2>1. get_bit(z) = c + 1
    BY DEF get_bit
  <2> HIDE DEF c, z
  <2> QED BY <1>1, <1>7, <1>8, <2>1
<1>10. LET q == quantize_null(th) IN q.th = th /\ q.prec = InputPrec /\ q.scale = s
  BY ThOf DEF quantize_null
<1> QED BY <1>9, <1>10 DEF Tight

-----------------------------------------------------------------------------
(* What every operator of the two generations records and declares.        *)
LEMMA QuantizeCovers ==
  ASSUME QuantInv, NEW kind \in CountedOps, NEW k, NEW th, NEW args \in ArgsOf(kind),
         kind = "add" => \A i \in 1 .. 2 : Args(args)[i].th[1] # 0
  PROVE  Covers(Quantize(kind, Args(args), k, th), th)
<1> DEFINE cs == Args(args)
<1>1. CASE kind = "embedding"
  <2>1. args \in Operators \X Params
    BY <1>1 DEF ArgsOf
  <2>2. PICK x \in Operators, w \in Params : args = <<x, w>>
    BY <2>1
  <2>3. cs[1] = nodes[x] /\ cs[2] = nodes[w]
    BY <2>2, PairOfArgs
  <2>4. nodes[w].th \in Fraction /\ nodes[w].op = "param"
    BY NodesGood
  <2>5. Quantize(kind, cs, k, th) = quantize_embedding(cs[1], cs[2])
    BY <1>1 DEF Quantize
  <2> QED BY <2>3, <2>4, <2>5, EmbeddingTight DEF Covers
<1>2. CASE kind # "embedding"
  BY <1>2, QuantizeRecords DEF Covers
<1> QED BY <1>1, <1>2

(* What the clip must keep, of the nodes so far.                           *)
ClipInv ==
  phase = "quantize" =>
    \A n \in Operators :
      /\ Tight(nodes[n])
      /\ Smaller(nodes[n].free, Floor(RatMul(nodes[n].real, nodes[n].scale)))
           <= nodes[n].sym.bound

LEMMA BroadcastCovers ==
  ASSUME QuantInv, ClipInv, phase = "quantize", NEW x \in Operators, NEW y \in Node, NEW th,
         NEW cs, IsPair(cs), cs[1] = nodes[x], cs[2] = nodes[y]
  PROVE  Covers(scale_broadcast(cs, th), th)
<1> DEFINE zero(i) == cs[i].th[1] = 0
           c == IF zero(1) THEN cs[2] ELSE cs[1]
           raw == c.op = "param"
           bit == IF raw THEN get_bit(c.th) ELSE c.prec
           sc == IF raw THEN Int2Rat(1) ELSE c.scale
           sym == IF raw THEN Sym(get_range(bit), get_range(bit), Int2Rat(1)) ELSE c.sym
           q == Quantized(c.th, bit, sc, sym, <<>>)
<1>1. scale_broadcast(cs, th) =
        IF zero(1) /\ zero(2) THEN Quantized(<<0, 1>>, 1, Int2Rat(1), Zeros, <<>>)
        ELSE IF zero(1) \/ zero(2) THEN q
        ELSE scale_inputs("add", cs, th)
  BY DEF scale_broadcast
<1>2. PICK n \in Node : c = nodes[n]
  BY NodesGood
<1>3. q.th = c.th /\ q.prec = bit /\ q.scale = sc
  BY ThOf
<1>4. Tight(q)
  <2>1. CASE c.op = "param"
    <3>1. c.th \in Fraction
      BY <1>2, NodesGood
    <3>2. RatMul(c.th, Int2Rat(1)) = c.th /\ get_bit(c.th) \in Pos
      BY <3>1, TimesOne, BitsHold
    <3>3. bit = get_bit(c.th) /\ sc = Int2Rat(1)
      BY <2>1
    <3> HIDE DEF q, bit, sc, c
    <3> QED BY <1>3, <3>2, <3>3 DEF Tight, Pos
  <2>2. CASE c.op # "param"
    <3>1. n \in Operators
      BY <2>2, <1>2 DEF Operators
    <3>2. Tight(c)
      BY <3>1, <1>2 DEF ClipInv
    <3>3. bit = c.prec /\ sc = c.scale
      BY <2>2
    <3> HIDE DEF q, bit, sc, c
    <3> QED BY <1>3, <3>2, <3>3 DEF Tight
  <2> QED BY <2>1, <2>2
<1>5. Quantized(<<0, 1>>, 1, Int2Rat(1), Zeros, <<>>).sym.bound = 0
  BY ThOf, ZerosHonest
<1>6. scale_inputs("add", cs, th).th = th
  BY RecordsThresholdV2
<1> HIDE DEF q, zero
<1> QED BY <1>1, <1>4, <1>5, <1>6 DEF Covers

LEMMA QuantizeV2Covers ==
  ASSUME QuantInv, ClipInv, phase = "quantize",
         NEW kind \in CountedOps, NEW k, NEW th, NEW args \in ArgsOfV2(kind)
  PROVE  Covers(QuantizeV2(kind, Args(args), k, th), th)
<1> DEFINE cs == Args(args)
<1>1. CASE kind = "embedding"
  <2>1. args \in Operators \X Params
    BY <1>1 DEF ArgsOfV2, ArgsOf
  <2>2. PICK x \in Operators, w \in Params : args = <<x, w>>
    BY <2>1
  <2>3. cs[1] = nodes[x] /\ cs[2] = nodes[w]
    BY <2>2, PairOfArgs
  <2>4. nodes[w].th \in Fraction /\ nodes[w].op = "param"
    BY NodesGood
  <2>5. QuantizeV2(kind, cs, k, th) = scale_embedding(cs[1], cs[2])
    BY <1>1 DEF QuantizeV2
  <2> QED BY <2>3, <2>4, <2>5, EmbeddingTight DEF Covers
<1>2. CASE kind = "add"
  <2>1. args \in Operators \X Node
    BY <1>2 DEF ArgsOfV2, ArgsOf
  <2>2. PICK x \in Operators, y \in Node : args = <<x, y>>
    BY <2>1
  <2>3. IsPair(cs) /\ cs[1] = nodes[x] /\ cs[2] = nodes[y]
    BY <2>2, PairOfArgs
  <2>4. QuantizeV2(kind, cs, k, th) = scale_broadcast(cs, th)
    BY <1>2 DEF QuantizeV2
  <2> HIDE DEF cs
  <2>5. Covers(scale_broadcast(cs, th), th)
    BY <2>3, BroadcastCovers
  <2> QED BY <2>4, <2>5 DEF cs
<1>3. CASE kind \notin {"embedding", "add"}
  BY <1>3, QuantizeV2Records DEF Covers
<1> QED BY <1>1, <1>2, <1>3

-----------------------------------------------------------------------------
(* Every step keeps what the clip must keep.                               *)
LEMMA RecordClip ==
  ASSUME NEW kind, NEW args, NEW q, GoodQuantized(q), NEW real \in Fraction, Covers(q, real)
  PROVE  LET r == Record(kind, args, Tightened(q), real, q.sym.bound)
         IN  /\ Tight(r)
             /\ Smaller(r.free, Floor(RatMul(r.real, r.scale))) <= r.sym.bound
<1> DEFINE t == Tightened(q)
           r == Record(kind, args, t, real, q.sym.bound)
<1>1. /\ Tight(t)
      /\ Smaller(q.sym.bound, Floor(RatMul(real, t.scale))) <= t.sym.bound
  BY ClipKeeps
<1> HIDE DEF t
<1>2. /\ r.real = real /\ r.free = q.sym.bound /\ r.th = t.th /\ r.prec = t.prec
      /\ r.scale = t.scale /\ r.sym = t.sym
  BY RecordParts
<1> HIDE DEF r
<1>3. /\ Tight(r)
      /\ Smaller(r.free, Floor(RatMul(r.real, r.scale))) <= r.sym.bound
  BY <1>1, <1>2 DEF Tight
<1> QED BY <1>3 DEF r, t

LEMMA AppendKeepsClip ==
  ASSUME QuantInv, ClipInv, NEW r, nodes' = Append(nodes, r), UNCHANGED phase,
         Tight(r), Smaller(r.free, Floor(RatMul(r.real, r.scale))) <= r.sym.bound
  PROVE  ClipInv'
<1> DEFINE S == {nodes[n] : n \in DOMAIN nodes} \cup {r}
           m == Len(nodes) + 1
<1>1. nodes \in Seq(S) /\ r \in S /\ m - 1 \in Nat /\ DOMAIN nodes = 1 .. m - 1
  BY DEF QuantInv
<1> HIDE DEF S
<1>2. /\ nodes' \in Seq(S) /\ Len(nodes') = m
      /\ \A i \in 1 .. m - 1 : nodes'[i] = nodes[i]
      /\ nodes'[m] = r
  BY <1>1, AppendProperties
<1>3. \A n \in Operators' : n = m \/ (n \in 1 .. m - 1 /\ nodes'[n].op # "param")
  BY <1>1, <1>2 DEF Operators, Node
<1>4. \A n \in Operators' : n = m \/ (n \in Operators /\ nodes'[n] = nodes[n])
  BY <1>2, <1>3 DEF Operators, Node
<1>5. ASSUME NEW n \in Operators', phase = "quantize"
      PROVE  /\ Tight(nodes'[n])
             /\ Smaller(nodes'[n].free, Floor(RatMul(nodes'[n].real, nodes'[n].scale)))
                  <= nodes'[n].sym.bound
  <2>1. CASE n = m
    BY <2>1, <1>2
  <2>2. CASE n \in Operators /\ nodes'[n] = nodes[n]
    BY <2>2, <1>5 DEF ClipInv
  <2> QED BY <1>4, <2>1, <2>2
<1>6. phase' = "quantize" =>
        \A n \in Operators' :
          /\ nodes'[n].prec <= get_bit(RatMul(nodes'[n].th, nodes'[n].scale))
          /\ Smaller(nodes'[n].free, Floor(RatMul(nodes'[n].real, nodes'[n].scale)))
               <= nodes'[n].sym.bound
  BY <1>5 DEF Tight
<1> QED BY <1>6 DEF ClipInv, Tight

LEMMA NextKeepsClip ==
  ASSUME QuantInv, ClipInv, Ops \subseteq CountedOps, ~ZeroAdds,
         QuantizeNext \/ QuantizeNextV2
  PROVE  ClipInv'
<1>0. phase = "quantize" /\ UNCHANGED phase
  BY DEF QuantizeNext, QuantizeNextV2
<1>1. CASE QuantizeNext
  <2>1. PICK kind \in Ops, k \in Terms, t \in Thresholds : \E args \in ArgsOf(kind) :
          /\ kind = "add" /\ ~ZeroAdds => \A i \in 1 .. 2 : Args(args)[i].th[1] # 0
          /\ \E q \in {Quantize(kind, Args(args), k, Int2Rat(t))} :
               nodes' = Append(nodes, Record(kind, args, Tightened(q), Int2Rat(t), q.sym.bound))
    BY <1>1 DEF QuantizeNext, Args
  <2>2. PICK args \in ArgsOf(kind) :
          /\ kind = "add" => \A i \in 1 .. 2 : Args(args)[i].th[1] # 0
          /\ LET q == Quantize(kind, Args(args), k, Int2Rat(t))
             IN  nodes' = Append(nodes,
                            Record(kind, args, Tightened(q), Int2Rat(t), q.sym.bound))
    BY <2>1
  <2>3. kind \in CountedOps /\ k \in Nat \ {0} /\ Int2Rat(t) \in Fraction
    BY SamplesAssumption, ThresholdsAreFractions
  <2>4. /\ GoodQuantized(Quantize(kind, Args(args), k, Int2Rat(t)))
        /\ Covers(Quantize(kind, Args(args), k, Int2Rat(t)), Int2Rat(t))
    BY <2>2, <2>3, QuantizeGood, QuantizeCovers
  <2> QED BY <1>0, <2>2, <2>3, <2>4, RecordClip, AppendKeepsClip
<1>2. CASE QuantizeNextV2
  <2>1. PICK kind \in Ops, k \in Terms, t \in Thresholds : \E args \in ArgsOfV2(kind) :
          \E q \in {QuantizeV2(kind, Args(args), k, Int2Rat(t))} :
            nodes' = Append(nodes, Record(kind, args, Tightened(q), Int2Rat(t), q.sym.bound))
    BY <1>2 DEF QuantizeNextV2, Args
  <2>2. PICK args \in ArgsOfV2(kind) :
          LET q == QuantizeV2(kind, Args(args), k, Int2Rat(t))
          IN  nodes' = Append(nodes,
                         Record(kind, args, Tightened(q), Int2Rat(t), q.sym.bound))
    BY <2>1
  <2>3. kind \in CountedOps /\ k \in Nat \ {0} /\ Int2Rat(t) \in Fraction
    BY SamplesAssumption, ThresholdsAreFractions
  <2>4. /\ GoodQuantized(QuantizeV2(kind, Args(args), k, Int2Rat(t)))
        /\ Covers(QuantizeV2(kind, Args(args), k, Int2Rat(t)), Int2Rat(t))
    BY <1>0, <2>3, QuantizeV2Good, QuantizeV2Covers
  <2> QED BY <1>0, <2>2, <2>3, <2>4, RecordClip, AppendKeepsClip
<1> QED BY <1>1, <1>2

LEMMA InitKeepsClip == ASSUME Init PROVE ClipInv
<1>1. PICK x \in LeafThresholds \ {0}, w \in LeafThresholds :
        nodes = << Record("data", <<>>, quantize_null(Int2Rat(x)), Int2Rat(x),
                          get_range(InputPrec)),
                   Record("param", <<>>, Quantized(Int2Rat(w), 0, AnyScale,
                                           Zeros, <<>>), Int2Rat(w), 0) >>
  BY DEF Init
<1> DEFINE th == Int2Rat(x)
           q == quantize_null(th)
           R == get_range(InputPrec)
           d == Record("data", <<>>, q, th, R)
           p == Record("param", <<>>, Quantized(Int2Rat(w), 0, AnyScale, Zeros, <<>>),
                       Int2Rat(w), 0)
<1>2. th \in Fraction /\ th[1] # 0
  BY SamplesAssumption, ThresholdsAreFractions DEF Int2Rat
<1>3. /\ Tight(q) /\ q.sym.bound = R /\ q.scale = scale(th, InputPrec)
  BY <1>2, InputTight, ThOf, SymBound DEF quantize_null
<1>4. R \in Nat /\ RatMul(th, q.scale) \in Fraction
  <2>1. InputPrec \in Int
    BY PrecisionsAssumption
  <2>2. q.scale \in Positive
    BY <1>2, <1>3, ScalesPositive
  <2> QED BY <1>2, <2>1, <2>2, RangeIsNat, FractionProducts, PositiveIsFraction
<1>5. Smaller(R, Floor(RatMul(th, q.scale))) <= R
  <2> DEFINE v == Floor(RatMul(th, q.scale))
  <2>1. v \in Int
    BY <1>4, FloorBelowCeil
  <2> HIDE DEF v, R
  <2>2. Smaller(R, v) <= R
    BY <1>4, <2>1 DEF Smaller
  <2> QED BY <2>2 DEF v
<1> HIDE DEF q, R
<1>6. /\ d.free = R /\ d.real = th /\ d.th = q.th /\ d.prec = q.prec
      /\ d.scale = q.scale /\ d.sym = q.sym
  BY RecordParts
<1>7. p.op = "param"
  BY RecordParts
<1> HIDE DEF d, p, th
<1>8. nodes = <<d, p>>
  BY <1>1 DEF d, p, q, R, th
<1>9. /\ Tight(d)
      /\ Smaller(d.free, Floor(RatMul(d.real, d.scale))) <= d.sym.bound
  BY <1>3, <1>5, <1>6 DEF Tight
<1>10. \A n \in Operators : nodes[n] = d
  <2>1. Node = 1 .. 2 /\ nodes[1] = d /\ nodes[2] = p
    BY <1>8 DEF Node
  <2>2. \A n \in 1 .. 2 : n = 1 \/ n = 2
    OBVIOUS
  <2> QED BY <2>1, <2>2, <1>7 DEF Operators
<1> QED BY <1>9, <1>10 DEF ClipInv

(* Without zero operands in additions of the first generation, the clip    *)
(* of _quant cuts nothing off that calibration saw.                        *)
THEOREM ClipsKeepThreshold ==
  ASSUME Ops \subseteq CountedOps, ~ZeroAdds
  PROVE  SpecAny => []ClipKeepsThreshold
<1>1. InitAny => ClipInv
  BY InitKeepsClip DEF InitAny
<1>2. QuantInv /\ ClipInv /\ [NextAny]_<<vars, generation>> => ClipInv'
  <2>1. CASE QuantInv /\ ClipInv /\ (QuantizeNext \/ QuantizeNextV2)
    BY <2>1, NextKeepsClip
  <2>2. CASE QuantizeOutputs \/ QuantizeOutputsV2
    BY <2>2 DEF QuantizeOutputs, QuantizeOutputsV2, ClipInv
  <2>3. CASE ClipInv /\ UNCHANGED vars
    BY <2>3 DEF ClipInv, vars, Operators, Node, Tight
  <2> QED BY <2>1, <2>2, <2>3 DEF NextAny, Next, NextV2, Done
<1>3. ClipInv => ClipKeepsThreshold
  BY DEF ClipInv, ClipKeepsThreshold
<1>4. SpecAny => []QuantInv
  BY QuantInvariance
<1> QED BY <1>1, <1>2, <1>3, <1>4, PTL DEF SpecAny

-----------------------------------------------------------------------------
(* How exact a mantissa is.                                                *)

(* Rounded, a number grows by half a unit at most, and not at all when it  *)
(* is an integer; below an integer it stays at most that.                  *)
LEMMA RoundedUp ==
  ASSUME NEW x \in Positive
  PROVE  /\ RoundHalfEven(x) \in Nat
         /\ 2 * (RoundHalfEven(x) * x[2]) <= 2 * x[1] + x[2]
         /\ x[2] = 1 => RoundHalfEven(x) = x[1]
         /\ \A m \in Nat : x[1] < m * x[2] => RoundHalfEven(x) <= m
<1> DEFINE n == x[1]
           d == x[2]
           f == n \div d
           t == 2 * (n - f * d)
           r == RoundHalfEven(x)
<1>1. n \in Nat /\ d \in Pos /\ d \in Nat /\ d > 0
  BY DEF Positive, Pos
<1>2. r = IF t < d \/ (t = d /\ f % 2 = 0) THEN f ELSE f + 1
  BY DEF RoundHalfEven, Floor
<1> HIDE DEF r
<1>3. f \in Nat /\ f * d <= n /\ n < f * d + d
  <2> HIDE DEF n, d
  <2> QED BY <1>1, Division, DivisionOfNat
<1>4. d = 1 => f = n
  <2> HIDE DEF n
  <2> QED BY <1>1
<1>5. r = f \/ (r = f + 1 /\ t >= d)
  <2> HIDE DEF n, d, f
  <2> QED BY <1>1, <1>2, <1>3
<1> HIDE DEF n, d, f
<1>6. f * d \in Nat /\ (f + 1) * d = f * d + d
  BY <1>1, <1>3
<1>7. 2 * (r * d) <= 2 * n + d
  <2>1. CASE r = f
    BY <2>1, <1>1, <1>3, <1>6
  <2>2. CASE r = f + 1 /\ t >= d
    <3>1. 2 * n - 2 * (f * d) >= d
      BY <2>2, <1>1, <1>3, <1>6
    <3>2. r * d = f * d + d
      BY <2>2, <1>6
    <3> QED BY <3>1, <3>2, <1>1, <1>6
  <2> QED BY <2>1, <2>2, <1>5
<1>8. d = 1 => r = n
  <2>1. d = 1 => t = 0
    BY <1>1, <1>3, <1>4
  <2> QED BY <2>1, <1>4, <1>5
<1>9. ASSUME NEW m \in Nat, n < m * d PROVE r <= m
  <2>1. f * d < m * d
    BY <1>1, <1>3, <1>6, <1>9
  <2>2. f < m
    BY <2>1, <1>1, <1>3, Cancelled
  <2> QED BY <2>2, <1>3, <1>5
<1>10. r \in Nat
  BY <1>3, <1>5
<1> QED BY <1>7, <1>8, <1>9, <1>10 DEF n, d, r

(* f.frac * 2^f.exp, as a fraction.                                        *)
Up(f) == f.frac * Pow2[IF f.exp > 0 THEN f.exp ELSE 0]
Down(f) == Pow2[IF f.exp < 0 THEN -f.exp ELSE 0]

LEMMA UpAndDown ==
  ASSUME NEW f, f.frac \in Pos, f.exp \in Int
  PROVE  /\ Up(f) \in Pos /\ Down(f) \in Pos
         /\ f.exp >= 0 => Up(f) = f.frac * Pow2[f.exp] /\ Down(f) = 1
         /\ f.exp <= 0 => Up(f) = f.frac /\ Down(f) = Pow2[-f.exp]
         /\ Shift(Int2Rat(f.frac), f.exp) \in Positive
         /\ SameAs(Shift(Int2Rat(f.frac), f.exp), Up(f), Down(f))
<1> DEFINE n == f.frac
           e == f.exp
           s == Shift(Int2Rat(n), e)
<1>1. n \in Pos /\ n \in Nat /\ e \in Int /\ Pow2[0] = 1
  BY Pow2Next DEF Pos
<1>2. /\ Up(f) = n * Pow2[IF e > 0 THEN e ELSE 0]
      /\ Down(f) = Pow2[IF e < 0 THEN -e ELSE 0]
  BY DEF Up, Down
<1>3. /\ s \in Positive
      /\ e >= 0 => s[1] * 1 = s[2] * (n * Pow2[e])
      /\ e < 0 => s[1] * (1 * Pow2[-e]) = s[2] * n
  <2>1. Int2Rat(n) \in Positive /\ Int2Rat(n)[1] = n /\ Int2Rat(n)[2] = 1
    BY <1>1, IntegersPositive DEF Int2Rat
  <2> DEFINE y == Int2Rat(n)
  <2>2. s = Shift(y, e)
    OBVIOUS
  <2> HIDE DEF n, e, y, s
  <2>3. /\ Shift(y, e) \in Positive
        /\ e >= 0 => Shift(y, e)[1] * y[2] = Shift(y, e)[2] * (y[1] * Pow2[e])
        /\ e < 0 => Shift(y, e)[1] * (y[2] * Pow2[-e]) = Shift(y, e)[2] * y[1]
    BY <2>1, <1>1, ShiftExact DEF y
  <2>4. y[1] = n /\ y[2] = 1
    BY <2>1 DEF y
  <2> QED BY <2>2, <2>3, <2>4
<1> HIDE DEF n, e, s
<1>4. CASE e > 0
  <2>1. Pow2[e] \in Pos
    BY <1>1, <1>4, Pow2Positive DEF Pos
  <2>2. Up(f) = n * Pow2[e] /\ Down(f) = 1
    BY <1>1, <1>2, <1>4
  <2>3. n * Pow2[e] \in Pos
    BY <1>1, <2>1, PosProduct
  <2> QED BY <1>1, <1>3, <1>4, <2>2, <2>3 DEF n, e, s, SameAs, Pos
<1>5. CASE e < 0
  <2>1. Pow2[-e] \in Pos /\ Pow2[-e] \in Nat
    BY <1>1, <1>5, Pow2Positive DEF Pos
  <2>2. Up(f) = n /\ Down(f) = Pow2[-e]
    BY <1>1, <1>2, <1>5
  <2>3. 1 * Pow2[-e] = Pow2[-e]
    BY <2>1
  <2> QED BY <1>1, <1>3, <1>5, <2>1, <2>2, <2>3 DEF n, e, s, SameAs
<1>6. CASE e = 0
  <2>1. Up(f) = n /\ Down(f) = 1 /\ n * Pow2[e] = n /\ Pow2[-e] = 1
    BY <1>1, <1>2, <1>6
  <2> QED BY <1>1, <1>3, <1>6, <2>1 DEF n, e, s, SameAs, Pos
<1> QED BY <1>1, <1>4, <1>5, <1>6

LEMMA OnePartMore ==
  ASSUME NEW u \in Nat, NEW a \in Nat, NEW P \in Nat
  PROVE  /\ u <= a * P + a => u <= a * (P + 1)
         /\ a * P \in Nat
OBVIOUS

LEMMA MantissaOf ==
  ASSUME NEW number \in Positive, NEW bits \in Int, NEW k \in Nat, NEW s, NEW f,
         s = Shift(number, k - Log2(number)), s[2] = 1 \/ k = Larger(bits - 2, 0),
         f = [frac |-> Smaller(RoundHalfEven(s), Larger(get_range(bits), 1)),
              exp |-> Log2(number) - k]
  PROVE  /\ f.frac \in Nat
         /\ (f.frac * s[2]) * Pow2[Larger(bits - 1, 2)] <= s[1] * (Pow2[Larger(bits - 1, 2)] + 1)
         /\ \A m \in Nat : s[1] < m * s[2] => f.frac <= m
<1> DEFINE r == RoundHalfEven(s)
           alpha == Larger(get_range(bits), 1)
           a == s[1]
           b == s[2]
           n == f.frac
           j == Larger(bits - 1, 2)
           P == Pow2[j]
<1>1. /\ s \in Positive /\ Pow2[k] * b <= a
  BY NormalisedAtLeast
<1>2. /\ r \in Nat /\ 2 * (r * b) <= 2 * a + b
      /\ b = 1 => r = a
      /\ \A m \in Nat : a < m * b => r <= m
  BY <1>1, RoundedUp
<1>3. alpha \in Nat /\ a \in Nat /\ b \in Nat /\ b # 0
  BY <1>1, RangeIsNat DEF Larger, Positive, Pos
<1>4. n = Smaller(r, alpha)
  OBVIOUS
<1>5. j \in Nat /\ P \in Nat /\ P # 0
  <2>1. j \in Nat
    BY DEF Larger
  <2> HIDE DEF j
  <2> QED BY <2>1, Pow2Positive
<1>6. n \in Nat /\ n <= r /\ n <= alpha
  <2> HIDE DEF r, alpha, n
  <2> QED BY <1>2, <1>3, <1>4 DEF Smaller
<1>7. (n * b) * P <= a * (P + 1)
  <2>1. n * b <= r * b
    <3> HIDE DEF n, r, b
    <3> QED BY <1>2, <1>3, <1>6
  <2>2. CASE b = 1
    <3>1. n <= a
      BY <2>2, <1>2, <1>6
    <3>2. n * P <= a * P /\ n * P \in Nat /\ a * P \in Nat
      <4> HIDE DEF n, a, P
      <4> QED BY <3>1, <1>3, <1>5, <1>6
    <3>3. n * b = n
      BY <2>2, <1>6
    <3> HIDE DEF n, a, b, P
    <3>4. n * P <= a * P + a
      BY <3>2, <1>3
    <3>5. n * P <= a * (P + 1)
      BY <3>2, <3>4, <1>3, <1>5, OnePartMore
    <3> QED BY <3>3, <3>5
  <2>3. CASE b # 1 /\ bits >= 3
    <3>1. k = bits - 2 /\ j = k + 1
      BY <2>3 DEF Larger
    <3>2. P = 2 * Pow2[k] /\ Pow2[k] \in Nat
      <4> HIDE DEF j
      <4> QED BY <3>1, Pow2Next
    <3> DEFINE Q == Pow2[k]
    <3>3. Q \in Nat /\ P = 2 * Q /\ Q * b <= a
      BY <3>2, <1>1
    <3> HIDE DEF Q, P, n, a, b, r
    <3>4. (n * b) * P = 2 * ((n * b) * Q)
      BY <1>3, <1>6, <3>3
    <3>5. (2 * (n * b)) * Q <= (2 * a + b) * Q
      <4>1. n * b \in Nat /\ r * b \in Nat /\ 2 * (n * b) <= 2 * a + b
        BY <2>1, <1>2, <1>3, <1>6
      <4> DEFINE u == 2 * (n * b)
                 w == 2 * a + b
      <4>2. u \in Nat /\ w \in Nat /\ u <= w
        BY <4>1, <1>3
      <4> HIDE DEF u, w
      <4>3. u * Q <= w * Q
        BY <4>2, <3>3
      <4> QED BY <4>3 DEF u, w
    <3>6. (2 * (n * b)) * Q = 2 * ((n * b) * Q) /\ (2 * a + b) * Q = a * P + Q * b
      BY <1>3, <1>6, <3>3
    <3>7. a * (P + 1) = a * P + a /\ a * P \in Nat
      BY <1>3, <1>5
    <3> QED BY <1>3, <1>6, <3>3, <3>4, <3>5, <3>6, <3>7
  <2>4. CASE bits < 3
    <3>1. alpha = 1
      <4>1. get_range(bits) \in Nat /\ get_range(bits) <= get_range(2)
        BY <2>4, RangeIsNat, RangeOrdered
      <4>2. get_range(2) = 1
        <5>1. Pow2[0] = 1 /\ Pow2[1] = 2
          BY Pow2Equation
        <5> QED BY <5>1 DEF get_range
      <4> QED BY <4>1, <4>2 DEF Larger
    <3>2. b <= a
      <4>1. Pow2[k] \in Nat \ {0}
        BY Pow2Positive
      <4> DEFINE Q == Pow2[k]
      <4>2. Q \in Nat /\ Q # 0 /\ Q * b <= a
        BY <4>1, <1>1
      <4> HIDE DEF Q, a, b
      <4>3. b <= Q * b /\ Q * b \in Nat
        BY <4>2, <1>3
      <4> QED BY <4>2, <4>3, <1>3
    <3> HIDE DEF n, a, b, P, alpha, r
    <3>3. n * b <= a /\ n * b \in Nat
      <4>1. n = 0 \/ n = 1
        BY <3>1, <1>6
      <4> QED BY <4>1, <3>2, <1>3
    <3>4. (n * b) * P <= a * P /\ (n * b) * P \in Nat /\ a * P \in Nat
      <4> DEFINE u == n * b
      <4>1. u \in Nat /\ u <= a
        BY <3>3
      <4> HIDE DEF u
      <4>2. u * P <= a * P /\ u * P \in Nat /\ a * P \in Nat
        BY <4>1, <1>3, <1>5
      <4> QED BY <4>2 DEF u
    <3>5. (n * b) * P <= a * P + a
      BY <3>4, <1>3
    <3> QED BY <3>4, <3>5, <1>3, <1>5, OnePartMore
  <2> QED BY <2>2, <2>3, <2>4
<1>8. ASSUME NEW m \in Nat, a < m * b PROVE n <= m
  <2>1. r <= m
    BY <1>2, <1>8
  <2> HIDE DEF n, r
  <2> QED BY <2>1, <1>2, <1>6
<1> QED BY <1>6, <1>7, <1>8

(* The multiplier a mantissa stands for exceeds the number by one part in  *)
(* 2^(bits-1) at most, and two at most if the number is less than two.     *)
LEMMA MantissaExact ==
  ASSUME NEW number \in Positive, NEW bits \in Int, NEW f, f = cvm_float(number, bits),
         NEW n \in Nat, NEW d \in Pos, SameAs(number, n, d),
         NEW P, P = Pow2[Larger(bits - 1, 2)]
  PROVE  /\ f.frac \in Pos /\ f.exp \in Int
         /\ P \in Pos
         /\ (Up(f) * d) * P <= (n * Down(f)) * (P + 1)
         /\ n < 2 * d => Up(f) <= 2 * Down(f)
<1> DEFINE e == Log2(number)
<1>1. PICK k \in Nat :
        LET s == Shift(number, k - e)
        IN  /\ cvm_float(number, bits) =
                 [frac |-> Smaller(RoundHalfEven(s), Larger(get_range(bits), 1)),
                  exp |-> e - k]
            /\ s[2] = 1 \/ k = Larger(bits - 2, 0)
  BY MantissaForm
<1> DEFINE s == Shift(number, k - e)
           a == s[1]
           b == s[2]
           g == f.frac
           x == f.exp
           n1 == number[1]
           d1 == number[2]
<1>2. g \in Pos /\ x \in Int /\ g \in Nat
  BY MantissaPositive DEF Pos
<1>3. /\ (g * b) * P <= a * (P + 1)
      /\ \A m \in Nat : a < m * b => g <= m
      /\ x = e - k
  <2>1. f = [frac |-> Smaller(RoundHalfEven(s), Larger(get_range(bits), 1)), exp |-> e - k]
    BY <1>1
  <2>2. s[2] = 1 \/ k = Larger(bits - 2, 0)
    BY <1>1
  <2>3. f.exp = e - k
    BY <2>1
  <2> HIDE DEF s, e
  <2> QED BY <2>1, <2>2, <2>3, MantissaOf DEF s, e
<1>4. e \in Int /\ (e >= 0 => Pow2[e] * d1 <= n1)
  BY Log2Below
<1>5. /\ s \in Positive
      /\ x <= 0 => a * d1 = b * (n1 * Pow2[-x])
      /\ x > 0 => a * (d1 * Pow2[x]) = b * n1
  <2> DEFINE z == k - e
  <2>1. z \in Int /\ -x = z /\ -z = x /\ (x <= 0 => z >= 0) /\ (x > 0 => z < 0)
    BY <1>3, <1>4
  <2>2. s = Shift(number, z)
    OBVIOUS
  <2> HIDE DEF x, e, z, s
  <2>3. /\ s \in Positive
        /\ z >= 0 => a * d1 = b * (n1 * Pow2[z])
        /\ z < 0 => a * (d1 * Pow2[-z]) = b * n1
    BY <2>1, <2>2, ShiftExact
  <2> QED BY <2>1, <2>3
<1>6. P \in Pos /\ P \in Nat
  <2>1. Larger(bits - 1, 2) \in Nat
    BY DEF Larger
  <2> QED BY <2>1, Pow2Positive DEF Pos
<1>7. /\ a \in Nat /\ b \in Pos /\ b \in Nat /\ n1 \in Nat /\ d1 \in Pos /\ d1 \in Nat
      /\ d \in Nat /\ n1 * d = d1 * n
  <2>1. s \in Positive
    BY <1>5
  <2> HIDE DEF s
  <2> QED BY <2>1 DEF Positive, Pos, SameAs
<1>8. /\ Up(f) \in Pos /\ Down(f) \in Pos /\ Up(f) \in Nat /\ Down(f) \in Nat
      /\ x >= 0 => Up(f) = g * Pow2[x] /\ Down(f) = 1
      /\ x <= 0 => Up(f) = g /\ Down(f) = Pow2[-x]
  BY <1>2, UpAndDown DEF Pos
<1> HIDE DEF e, s, a, b, g, x, n1, d1
<1> DEFINE A == Up(f)
           B == Down(f)
<1>9. (A * d1) * P <= (n1 * B) * (P + 1)
  <2>1. CASE x > 0
    <3> DEFINE q == Pow2[x]
    <3>1. q \in Pos /\ q \in Nat /\ A = g * q /\ B = 1 /\ a * (d1 * q) = b * n1
      BY <2>1, <1>2, <1>5, <1>8, Pow2Positive DEF Pos
    <3> HIDE DEF q, A, B
    <3>2. ((A * d1) * P) * b = ((g * b) * P) * (d1 * q)
      BY <3>1, <1>2, <1>6, <1>7
    <3>3. ((g * b) * P) * (d1 * q) <= (a * (P + 1)) * (d1 * q)
      <4> DEFINE u == (g * b) * P
                 w == a * (P + 1)
      <4>1. u \in Nat /\ w \in Nat /\ u <= w
        BY <1>2, <1>3, <1>6, <1>7
      <4>2. d1 * q \in Pos
        BY <3>1, <1>7, PosProduct
      <4> HIDE DEF u, w
      <4>3. u * (d1 * q) <= w * (d1 * q)
        BY <4>1, <4>2, Cancelled
      <4> QED BY <4>3 DEF u, w
    <3>4. (a * (P + 1)) * (d1 * q) = ((n1 * B) * (P + 1)) * b
      <4>1. (a * (P + 1)) * (d1 * q) = (a * (d1 * q)) * (P + 1)
        BY <3>1, <1>6, <1>7
      <4>2. (b * n1) * (P + 1) = ((n1 * B) * (P + 1)) * b
        BY <3>1, <1>6, <1>7
      <4> QED BY <4>1, <4>2, <3>1
    <3>5. ((A * d1) * P) * b <= ((n1 * B) * (P + 1)) * b
      BY <3>2, <3>3, <3>4
    <3>6. (A * d1) * P \in Nat /\ (n1 * B) * (P + 1) \in Nat
      BY <1>6, <1>7, <1>8 DEF A, B
    <3> DEFINE u == (A * d1) * P
               w == (n1 * B) * (P + 1)
    <3>7. u \in Nat /\ w \in Nat /\ u * b <= w * b
      BY <3>5, <3>6
    <3> HIDE DEF u, w
    <3>8. u <= w
      BY <3>7, <1>7, Cancelled
    <3> QED BY <3>8 DEF u, w
  <2>2. CASE x <= 0
    <3> DEFINE q == Pow2[-x]
    <3>1. A = g /\ B = q /\ q \in Nat /\ a * d1 = b * (n1 * q)
      BY <2>2, <1>2, <1>5, <1>8
    <3> HIDE DEF q, A, B
    <3>2. ((A * d1) * P) * b = ((g * b) * P) * d1
      BY <3>1, <1>2, <1>6, <1>7
    <3>3. ((g * b) * P) * d1 <= (a * (P + 1)) * d1
      <4>1. (g * b) * P \in Nat /\ a * (P + 1) \in Nat
        BY <1>2, <1>6, <1>7
      <4> QED BY <4>1, <1>3, <1>7, Cancelled
    <3>4. (a * (P + 1)) * d1 = ((n1 * B) * (P + 1)) * b
      <4>1. (a * (P + 1)) * d1 = (a * d1) * (P + 1)
        BY <1>6, <1>7
      <4>2. (b * (n1 * q)) * (P + 1) = ((n1 * B) * (P + 1)) * b
        BY <3>1, <1>6, <1>7
      <4> QED BY <4>1, <4>2, <3>1
    <3>5. ((A * d1) * P) * b <= ((n1 * B) * (P + 1)) * b
      BY <3>2, <3>3, <3>4
    <3>6. (A * d1) * P \in Nat /\ (n1 * B) * (P + 1) \in Nat
      BY <1>6, <1>7, <1>8 DEF A, B
    <3> DEFINE u == (A * d1) * P
               w == (n1 * B) * (P + 1)
    <3>7. u \in Nat /\ w \in Nat /\ u * b <= w * b
      BY <3>5, <3>6
    <3> HIDE DEF u, w
    <3>8. u <= w
      BY <3>7, <1>7, Cancelled
    <3> QED BY <3>8 DEF u, w
  <2> QED BY <2>1, <2>2, <1>2 DEF x
<1>10. (A * d) * P <= (n * B) * (P + 1)
  <2>1. A \in Nat /\ B \in Nat
    BY <1>8
  <2> HIDE DEF A, B
  <2>2. ((A * d1) * P) * d <= ((n1 * B) * (P + 1)) * d
    <3>1. (A * d1) * P \in Nat /\ (n1 * B) * (P + 1) \in Nat
      BY <2>1, <1>6, <1>7
    <3> QED BY <3>1, <1>9, Cancelled
  <2>3. ((A * d1) * P) * d = ((A * d) * P) * d1
    BY <2>1, <1>6, <1>7
  <2>4. ((n1 * B) * (P + 1)) * d = ((n * B) * (P + 1)) * d1
    <3>1. ((n1 * B) * (P + 1)) * d = (n1 * d) * (B * (P + 1))
      BY <2>1, <1>6, <1>7
    <3>2. (d1 * n) * (B * (P + 1)) = ((n * B) * (P + 1)) * d1
      BY <2>1, <1>6, <1>7
    <3> QED BY <3>1, <3>2, <1>7
  <2>5. (A * d) * P \in Nat /\ (n * B) * (P + 1) \in Nat
    BY <2>1, <1>6, <1>7
  <2> DEFINE u == (A * d) * P
             w == (n * B) * (P + 1)
  <2>6. u \in Nat /\ w \in Nat /\ u * d1 <= w * d1
    BY <2>2, <2>3, <2>4, <2>5
  <2> HIDE DEF u, w
  <2>7. u <= w
    BY <2>6, <1>7, Cancelled
  <2> QED BY <2>7 DEF u, w
<1>11. ASSUME n < 2 * d PROVE A <= 2 * B
  <2>1. n1 < 2 * d1
    <3>1. n * d1 < (2 * d) * d1
      <4> DEFINE u == 2 * d
      <4>1. u \in Nat /\ n < u /\ d1 > 0
        BY <1>7, <1>11 DEF Pos
      <4> HIDE DEF u
      <4>2. n * d1 < u * d1
        BY <4>1, <1>7
      <4> QED BY <4>2 DEF u
    <3>2. n * d1 = n1 * d /\ (2 * d) * d1 = (2 * d1) * d
      BY <1>7
    <3>3. 2 * d1 \in Nat
      BY <1>7
    <3> QED BY <3>1, <3>2, <3>3, <1>7, Cancelled
  <2>2. e <= 0
    <3> SUFFICES ASSUME e >= 1 PROVE FALSE
      BY <1>4
    <3>1. Pow2[e] * d1 <= n1 /\ Pow2[e] \in Nat /\ Pow2[e] >= 2
      <4>1. e \in Nat /\ e - 1 \in Nat /\ e - 1 + 1 = e
        BY <1>4
      <4>2. Pow2[e] = 2 * Pow2[e - 1] /\ Pow2[e - 1] \in Nat \ {0}
        BY <4>1, Pow2Next, Pow2Positive
      <4> QED BY <4>1, <4>2, <1>4
    <3> DEFINE q == Pow2[e]
    <3>2. q * d1 <= n1 /\ q \in Nat /\ q >= 2
      BY <3>1
    <3> HIDE DEF q
    <3>3. 2 * d1 <= q * d1 /\ q * d1 \in Nat
      BY <3>2, <1>7
    <3> QED BY <2>1, <3>2, <3>3, <1>7
  <2>3. x <= 0 /\ -x \in Nat /\ x \in Int
    BY <2>2, <1>3, <1>4
  <2> DEFINE q == Pow2[-x]
  <2>4. q \in Nat /\ q # 0 /\ A = g /\ B = q /\ a * d1 = b * (n1 * q)
    BY <2>3, <1>5, <1>8, Pow2Positive
  <2> HIDE DEF q, A, B
  <2>5. a < (2 * q) * b
    <3>1. n1 * q < (2 * d1) * q
      <4> DEFINE u == 2 * d1
      <4>1. u \in Nat /\ n1 < u
        BY <2>1, <1>7
      <4> HIDE DEF u
      <4>2. n1 * q < u * q
        BY <4>1, <2>4, <1>7
      <4> QED BY <4>2 DEF u
    <3>2. (n1 * q) * b < ((2 * d1) * q) * b
      <4> DEFINE u == n1 * q
                 w == (2 * d1) * q
      <4>1. u \in Nat /\ w \in Nat /\ u < w /\ b > 0
        BY <3>1, <2>4, <1>7 DEF Pos
      <4> HIDE DEF u, w
      <4>2. u * b < w * b
        BY <4>1, <1>7
      <4> QED BY <4>2 DEF u, w
    <3>3. (n1 * q) * b = a * d1 /\ ((2 * d1) * q) * b = ((2 * q) * b) * d1
      BY <2>4, <1>7
    <3>4. (2 * q) * b \in Nat
      BY <2>4, <1>7
    <3> QED BY <3>2, <3>3, <3>4, <1>7, Cancelled
  <2>6. 2 * q \in Nat
    BY <2>4
  <2> QED BY <2>4, <2>5, <2>6, <1>3
<1> QED BY <1>2, <1>6, <1>10, <1>11 DEF g, x

-----------------------------------------------------------------------------
(* What the emitted shifts keep.                                           *)

LEMMA ShiftedKeeps ==
  ASSUME NEW b \in Nat, NEW sb \in Pos, NEW w \in Nat, w * Pow2[sb] <= b
  PROVE  ShiftedRight(b, sb) \in Nat /\ w <= ShiftedRight(b, sb)
<1> DEFINE h == Pow2[sb - 1]
           u == IF sb > 1 THEN b \div h ELSE b
<1>1. sb - 1 \in Nat /\ sb = (sb - 1) + 1 /\ sb \in Nat
  BY DEF Pos
<1>2. h \in Nat /\ h \in Pos /\ Pow2[sb] = 2 * h /\ (sb = 1 => h = 1)
  BY <1>1, Pow2Next, Pow2Positive DEF Pos
<1>3. w * (2 * h) <= b
  BY <1>2
<1>4. ShiftedRight(b, sb) = (u + 1) \div 2
  BY DEF ShiftedRight
<1>5. u \in Nat /\ 2 * w <= u
  <2>1. CASE sb > 1
    <3>1. u = b \div h
      BY <2>1
    <3> HIDE DEF h, u
    <3>2. u \in Nat /\ b < u * h + h
      BY <3>1, <1>2, Division, DivisionOfNat
    <3>3. (2 * w) * h < (u + 1) * h /\ 2 * w \in Nat /\ u + 1 \in Nat
      BY <3>2, <1>2, <1>3
    <3>4. 2 * w < u + 1
      BY <3>3, <1>2, Cancelled
    <3> QED BY <3>2, <3>4
  <2>2. CASE sb = 1
    <3>1. u = b /\ h = 1
      BY <2>2, <1>2
    <3> HIDE DEF h, u
    <3> QED BY <3>1, <1>3
  <2> QED BY <2>1, <2>2, <1>1
<1> HIDE DEF u
<1>6. (u + 1) \div 2 \in Nat /\ w <= (u + 1) \div 2
  BY <1>5
<1> QED BY <1>4, <1>6

LEMMA RightShiftKeeps ==
  ASSUME NEW X, X.bound \in Nat, NEW sb \in Pos, NEW prec \in Int,
         NEW w \in Nat, w * Pow2[sb] <= X.bound
  PROVE  LET y == realize(X, sb, prec).bound
         IN  w <= y \/ y = get_range(prec)
<1> DEFINE up == ShiftedRight(X.bound, sb)
           down == Magnitude(ShiftedRight(-X.bound, sb))
           R == get_range(prec)
<1>1. up \in Nat /\ w <= up
  BY ShiftedKeeps
<1>2. realize(X, sb, prec).bound = Smaller(Larger(up, down), R)
  <2>1. sb # 0 /\ ~(sb < 0)
    BY DEF Pos
  <2> HIDE DEF R
  <2> QED BY <2>1 DEF realize, cvm_right_shift, Sym, R
<1>3. R \in Nat
  BY RangeIsNat
<1>4. down \in Nat
  <2>1. Pow2[sb - 1] \in Pos /\ sb \in Nat /\ -X.bound \in Int
    BY Pow2Positive DEF Pos
  <2>2. (-X.bound) \div Pow2[sb - 1] \in Int
    BY <2>1, Division
  <2>3. ShiftedRight(-X.bound, sb) \in Int
    BY <2>1, <2>2 DEF ShiftedRight
  <2> QED BY <2>3 DEF Magnitude
<1> HIDE DEF up, down, R
<1>5. w <= Smaller(Larger(up, down), R) \/ Smaller(Larger(up, down), R) = R
  BY <1>1, <1>3, <1>4 DEF Smaller, Larger
<1> QED BY <1>2, <1>5 DEF R

(* Rescaled, w units are kept, or the operator is clipped to its precision.*)
LEMMA RescaleKeeps ==
  ASSUME NEW X, X.bound \in Nat, NEW f, f.frac \in Pos, f.exp \in Int, NEW prec \in Int,
         NEW w \in Nat, w * Down(f) <= X.bound * Up(f)
  PROVE  LET y == Rescale(X, f, prec).bound
         IN  w <= y \/ y = get_range(prec)
<1> DEFINE Y == IF f.frac > 1 THEN ByMantissa(X, f.frac) ELSE X
           e == f.exp
           R == get_range(prec)
<1>1. Y.bound = X.bound * f.frac /\ Y.bound \in Nat
  BY DEF ByMantissa, Sym, Pos
<1>2. Rescale(X, f, prec) = realize(Y, -e, prec)
  BY DEF Rescale
<1>3. /\ e >= 0 => Up(f) = f.frac * Pow2[e] /\ Down(f) = 1
      /\ e <= 0 => Up(f) = f.frac /\ Down(f) = Pow2[-e]
  BY UpAndDown
<1>4. R \in Nat /\ f.frac \in Nat
  BY RangeIsNat DEF Pos
<1> HIDE DEF Y, e, R
<1>5. CASE e = 0
  <2>0. -e = 0
    <3>1. e \in Int /\ e <= 0 /\ e >= 0
      BY <1>5 DEF e
    <3> QED BY <3>1
  <2>1. realize(Y, -e, prec).bound = Smaller(Y.bound, R)
    BY <2>0 DEF realize, cvm_clip, Sym, R
  <2>2. w <= Y.bound
    <3>1. Up(f) = f.frac /\ Down(f) = 1
      BY <1>3, <1>5, Pow2Next
    <3> QED BY <3>1, <1>1
  <2> QED BY <2>1, <2>2, <1>1, <1>2, <1>4 DEF Smaller, R
<1>6. CASE e > 0
  <2>0. e \in Nat /\ -e # 0 /\ -e < 0 /\ -(-e) = e
    BY <1>6 DEF e
  <2>1. realize(Y, -e, prec).bound = Smaller(Y.bound * Pow2[e], R)
    BY <2>0 DEF realize, cvm_left_shift, Sym, R
  <2>2. Pow2[e] \in Nat /\ Up(f) = f.frac * Pow2[e] /\ Down(f) = 1
    BY <2>0, <1>3, <1>6, Pow2Next
  <2> DEFINE q == Pow2[e]
             z == Y.bound * q
  <2>3. z \in Nat /\ w <= z
    <3>1. q \in Nat /\ w * 1 <= X.bound * (f.frac * q)
      BY <2>2
    <3> HIDE DEF q
    <3>2. (X.bound * f.frac) * q = X.bound * (f.frac * q)
      BY <3>1, <1>4
    <3>3. w <= (X.bound * f.frac) * q
      BY <3>1, <3>2
    <3> QED BY <3>1, <3>3, <1>1
  <2>4. realize(Y, -e, prec).bound = Smaller(z, R)
    BY <2>1
  <2> HIDE DEF z
  <2> QED BY <2>3, <2>4, <1>2, <1>4 DEF Smaller, R
<1>7. CASE e < 0
  <2>1. -e \in Pos /\ Up(f) = f.frac /\ Down(f) = Pow2[-e]
    BY <1>3, <1>7 DEF e, Pos
  <2>2. w * Pow2[-e] <= Y.bound
    BY <2>1, <1>1
  <2> QED BY <2>1, <2>2, <1>1, <1>2, RightShiftKeeps
<1> QED BY <1>5, <1>6, <1>7 DEF e

(* Surplus bits shifted out, less than one unit of the rest is lost.       *)
LEMMA EarlyShiftKeeps ==
  ASSUME NEW X, NEW p, Honest(X, p), NEW sb \in Pos, NEW v \in Nat, v <= X.bound
  PROVE  LET y == realize(X, sb, p - sb).bound
         IN  v < (y + 1) * Pow2[sb]
<1> DEFINE h == Pow2[sb]
           b == X.bound
           w == v \div h
           y == realize(X, sb, p - sb).bound
           R == get_range(p - sb)
<1>1. /\ p \in Pos /\ p \in Nat /\ b \in Nat /\ sb \in Nat /\ p - sb \in Int /\ sb \in Int
      /\ b <= Pow2[p - 1] - 1 /\ p - 1 \in Nat
  <2>1. p \in Pos /\ b \in Nat /\ sb \in Nat /\ b <= Pow2[p - 1] - 1 /\ p - 1 \in Nat /\ p \in Nat
    BY HonestBound DEF Pos
  <2> QED BY <2>1
<1>2. h \in Pos /\ h \in Nat
  BY <1>1, Pow2Positive DEF Pos
<1>3. w \in Nat /\ w * h <= v /\ v < w * h + h
  <2> HIDE DEF h
  <2> QED BY <1>2, Division, DivisionOfNat
<1>4. w * h <= b
  <2> HIDE DEF w, h, b
  <2>1. w * h \in Nat
    BY <1>2, <1>3
  <2> QED BY <2>1, <1>1, <1>3 DEF b
<1>5. y \in Nat /\ (w <= y \/ y = R)
  <2>1. y \in Nat
    BY <1>1, RealizeHonest
  <2>2. w <= y \/ y = R
    <3> HIDE DEF w
    <3> QED BY <1>1, <1>3, <1>4, RightShiftKeeps
  <2> QED BY <2>1, <2>2
<1>6. CASE w <= y
  <2> HIDE DEF w, h, y
  <2>1. w * h <= y * h /\ (y + 1) * h = y * h + h /\ y * h \in Nat /\ w * h \in Nat
    BY <1>2, <1>3, <1>5, <1>6
  <2>2. v < (y + 1) * h
    BY <2>1, <1>2, <1>3
  <2> QED BY <2>2 DEF h, y
<1>7. CASE y = R
  <2>1. b < (R + 1) * h
    <3>1. CASE p - sb >= 1
      <4>1. p - sb - 1 \in Nat /\ p - 1 = (p - sb - 1) + sb /\ R = Pow2[p - sb - 1] - 1
        BY <3>1, <1>1, RangeIsNat
      <4>2. Pow2[p - 1] = Pow2[p - sb - 1] * h /\ Pow2[p - sb - 1] \in Nat
        BY <4>1, <1>1, Pow2Sum, Pow2Next
      <4>3. R + 1 = Pow2[p - sb - 1]
        BY <4>1, <4>2
      <4> DEFINE z == Pow2[p - 1]
      <4>4. z = (R + 1) * h /\ z \in Nat /\ b <= z - 1
        BY <4>2, <4>3, <1>1, Pow2Next
      <4> HIDE DEF z, b, R, h
      <4> QED BY <4>4, <1>1
    <3>2. CASE p - sb < 1
      <4>1. p - 1 <= sb
        BY <3>2, <1>1 DEF Pos
      <4>2. Pow2[p - 1] <= h /\ Pow2[p - 1] \in Nat
        BY <4>1, <1>1, Pow2Ordered, Pow2Next
      <4>3. R \in Nat
        BY <1>1, RangeIsNat
      <4> DEFINE z == Pow2[p - 1]
      <4>4. z <= h /\ z \in Nat /\ b <= z - 1
        BY <4>2, <1>1
      <4> HIDE DEF z, b, R, h
      <4>5. h <= (R + 1) * h
        BY <4>3, <1>2
      <4>6. (R + 1) * h \in Nat
        BY <4>3, <1>2
      <4> QED BY <4>4, <4>5, <4>6, <1>1, <1>2
    <3> QED BY <3>1, <3>2, <1>1
  <2> HIDE DEF b, R, h, y
  <2>2. (R + 1) * h \in Nat
    BY <1>2, <1>5, <1>7
  <2>3. v < (R + 1) * h
    BY <2>1, <2>2, <1>1 DEF b
  <2> QED BY <2>3, <1>7 DEF h, y
<1> QED BY <1>5, <1>6, <1>7

-----------------------------------------------------------------------------
(* Requantising keeps the threshold.                                       *)

(* A clip to the range of the threshold cuts off only what the mantissa    *)
(* errs by: v units at a scale of c/d are no more than t, and p/q, the     *)
(* scale asked for, brings t into R units.                                 *)
LEMMA Unsaturated ==
  ASSUME NEW i \in Nat, NEW v \in Nat, NEW A \in Pos, NEW B \in Pos, NEW G \in Pos,
         NEW c \in Pos, NEW d \in Pos, NEW p \in Pos, NEW q \in Pos, NEW P \in Pos,
         NEW t \in Nat, NEW R \in Nat,
         i * (B * G) <= v * A, (A * (q * c)) * P <= ((p * (d * G)) * B) * (P + 1),
         v * d <= t * c, p * t <= R * q
  PROVE  i * P <= R * (P + 1)
<1>1. /\ A \in Nat /\ B \in Nat /\ G \in Nat /\ c \in Nat /\ d \in Nat /\ p \in Nat
      /\ q \in Nat /\ P \in Nat /\ P + 1 \in Pos
  BY DEF Pos
<1>2. (i * (B * G)) * ((q * c) * P) <= (v * A) * ((q * c) * P)
  <2>1. i * (B * G) \in Nat /\ v * A \in Nat /\ (q * c) * P \in Pos
    BY <1>1, PosProduct
  <2> QED BY <2>1, Cancelled
<1>3. (v * A) * ((q * c) * P) = ((A * (q * c)) * P) * v
  BY <1>1
<1>4. ((A * (q * c)) * P) * v <= (((p * (d * G)) * B) * (P + 1)) * v
  <2> DEFINE u == (A * (q * c)) * P
             w == ((p * (d * G)) * B) * (P + 1)
  <2>1. u \in Nat /\ w \in Nat /\ u <= w
    BY <1>1
  <2> HIDE DEF u, w
  <2>2. u * v <= w * v
    BY <2>1
  <2> QED BY <2>2 DEF u, w
<1>5. (((p * (d * G)) * B) * (P + 1)) * v = (((v * d) * p) * (P + 1)) * (B * G)
  BY <1>1
<1>6. (i * (B * G)) * ((q * c) * P) = ((i * P) * (q * c)) * (B * G)
  BY <1>1
<1>7. (i * P) * (q * c) <= ((v * d) * p) * (P + 1)
  <2> DEFINE u == (i * P) * (q * c)
             w == ((v * d) * p) * (P + 1)
  <2>1. u \in Nat /\ w \in Nat /\ B * G \in Pos
    BY <1>1, PosProduct
  <2>2. u * (B * G) <= w * (B * G)
    <3>1. u * (B * G) \in Nat /\ w * (B * G) \in Nat /\ (v * A) * ((q * c) * P) \in Nat
      BY <1>1
    <3> QED BY <3>1, <1>2, <1>3, <1>4, <1>5, <1>6
  <2> HIDE DEF u, w
  <2>3. u <= w
    BY <2>1, <2>2, Cancelled
  <2> QED BY <2>3 DEF u, w
<1>8. ((v * d) * p) * (P + 1) <= ((t * c) * p) * (P + 1)
  <2> DEFINE u == v * d
             w == t * c
  <2>1. u \in Nat /\ w \in Nat /\ u <= w /\ p * (P + 1) \in Pos
    BY <1>1, PosProduct
  <2> HIDE DEF u, w
  <2>2. u * (p * (P + 1)) <= w * (p * (P + 1))
    BY <2>1, Cancelled
  <2>3. (u * p) * (P + 1) = u * (p * (P + 1)) /\ (w * p) * (P + 1) = w * (p * (P + 1))
    BY <2>1, <1>1
  <2>4. (u * p) * (P + 1) <= (w * p) * (P + 1)
    BY <2>2, <2>3
  <2> QED BY <2>4 DEF u, w
<1>9. ((t * c) * p) * (P + 1) = (p * t) * (c * (P + 1))
  BY <1>1
<1>10. (p * t) * (c * (P + 1)) <= (R * q) * (c * (P + 1))
  <2>1. p * t \in Nat /\ R * q \in Nat /\ c * (P + 1) \in Pos
    BY <1>1, PosProduct
  <2> QED BY <2>1, Cancelled
<1>11. (R * q) * (c * (P + 1)) = (R * (P + 1)) * (q * c)
  BY <1>1
<1>12. (i * P) * (q * c) <= (R * (P + 1)) * (q * c)
  <2>1. /\ (i * P) * (q * c) \in Nat /\ ((v * d) * p) * (P + 1) \in Nat
        /\ (p * t) * (c * (P + 1)) \in Nat /\ (R * (P + 1)) * (q * c) \in Nat
    BY <1>1
  <2> DEFINE u == (i * P) * (q * c)
             a == ((v * d) * p) * (P + 1)
             b == (p * t) * (c * (P + 1))
             w == (R * (P + 1)) * (q * c)
  <2>2. u \in Nat /\ a \in Nat /\ b \in Nat /\ w \in Nat
    BY <2>1
  <2>3. u <= a /\ a <= b /\ b <= w
    BY <1>7, <1>8, <1>9, <1>10, <1>11
  <2> HIDE DEF u, a, b, w
  <2>4. u <= w
    BY <2>2, <2>3
  <2> QED BY <2>4 DEF u, w
<1>13. i * P \in Nat /\ R * (P + 1) \in Nat /\ q * c \in Pos
  BY <1>1, PosProduct
<1> QED BY <1>12, <1>13, Cancelled

(* A finer mantissa errs less.                                             *)
LEMMA FinerPart ==
  ASSUME NEW i \in Nat, NEW R \in Nat, NEW j \in Nat, NEW k \in Nat, k <= j,
         i * Pow2[j] <= R * (Pow2[j] + 1)
  PROVE  i * Pow2[k] <= R * (Pow2[k] + 1)
<1> DEFINE P == Pow2[k]
           Q == Pow2[j - k]
<1>1. P \in Nat /\ Q \in Nat \ {0} /\ Pow2[j] = P * Q
  <2> DEFINE m == j - k
  <2>1. m \in Nat /\ k + m = j
    OBVIOUS
  <2>2. P \in Nat
    BY Pow2Next
  <2> HIDE DEF m
  <2>3. Pow2[m] \in Nat \ {0} /\ Pow2[k + m] = Pow2[k] * Pow2[m]
    BY <2>1, Pow2Positive, Pow2Sum
  <2> QED BY <2>1, <2>2, <2>3 DEF m
<1>2. i * (P * Q) <= R * (P * Q + 1)
  BY <1>1
<1> HIDE DEF P, Q
<1>3. CASE i <= R
  <2>1. i * P <= R * P /\ i * P \in Nat /\ R * P \in Nat
    BY <1>1, <1>3
  <2>2. i * P <= R * P + R
    BY <2>1
  <2>3. i * P <= R * (P + 1)
    BY <2>1, <2>2, <1>1, OnePartMore
  <2> QED BY <2>3 DEF P
<1>4. CASE i > R
  <2> DEFINE m == i - R
  <2>1. m \in Nat /\ i = R + m
    BY <1>4
  <2> HIDE DEF m
  <2>2. (m * P) * Q <= R
    <3>1. (R + m) * (P * Q) = R * (P * Q) + (m * P) * Q
      BY <2>1, <1>1
    <3>2. R * (P * Q + 1) = R * (P * Q) + R
      BY <1>1
    <3>3. R * (P * Q) \in Nat /\ (m * P) * Q \in Nat
      BY <2>1, <1>1
    <3> QED BY <3>1, <3>2, <3>3, <2>1, <1>2
  <2>3. m * P <= (m * P) * Q /\ m * P \in Nat /\ (m * P) * Q \in Nat
    <3> DEFINE u == m * P
    <3>1. u \in Nat
      BY <2>1, <1>1
    <3> HIDE DEF u
    <3>2. u <= u * Q /\ u * Q \in Nat
      BY <3>1, <1>1
    <3> QED BY <3>1, <3>2 DEF u
  <2>4. m * P <= R
    BY <2>2, <2>3
  <2>5. i * P = R * P + m * P /\ R * P \in Nat /\ i * P \in Nat
    BY <2>1, <1>1
  <2>6. i * P <= R * P + R
    BY <2>3, <2>4, <2>5
  <2>7. i * P <= R * (P + 1)
    BY <2>5, <2>6, <1>1, OnePartMore
  <2> QED BY <2>7 DEF P
<1> QED BY <1>3, <1>4

(* When surplus bits went first, the rest is not even doubled.             *)
LEMMA NotDoubled ==
  ASSUME NEW z \in Fraction, NEW t \in Pos, NEW c \in Pos, NEW d \in Pos,
         SameAs(z, t * c, d),
         NEW default \in Nat, default >= 2, NEW sb \in Pos, default + sb <= get_bit(z),
         NEW p \in Pos, NEW q \in Pos, p * t <= get_range(default) * q
  PROVE  p * (d * Pow2[sb]) < 2 * (q * c)
<1> DEFINE C == Ceil(z)
           G == Pow2[sb]
           R == get_range(default)
           M == Pow2[default + sb - 2]
           z1 == z[1]
           z2 == z[2]
<1>1. /\ t \in Nat /\ c \in Nat /\ d \in Nat /\ p \in Nat /\ q \in Nat /\ sb \in Nat
      /\ z1 \in Nat /\ z2 \in Pos /\ z2 \in Nat /\ z1 * d = z2 * (t * c)
  BY DEF Pos, Fraction, SameAs
<1>2. C \in Nat /\ (C - 1) * z2 < z1
  BY CeilBounds
<1>3. M \in Nat /\ M # 0 /\ M <= C
  <2> DEFINE k == get_bit_cnt[C]
             e == default + sb - 2
  <2>1. /\ k \in Nat /\ get_bit(z) = k + 1 /\ (C # 0 => Pow2[k - 1] <= C)
        /\ (C = 0 => k = 0)
    BY <1>2, BitCountBounds DEF get_bit
  <2>2. e \in Nat /\ sb >= 1
    BY <1>1 DEF Pos
  <2>3. e <= k - 1 /\ k - 1 \in Nat /\ k # 0
    <3> HIDE DEF k
    <3> QED BY <2>1, <2>2, <1>1
  <2>4. Pow2[e] <= Pow2[k - 1] /\ Pow2[k - 1] \in Nat /\ Pow2[e] \in Nat \ {0}
    BY <2>2, <2>3, Pow2Ordered, Pow2Next, Pow2Positive
  <2> HIDE DEF k, C, e
  <2>5. Pow2[e] \in Nat /\ Pow2[e] # 0 /\ Pow2[e] <= C
    BY <2>1, <2>3, <2>4, <1>2
  <2> QED BY <2>5 DEF e
<1>4. /\ G \in Pos /\ G \in Nat /\ G >= 2 /\ R \in Nat /\ R * G <= 2 * (M - 1)
  <2>1. sb - 1 \in Nat /\ sb = sb - 1 + 1 /\ default - 1 \in Nat /\ sb \in Nat
    BY DEF Pos
  <2>2. G = 2 * Pow2[sb - 1] /\ Pow2[sb - 1] \in Nat \ {0}
    BY <2>1, Pow2Next, Pow2Positive
  <2>3. R \in Nat /\ R = Pow2[default - 1] - 1 /\ Pow2[default - 1] \in Nat
    BY <2>1, RangeIsNat, Pow2Next
  <2>4. Pow2[default - 1] * G = 2 * M
    <3> DEFINE e == default + sb - 2
    <3>1. e \in Nat /\ e + 1 = (default - 1) + sb
      BY <2>1
    <3>2. Pow2[e + 1] = 2 * Pow2[e]
      BY <3>1, Pow2Next
    <3>3. Pow2[(default - 1) + sb] = Pow2[default - 1] * Pow2[sb]
      BY <2>1, Pow2Sum
    <3>4. Pow2[default - 1] * Pow2[sb] = 2 * Pow2[e]
      <4> HIDE DEF e
      <4> QED BY <3>1, <3>2, <3>3
    <3> QED BY <3>4
  <2> DEFINE h == Pow2[default - 1]
             g == Pow2[sb - 1]
  <2>5. /\ h \in Nat /\ g \in Nat /\ g # 0 /\ G = 2 * g /\ R = h - 1 /\ R \in Nat
        /\ h * G = 2 * M
    BY <2>2, <2>3, <2>4
  <2> HIDE DEF h, g, G, R, M
  <2>6. R * G = h * G - G
    BY <2>5
  <2>7. R * G <= 2 * (M - 1) /\ G \in Nat /\ G >= 2
    BY <2>5, <2>6, <1>3
  <2> QED BY <2>5, <2>7 DEF Pos
<1> HIDE DEF C, G, R, M, z1, z2
<1> DEFINE m == M - 1
<1>5. m \in Nat /\ m * d < t * c
  <2>1. m \in Nat /\ m * z2 < z1
    <3>1. m \in Nat /\ C - 1 \in Nat /\ m <= C - 1
      BY <1>2, <1>3
    <3> DEFINE w == C - 1
    <3>2. w \in Nat /\ m <= w /\ w * z2 < z1 /\ m \in Nat
      BY <3>1, <1>2
    <3> HIDE DEF m, w
    <3>3. m * z2 <= w * z2 /\ m * z2 \in Nat /\ w * z2 \in Nat
      BY <3>2, <1>1
    <3> QED BY <3>2, <3>3, <1>1
  <2> HIDE DEF m
  <2>2. (m * z2) * d < z1 * d
    <3> DEFINE u == m * z2
    <3>1. u \in Nat /\ u < z1 /\ d > 0
      BY <2>1, <1>1 DEF Pos
    <3> HIDE DEF u
    <3>2. u * d < z1 * d
      BY <3>1, <1>1
    <3> QED BY <3>2 DEF u
  <2>3. (m * z2) * d = (m * d) * z2 /\ z1 * d = (t * c) * z2
    BY <2>1, <1>1
  <2> DEFINE u == m * d
             w == t * c
  <2>4. u \in Nat /\ w \in Nat /\ u * z2 < w * z2
    BY <2>1, <2>2, <2>3, <1>1
  <2> HIDE DEF u, w
  <2>5. u < w
    BY <2>4, <1>1, Cancelled
  <2> QED BY <2>1, <2>5 DEF u, w
<1> HIDE DEF m
<1>6. (p * (d * G)) * t = (p * t) * (d * G)
  BY <1>1, <1>4
<1>7. (p * t) * (d * G) <= (R * q) * (d * G)
  <2>1. p * t \in Nat /\ R * q \in Nat /\ d * G \in Pos
    BY <1>1, <1>4, PosProduct
  <2> QED BY <2>1, Cancelled DEF R
<1>8. (R * q) * (d * G) = (R * G) * (q * d)
  BY <1>1, <1>4
<1>9. (R * G) * (q * d) <= (2 * m) * (q * d)
  <2> DEFINE u == R * G
             w == 2 * m
  <2>1. u \in Nat /\ w \in Nat /\ q * d \in Pos
    BY <1>1, <1>4, <1>5, PosProduct
  <2>2. u <= w
    BY <1>4 DEF m
  <2> HIDE DEF u, w
  <2>3. u * (q * d) <= w * (q * d)
    BY <2>1, <2>2, Cancelled
  <2> QED BY <2>3 DEF u, w
<1>10. (2 * m) * (q * d) = (m * d) * (2 * q)
  BY <1>1, <1>5
<1>11. (m * d) * (2 * q) < (t * c) * (2 * q)
  <2> DEFINE u == m * d
             w == t * c
             k == 2 * q
  <2>1. u \in Nat /\ w \in Nat /\ u < w /\ k \in Nat /\ k > 0
    BY <1>1, <1>5 DEF Pos
  <2> HIDE DEF u, w, k
  <2>2. u * k < w * k
    BY <2>1
  <2> QED BY <2>2 DEF u, w, k
<1>12. (t * c) * (2 * q) = (2 * (q * c)) * t
  BY <1>1
<1>13. (p * (d * G)) * t < (2 * (q * c)) * t
  <2> DEFINE a1 == (p * (d * G)) * t
             a2 == (R * q) * (d * G)
             a3 == (2 * m) * (q * d)
             a4 == (2 * (q * c)) * t
  <2>1. a1 \in Nat /\ a2 \in Nat /\ a3 \in Nat /\ a4 \in Nat
    BY <1>1, <1>4, <1>5
  <2>2. a1 <= a2 /\ a2 <= a3 /\ a3 < a4
    BY <1>6, <1>7, <1>8, <1>9, <1>10, <1>11, <1>12
  <2> HIDE DEF a1, a2, a3, a4
  <2>3. a1 < a4
    BY <2>1, <2>2
  <2> QED BY <2>3 DEF a1, a4
<1> DEFINE u == p * (d * G)
           w == 2 * (q * c)
<1>14. u \in Nat /\ w \in Nat /\ u * t < w * t
  BY <1>1, <1>4, <1>13
<1> HIDE DEF u, w
<1>15. u < w
  BY <1>14, Cancelled
<1> QED BY <1>15 DEF u, w, G

(* An operator seen up to s at a recorded threshold t, integers, that      *)
(* declares no more bits than its threshold needs.                         *)
Seen(x) ==
  /\ x.scale \in Positive /\ x.prec \in Pos /\ Honest(x.sym, x.prec) /\ Tight(x)
  /\ \E s, t \in Nat : s <= t /\ x.real = <<s, 1>> /\ x.th = <<t, 1>>

(* What it computes at its threshold, in its own units.                    *)
Units(x) == Smaller(x.sym.bound, Floor(RatMul(x.real, x.scale)))

LEMMA UnitsSeen ==
  ASSUME NEW x, Seen(x), NEW t \in Nat, x.th = <<t, 1>>
  PROVE  /\ Units(x) \in Nat /\ Units(x) <= x.sym.bound
         /\ Units(x) * x.scale[2] <= t * x.scale[1]
<1> DEFINE v == Floor(RatMul(x.real, x.scale))
           c == x.scale[1]
           d == x.scale[2]
           b == x.sym.bound
           u == Units(x)
<1>1. PICK s \in Nat : s <= t /\ x.real = Int2Rat(s)
  BY DEF Seen, Int2Rat
<1>2. c \in Nat /\ d \in Pos /\ d \in Nat /\ x.scale \in Fraction /\ SameAs(x.scale, c, d)
  <2>1. x.scale \in Fraction
    BY PositiveIsFraction DEF Seen
  <2> QED BY <2>1, SameSelf DEF Fraction, Pos
<1>3. v \in Nat /\ v * d <= s * c
  <2> HIDE DEF c, d
  <2> QED BY <1>1, <1>2, FloorAtRate
<1>4. b \in Nat
  BY DEF Seen, Honest
<1>5. u = Smaller(b, v)
  BY DEF Units
<1> HIDE DEF v, b, c, d, u
<1>6. u \in Nat /\ u <= b /\ u <= v
  BY <1>3, <1>4, <1>5 DEF Smaller
<1>7. u * d <= v * d /\ s * c <= t * c
  BY <1>1, <1>2, <1>3, <1>6
<1>8. u * d \in Nat /\ v * d \in Nat /\ s * c \in Nat /\ t * c \in Nat
  BY <1>1, <1>2, <1>3, <1>6
<1>9. u * d <= t * c
  BY <1>3, <1>7, <1>8
<1> QED BY <1>6, <1>9 DEF u, b, c, d

LEMMA KeepsUnits ==
  ASSUME NEW x, NEW y, NEW i, i = Floor(RatMul(Int2Rat(Units(x)), RatDiv(y.scale, x.scale))),
         i <= y.sym.bound + 2 \/ i * MantissaPart(x) <= y.sym.bound * (MantissaPart(x) + 1)
  PROVE  Keeps(x, y)
BY DEF Keeps, Units

(* Used as it is, or with its surplus bits shifted out: G is the power of  *)
(* two that is divided out.                                                *)
LEMMA ShiftedInputKeeps ==
  ASSUME NEW x, Seen(x), NEW X, X.bound \in Nat, NEW prec, NEW iscale \in Positive,
         NEW G \in Pos, SameAs(iscale, x.scale[1], x.scale[2] * G),
         Units(x) < (X.bound + 1) * G
  PROVE  Keeps(x, Requantized(X, prec, iscale))
<1> DEFINE y == Requantized(X, prec, iscale)
           c == x.scale[1]
           d == x.scale[2]
           r == RatDiv(iscale, x.scale)
           v == Units(x)
           i == Floor(RatMul(Int2Rat(v), r))
           b == X.bound
<1>1. x.scale \in Positive /\ c \in Pos /\ d \in Pos /\ c \in Nat /\ d \in Nat /\ G \in Nat
  <2>1. x.scale \in Positive
    BY DEF Seen
  <2> QED BY <2>1 DEF Positive, Pos
<1>2. r \in Positive /\ r \in Fraction
  BY <1>1, ProductsPositive, PositiveIsFraction
<1>3. SameAs(x.scale, c, d)
  BY <1>1, PositiveIsFraction, SameSelf
<1>4. d * G \in Pos
  BY <1>1, PosProduct
<1> HIDE DEF c, d, r
<1>5. SameAs(r, c * d, (d * G) * c)
  BY <1>1, <1>3, <1>4, SameQuotient DEF c, d, r
<1>6. c * d = 1 * (c * d) /\ (d * G) * c = G * (c * d) /\ c * d \in Pos
  BY <1>1, PosProduct
<1>7. SameAs(r, 1, G)
  BY <1>1, <1>2, <1>5, <1>6, SameReduced
<1>8. v \in Nat
  BY UnitsSeen DEF Seen
<1> HIDE DEF v
<1>9. i \in Nat /\ i * G <= v * 1
  BY <1>2, <1>7, <1>8, FloorAtRate
<1> HIDE DEF i
<1>10. i * G < (b + 1) * G
  <2>1. i * G \in Nat /\ (b + 1) * G \in Nat
    BY <1>1, <1>9
  <2> QED BY <2>1, <1>8, <1>9 DEF v
<1>11. i < b + 1
  <2>1. b + 1 \in Nat
    OBVIOUS
  <2> HIDE DEF b
  <2> QED BY <2>1, <1>9, <1>10, Cancelled
<1>12. y.sym.bound = b /\ y.scale = iscale
  BY DEF Requantized
<1>13. i <= y.sym.bound + 2
  BY <1>9, <1>11, <1>12
<1>14. i = Floor(RatMul(Int2Rat(Units(x)), RatDiv(y.scale, x.scale)))
  BY <1>12 DEF i, r, v
<1> HIDE DEF y
<1>15. Keeps(x, y)
  BY <1>13, <1>14, KeepsUnits
<1> QED BY <1>15 DEF y

(* Multiplied by a mantissa: the precision holds the threshold at the      *)
(* scale asked for, or was computed from the scale told.                   *)
LEMMA RescaledInputKeeps ==
  ASSUME NEW x, Seen(x), NEW t \in Nat, x.th = <<t, 1>>,
         NEW X, X.bound \in Nat, NEW prec \in Int, NEW iscale \in Positive,
         NEW G \in Pos, SameAs(iscale, x.scale[1], x.scale[2] * G),
         Units(x) < (X.bound + 1) * G,
         NEW oscale \in Positive,
         G = 1 \/ oscale[1] * (x.scale[2] * G) < 2 * (oscale[2] * x.scale[1]),
         NEW bits \in Int, MAX_BIT - x.prec <= bits,
         NEW f, f = cvm_float(RatDiv(oscale, iscale), bits),
         NEW told, told = RatMul(iscale, Shift(Int2Rat(f.frac), f.exp)),
         \/ oscale[1] * t <= get_range(prec) * oscale[2]
         \/ prec = get_bit(RatMul(told, x.th))
  PROVE  Keeps(x, Requantized(Rescale(X, f, prec), prec, told))
<1> DEFINE Y == Rescale(X, f, prec)
           y == Requantized(Y, prec, told)
           c == x.scale[1]
           d == x.scale[2]
           p == oscale[1]
           q == oscale[2]
           number == RatDiv(oscale, iscale)
           s == Shift(Int2Rat(f.frac), f.exp)
           r == RatDiv(told, x.scale)
           v == Units(x)
           i == Floor(RatMul(Int2Rat(v), r))
           b == X.bound
           A == Up(f)
           B == Down(f)
           R == get_range(prec)
           j == Larger(bits - 1, 2)
           P == Pow2[j]
           k == Larger(MAX_BIT - x.prec - 1, 2)
<1>1. /\ x.scale \in Positive /\ c \in Pos /\ d \in Pos /\ c \in Nat /\ d \in Nat /\ G \in Nat
      /\ p \in Pos /\ q \in Pos /\ p \in Nat /\ q \in Nat
  <2>1. x.scale \in Positive
    BY DEF Seen
  <2> QED BY <2>1 DEF Positive, Pos
<1>2. SameAs(x.scale, c, d) /\ SameAs(oscale, p, q)
  BY <1>1, PositiveIsFraction, SameSelf
<1>3. d * G \in Pos /\ q * c \in Pos /\ d * G \in Nat /\ q * c \in Nat
  <2>1. d * G \in Pos
    BY <1>1, PosProduct
  <2>2. q * c \in Pos
    BY <1>1, PosProduct
  <2> QED BY <2>1, <2>2 DEF Pos
<1>4. number \in Positive
  BY ProductsPositive
<1> HIDE DEF c, d, p, q, number
<1>5. SameAs(number, p * (d * G), q * c)
  BY <1>1, <1>2, <1>3, SameQuotient DEF number, c, d
<1>6. p * (d * G) \in Nat
  BY <1>1, <1>3
<1>7. /\ f.frac \in Pos /\ f.exp \in Int /\ P \in Pos
      /\ (A * (q * c)) * P <= ((p * (d * G)) * B) * (P + 1)
      /\ p * (d * G) < 2 * (q * c) => A <= 2 * B
  <2>1. f = cvm_float(number, bits)
    BY DEF number
  <2> QED BY <1>3, <1>4, <1>5, <1>6, <2>1, MantissaExact
<1>8. /\ A \in Pos /\ B \in Pos /\ A \in Nat /\ B \in Nat
      /\ s \in Positive /\ SameAs(s, A, B)
  BY <1>7, UpAndDown DEF Pos
<1>9. told \in Positive /\ r \in Positive
  BY <1>1, <1>8, ProductsPositive
<1> HIDE DEF A, B, s, r
<1>10. SameAs(told, c * A, (d * G) * B)
  <2>1. SameAs(iscale, c, d * G) /\ iscale \in Fraction /\ s \in Fraction
    BY <1>8, PositiveIsFraction DEF c, d
  <2>2. told = RatMul(iscale, s)
    BY DEF s
  <2> QED BY <1>1, <1>3, <1>8, <2>1, <2>2, SameProduct
<1>11. SameAs(r, (c * A) * d, ((d * G) * B) * c)
  <2>1. c * A \in Nat
    BY <1>1, <1>8
  <2>2. (d * G) * B \in Pos
    BY <1>3, <1>8, PosProduct
  <2> QED BY <1>1, <1>2, <1>9, <1>10, <2>1, <2>2, SameQuotient DEF r
<1>12. SameAs(r, A, B * G)
  <2>1. (c * A) * d = A * (c * d) /\ ((d * G) * B) * c = (B * G) * (c * d)
    BY <1>1, <1>8
  <2>2. c * d \in Pos /\ B * G \in Nat /\ r \in Fraction
    BY <1>1, <1>8, <1>9, PosProduct, PositiveIsFraction
  <2> QED BY <1>8, <1>11, <2>1, <2>2, SameReduced
<1>13. v \in Nat /\ v * d <= t * c /\ v <= x.sym.bound
  BY UnitsSeen DEF c, d
<1>14. i \in Nat /\ i * (B * G) <= v * A
  <2>1. B * G \in Pos /\ r \in Fraction
    BY <1>1, <1>8, <1>9, PosProduct, PositiveIsFraction
  <2> HIDE DEF v
  <2> QED BY <1>8, <1>12, <1>13, <2>1, FloorAtRate
<1>15. R \in Nat /\ b \in Nat
  BY RangeIsNat
<1>16. y.sym.bound = Y.bound /\ y.scale = told
  BY DEF Requantized
<1>17. i = Floor(RatMul(Int2Rat(Units(x)), RatDiv(y.scale, x.scale)))
  BY <1>16 DEF r
<1> HIDE DEF y, i, v, R, Y
<1>18. \/ i <= 2
       \/ i - 2 <= Y.bound \/ Y.bound = R
  <2> SUFFICES ASSUME ~(i <= 2) PROVE i - 2 <= Y.bound \/ Y.bound = R
    OBVIOUS
  <2> DEFINE w == i - 2
  <2>1. w \in Nat /\ i = w + 2
    BY <1>14
  <2> HIDE DEF w, b
  <2>2. w * B <= b * A
    <3>1. v < (b + 1) * G
      BY DEF v, b
    <3>2. CASE G = 1
      <4>1. i * B <= v * A /\ v <= b
        BY <3>1, <3>2, <1>8, <1>13, <1>14, <1>15
      <4>2. v * A <= b * A /\ w * B <= i * B
        BY <4>1, <2>1, <1>8, <1>13, <1>14, <1>15
      <4>3. v * A \in Nat /\ b * A \in Nat /\ w * B \in Nat /\ i * B \in Nat
        BY <2>1, <1>8, <1>13, <1>14, <1>15
      <4> QED BY <4>1, <4>2, <4>3
    <3>3. CASE A <= 2 * B
      <4>1. (i * B) * G < ((b + 1) * A) * G
        <5> DEFINE u == (b + 1) * G
        <5>1. u \in Nat /\ v < u /\ A > 0
          BY <3>1, <1>1, <1>8, <1>15 DEF Pos
        <5> HIDE DEF u
        <5>2. v * A < u * A /\ v * A \in Nat /\ u * A \in Nat
          BY <5>1, <1>8, <1>13
        <5>3. i * (B * G) = (i * B) * G /\ u * A = ((b + 1) * A) * G
          BY <1>1, <1>8, <1>14, <1>15 DEF u
        <5>4. i * (B * G) \in Nat
          BY <1>1, <1>8, <1>14
        <5>5. i * (B * G) < u * A
          BY <5>2, <5>4, <1>14
        <5> QED BY <5>3, <5>5
      <4>2. i * B < (b + 1) * A
        <5> DEFINE u1 == i * B
                   u2 == (b + 1) * A
        <5>1. u1 \in Nat /\ u2 \in Nat /\ u1 * G < u2 * G
          BY <4>1, <1>8, <1>14, <1>15
        <5> HIDE DEF u1, u2
        <5>2. u1 < u2
          BY <5>1, Cancelled
        <5> QED BY <5>2 DEF u1, u2
      <4>3. i * B = w * B + 2 * B /\ (b + 1) * A = b * A + A
        BY <2>1, <1>8, <1>15
      <4>4. w * B \in Nat /\ b * A \in Nat
        BY <2>1, <1>8, <1>15
      <4> QED BY <4>2, <4>3, <4>4, <3>3, <1>8
    <3>4. G = 1 \/ p * (d * G) < 2 * (q * c)
      BY DEF p, q, c, d
    <3> QED BY <3>2, <3>3, <3>4, <1>7
  <2>3. w <= Y.bound \/ Y.bound = R
    BY <2>1, <2>2, <1>7, RescaleKeeps DEF A, B, b, Y, R
  <2> QED BY <2>3 DEF w
<1>19. Y.bound \in Nat
  BY <1>7, RescaleHonest DEF Y
<1>20. CASE i <= 2 \/ i - 2 <= Y.bound
  <2>1. i <= y.sym.bound + 2
    BY <1>14, <1>16, <1>19, <1>20
  <2>2. Keeps(x, y)
    BY <2>1, <1>17, KeepsUnits
  <2> QED BY <2>2 DEF y, Y
<1>21. CASE Y.bound = R /\ p * t <= R * q
  <2>1. i * P <= R * (P + 1)
    <3> HIDE DEF P
    <3>1. v * d <= t * c /\ p * t <= R * q /\ i * (B * G) <= v * A
      BY <1>13, <1>14, <1>21
    <3>2. (A * (q * c)) * P <= ((p * (d * G)) * B) * (P + 1)
      BY <1>7
    <3>3. i \in Nat /\ v \in Nat /\ R \in Nat /\ P \in Pos
      BY <1>7, <1>13, <1>14, <1>15
    <3>4. A \in Pos /\ B \in Pos /\ c \in Pos /\ d \in Pos /\ p \in Pos /\ q \in Pos
      BY <1>1, <1>8
    <3> QED BY <3>1, <3>2, <3>3, <3>4, Unsaturated
  <2>2. j \in Nat /\ k \in Nat /\ k <= j
    <3>1. x.prec \in Int /\ MAX_BIT \in Int
      BY MaxBitAssumption DEF Seen, Pos
    <3> QED BY <3>1 DEF Larger
  <2>3. i * Pow2[k] <= R * (Pow2[k] + 1)
    <3>1. i * Pow2[j] <= R * (Pow2[j] + 1)
      BY <2>1
    <3> HIDE DEF j, k
    <3> QED BY <3>1, <2>2, <1>14, <1>15, FinerPart
  <2>4. MantissaPart(x) = Pow2[k]
    BY DEF MantissaPart
  <2>5. i * MantissaPart(x) <= y.sym.bound * (MantissaPart(x) + 1)
    BY <2>3, <2>4, <1>16, <1>21
  <2>6. Keeps(x, y)
    BY <2>5, <1>17, KeepsUnits
  <2> QED BY <2>6 DEF y, Y
<1>22. CASE Y.bound = R /\ prec = get_bit(RatMul(told, x.th))
  <2> DEFINE z == RatMul(told, x.th)
             C == Ceil(z)
             z1 == z[1]
             z2 == z[2]
  <2>1. z \in Fraction /\ SameAs(z, (c * A) * t, ((d * G) * B) * 1)
    <3>1. told \in Fraction /\ x.th \in Fraction /\ SameAs(x.th, t, 1) /\ 1 \in Pos
      BY <1>9, PositiveIsFraction DEF Fraction, SameAs, Pos
    <3>2. c * A \in Nat
      BY <1>1, <1>8
    <3>3. (d * G) * B \in Pos
      BY <1>3, <1>8, PosProduct
    <3>4. SameAs(z, (c * A) * t, ((d * G) * B) * 1)
      BY <3>1, <3>2, <3>3, <1>10, SameProduct
    <3> QED BY <3>1, <3>4, FractionProducts
  <2>2. C \in Nat /\ z1 <= C * z2 /\ C <= R
    BY <2>1, <1>22, CeilBounds, BitsHold DEF R
  <2>3. z1 \in Nat /\ z2 \in Pos /\ z2 \in Nat
    BY <2>1 DEF Fraction, Pos
  <2> DEFINE e == (d * G) * B
  <2>4. e \in Pos /\ e \in Nat /\ e * 1 = e
    BY <1>1, <1>3, <1>8, PosProduct
  <2>5. z1 * e = z2 * ((c * A) * t)
    BY <2>1, <2>4 DEF SameAs
  <2> HIDE DEF z1, z2, C, z
  <2>6. (i * e) * z2 <= (C * e) * z2
    <3>1. i * e = d * (i * (B * G))
      BY <1>1, <1>8, <1>14
    <3>2. d * (i * (B * G)) <= d * (v * A)
      <4> DEFINE u1 == i * (B * G)
                 u2 == v * A
      <4>1. u1 \in Nat /\ u2 \in Nat /\ u1 <= u2
        BY <1>1, <1>8, <1>13, <1>14
      <4> HIDE DEF u1, u2
      <4>2. d * u1 <= d * u2
        BY <4>1, <1>1
      <4> QED BY <4>2 DEF u1, u2
    <3>3. d * (v * A) = (v * d) * A
      BY <1>1, <1>8, <1>13
    <3>4. (v * d) * A <= (t * c) * A
      <4>1. v * d \in Nat /\ t * c \in Nat
        BY <1>1, <1>13
      <4> QED BY <4>1, <1>8, <1>13, Cancelled
    <3>5. i * e <= (t * c) * A
      <4>1. i * e \in Nat /\ (v * d) * A \in Nat /\ (t * c) * A \in Nat
        BY <2>4, <1>1, <1>8, <1>13, <1>14
      <4> QED BY <4>1, <3>1, <3>2, <3>3, <3>4
    <3>6. (i * e) * z2 <= ((t * c) * A) * z2
      <4>1. i * e \in Nat /\ (t * c) * A \in Nat
        BY <2>4, <1>1, <1>8, <1>14
      <4> QED BY <4>1, <3>5, <2>3, Cancelled
    <3>7. ((t * c) * A) * z2 = z2 * ((c * A) * t)
      BY <1>1, <1>8, <2>3
    <3>8. z1 * e <= (C * z2) * e
      <4>1. C * z2 \in Nat
        BY <2>2, <2>3
      <4> HIDE DEF e
      <4> QED BY <4>1, <2>2, <2>3, <2>4, Cancelled
    <3> HIDE DEF e
    <3>9. (C * z2) * e = (C * e) * z2
      BY <2>2, <2>3, <2>4
    <3>10. (i * e) * z2 \in Nat /\ z1 * e \in Nat /\ (C * e) * z2 \in Nat
      BY <2>2, <2>3, <2>4, <1>14
    <3> QED BY <3>6, <3>7, <3>8, <3>9, <3>10, <2>5
  <2> HIDE DEF e
  <2>7. i * e <= C * e
    <3> DEFINE u1 == i * e
               u2 == C * e
    <3>1. u1 \in Nat /\ u2 \in Nat /\ u1 * z2 <= u2 * z2
      BY <2>2, <2>4, <2>6, <1>14
    <3> HIDE DEF u1, u2
    <3>2. u1 <= u2
      BY <3>1, <2>3, Cancelled
    <3> QED BY <3>2 DEF u1, u2
  <2>8. i <= C
    BY <2>2, <2>4, <2>7, <1>14, Cancelled
  <2>9. i <= R
    BY <2>2, <2>8, <1>14, <1>15
  <2>10. i <= y.sym.bound + 2
    BY <2>9, <1>14, <1>15, <1>16, <1>22
  <2>11. Keeps(x, y)
    BY <2>10, <1>17, KeepsUnits
  <2> QED BY <2>11 DEF y, Y
<1>23. p * t <= R * q \/ prec = get_bit(RatMul(told, x.th))
  BY DEF p, q, R
<1> QED BY <1>18, <1>20, <1>21, <1>22, <1>23

(* The scale brings t real units into the range of the precision.          *)
Holds(sc, prec, t) == sc[1] * t <= get_range(prec) * sc[2]

LEMMA ScaleHolds ==
  ASSUME NEW t \in Nat, NEW prec \in Nat, prec >= 2
  PROVE  /\ Holds(scale(<<t, 1>>, prec), prec, t)
         /\ \A s \in Nat : s <= t => Holds(scale(<<t, 1>>, prec), prec, s)
<1> DEFINE sc == scale(<<t, 1>>, prec)
           p == sc[1]
           q == sc[2]
           R == get_range(prec)
<1>1. R \in Pos /\ R \in Nat /\ sc \in Positive
  <2>1. <<t, 1>> \in Fraction
    BY DEF Fraction, Pos
  <2> QED BY <2>1, RangeIsNat, ScalePositive DEF Pos
<1>2. p \in Nat /\ q \in Nat
  <2> HIDE DEF sc
  <2> QED BY <1>1 DEF Positive, Pos
<1>3. p * t <= R * q
  <2>1. CASE t = 0
    <3>1. p * t = 0 /\ R * q \in Nat
      <4> HIDE DEF p, q, R
      <4> QED BY <2>1, <1>1, <1>2
    <3> QED BY <3>1
  <2>2. CASE t # 0
    <3>1. sc = RatDiv(Int2Rat(R), <<t, 1>>)
      BY <2>2 DEF scale
    <3>2. Int2Rat(R) \in Positive /\ <<t, 1>> \in Positive /\ t \in Pos /\ 1 \in Pos
      BY <2>2, <1>1, IntegersPositive DEF Positive, Pos
    <3>3. SameAs(Int2Rat(R), R, 1) /\ SameAs(<<t, 1>>, t, 1)
      <4> HIDE DEF R
      <4> QED BY <1>1 DEF SameAs, Int2Rat
    <3> HIDE DEF sc, R
    <3>4. SameAs(sc, R * 1, 1 * t)
      BY <1>1, <3>1, <3>2, <3>3, SameQuotient
    <3> HIDE DEF p, q
    <3>5. p * (1 * t) = q * (R * 1)
      BY <3>4 DEF SameAs, p, q
    <3> QED BY <1>1, <1>2, <3>5
  <2> QED BY <2>1, <2>2
<1>4. ASSUME NEW s \in Nat, s <= t PROVE p * s <= R * q
  <2> HIDE DEF p, q, R
  <2>1. p * s <= p * t /\ p * s \in Nat /\ p * t \in Nat /\ R * q \in Nat
    BY <1>1, <1>2, <1>4
  <2> QED BY <2>1, <1>3
<1> QED BY <1>3, <1>4 DEF Holds

LEMMA PartsSeen ==
  ASSUME NEW x, Seen(x)
  PROVE  /\ x.scale \in Positive /\ x.scale \in Fraction
         /\ x.scale[1] \in Pos /\ x.scale[2] \in Pos
         /\ x.scale[1] \in Nat /\ x.scale[2] \in Nat
         /\ x.prec \in Pos /\ x.prec \in Int /\ x.sym.bound \in Nat
<1>1. x.scale \in Positive /\ x.prec \in Pos /\ x.sym.bound \in Nat
  BY DEF Seen, Honest
<1> QED BY <1>1, PositiveIsFraction DEF Positive, Pos

LEMMA ZeroKeeps ==
  ASSUME NEW x, Seen(x), x.th = <<0, 1>>, NEW prec, NEW sc \in Positive
  PROVE  Keeps(x, Requantized(x.sym, prec, sc))
<1> DEFINE y == Requantized(x.sym, prec, sc)
           r == RatDiv(sc, x.scale)
           v == Units(x)
           i == Floor(RatMul(Int2Rat(v), r))
<1>1. v = 0
  <2>1. v \in Nat /\ v * x.scale[2] <= 0 * x.scale[1]
    BY UnitsSeen
  <2>2. x.scale[1] \in Nat /\ x.scale[2] \in Pos
    BY PartsSeen
  <2> HIDE DEF v
  <2>3. v * x.scale[2] <= 0 * x.scale[2] /\ 0 \in Nat
    BY <2>1, <2>2 DEF Pos
  <2>4. v <= 0
    BY <2>1, <2>2, <2>3, Cancelled
  <2> QED BY <2>1, <2>4
<1>2. r \in Fraction /\ r[1] \in Nat /\ r[2] \in Pos
  <2>1. r \in Fraction
    BY PartsSeen, ProductsPositive, PositiveIsFraction
  <2> HIDE DEF r
  <2> QED BY <2>1 DEF Fraction
<1>3. i \in Nat /\ i * r[2] <= 0 * r[1]
  <2>1. v \in Nat /\ v = 0
    BY <1>1
  <2> HIDE DEF v, r
  <2> QED BY <1>2, <2>1, SameSelf, FloorAtRate
<1> HIDE DEF i, r
<1>4. i = 0
  <2>1. i * r[2] <= 0 * r[2] /\ 0 \in Nat
    BY <1>2, <1>3 DEF Pos
  <2>2. i <= 0
    BY <2>1, <1>2, <1>3, Cancelled
  <2> QED BY <2>2, <1>3
<1>5. y.sym.bound = x.sym.bound /\ y.scale = sc /\ x.sym.bound \in Nat
  BY PartsSeen DEF Requantized
<1>6. i = Floor(RatMul(Int2Rat(Units(x)), RatDiv(y.scale, x.scale)))
  BY <1>5 DEF i, r
<1> HIDE DEF y
<1>7. i <= y.sym.bound + 2
  BY <1>4, <1>5
<1>8. Keeps(x, y)
  BY <1>6, <1>7, KeepsUnits
<1> QED BY <1>8 DEF y

(* The input before it is multiplied: what its units are divided by.       *)
Divided(x, X, iscale, G) ==
  /\ X.bound \in Nat /\ iscale \in Positive /\ G \in Pos
  /\ SameAs(iscale, x.scale[1], x.scale[2] * G)
  /\ Units(x) < (X.bound + 1) * G

LEMMA NotDivided ==
  ASSUME NEW x, Seen(x)
  PROVE  Divided(x, x.sym, x.scale, 1)
<1> DEFINE b == x.sym.bound
           v == Units(x)
<1>1. /\ x.scale \in Positive /\ x.scale \in Fraction /\ b \in Nat
      /\ x.scale[2] \in Nat /\ 1 \in Pos
  BY PartsSeen DEF Pos
<1>2. x.scale[2] * 1 = x.scale[2]
  BY <1>1
<1>3. SameAs(x.scale, x.scale[1], x.scale[2] * 1)
  BY <1>1, <1>2, SameSelf
<1>4. v \in Nat /\ v <= b
  BY UnitsSeen DEF Seen
<1> HIDE DEF b, v
<1>5. v < (b + 1) * 1
  BY <1>1, <1>4
<1> QED BY <1>1, <1>3, <1>5 DEF Divided, b, v

LEMMA ShiftDivides ==
  ASSUME NEW x, Seen(x), NEW sb \in Pos
  PROVE  Divided(x, realize(x.sym, sb, x.prec - sb),
                 RatDiv(x.scale, Int2Rat(Pow2[sb])), Pow2[sb])
<1> DEFINE X == realize(x.sym, sb, x.prec - sb)
           G == Pow2[sb]
           iscale == RatDiv(x.scale, Int2Rat(G))
           c == x.scale[1]
           d == x.scale[2]
<1>1. /\ x.scale \in Positive /\ x.scale \in Fraction /\ c \in Pos /\ d \in Pos /\ c \in Nat
      /\ d \in Nat /\ x.prec \in Int /\ x.sym.bound \in Nat
  BY PartsSeen
<1>2. G \in Pos /\ G \in Nat
  BY Pow2Positive DEF Pos
<1>3. x.prec - sb \in Int /\ sb \in Int
  BY <1>1 DEF Pos
<1>4. X.bound \in Nat
  BY <1>1, <1>3, RealizeHonest
<1>5. Units(x) < (X.bound + 1) * G
  <2>1. Honest(x.sym, x.prec)
    BY DEF Seen
  <2>2. Units(x) \in Nat /\ Units(x) <= x.sym.bound
    BY UnitsSeen DEF Seen
  <2> QED BY <2>1, <2>2, EarlyShiftKeeps
<1> HIDE DEF G
<1>6. Int2Rat(G) \in Positive /\ SameAs(Int2Rat(G), G, 1) /\ 1 \in Pos
  <2>1. Int2Rat(G) \in Positive
    BY <1>2, IntegersPositive
  <2>2. SameAs(Int2Rat(G), G, 1)
    BY <1>2 DEF SameAs, Int2Rat
  <2> QED BY <2>1, <2>2 DEF Pos
<1>7. SameAs(x.scale, c, d)
  BY <1>1, SameSelf
<1>8. iscale \in Positive /\ SameAs(iscale, c * 1, d * G)
  <2> HIDE DEF c, d
  <2> QED BY <1>1, <1>2, <1>6, <1>7, ProductsPositive, SameQuotient
<1>9. c * 1 = c
  BY <1>1
<1> HIDE DEF X, iscale
<1>10. Divided(x, X, iscale, G)
  BY <1>2, <1>4, <1>5, <1>8, <1>9 DEF Divided
<1> QED BY <1>10 DEF X, iscale, G

(* The two ways to go on, for both generations.                            *)
LEMMA DividedKeeps ==
  ASSUME NEW x, Seen(x), NEW t \in Nat, x.th = <<t, 1>>,
         NEW X, NEW iscale, NEW G, Divided(x, X, iscale, G)
  PROVE  /\ \A prec : Keeps(x, Requantized(X, prec, iscale))
         /\ \A oscale \in Positive, bits \in Int, prec \in Int :
              LET f == cvm_float(RatDiv(oscale, iscale), bits)
                  told == RatMul(iscale, Shift(Int2Rat(f.frac), f.exp))
              IN  /\ G = 1 \/ oscale[1] * (x.scale[2] * G) < 2 * (oscale[2] * x.scale[1])
                  /\ MAX_BIT - x.prec <= bits
                  /\ Holds(oscale, prec, t) \/ prec = get_bit(RatMul(told, x.th))
                  => Keeps(x, Requantized(Rescale(X, f, prec), prec, told))
<1>1. /\ X.bound \in Nat /\ iscale \in Positive /\ G \in Pos
      /\ SameAs(iscale, x.scale[1], x.scale[2] * G)
      /\ Units(x) < (X.bound + 1) * G
  BY DEF Divided
<1>2. ASSUME NEW prec PROVE Keeps(x, Requantized(X, prec, iscale))
  BY <1>1, ShiftedInputKeeps
<1>3. ASSUME NEW oscale \in Positive, NEW bits \in Int, NEW prec \in Int,
             NEW f, f = cvm_float(RatDiv(oscale, iscale), bits),
             NEW told, told = RatMul(iscale, Shift(Int2Rat(f.frac), f.exp)),
             G = 1 \/ oscale[1] * (x.scale[2] * G) < 2 * (oscale[2] * x.scale[1]),
             MAX_BIT - x.prec <= bits,
             Holds(oscale, prec, t) \/ prec = get_bit(RatMul(told, x.th))
      PROVE  Keeps(x, Requantized(Rescale(X, f, prec), prec, told))
  <2>1. \/ oscale[1] * t <= get_range(prec) * oscale[2]
        \/ prec = get_bit(RatMul(told, x.th))
    BY <1>3 DEF Holds
  <2> QED BY <1>1, <1>3, <2>1, RescaledInputKeeps
<1> QED BY <1>2, <1>3

LEMMA EarlyNotDoubled ==
  ASSUME NEW x, Seen(x), NEW t \in Pos, x.th = <<t, 1>>,
         NEW default \in Nat, default >= 2,
         NEW sb \in Pos, default + sb <= get_bit(RatMul(x.th, x.scale)),
         NEW oscale \in Positive, Holds(oscale, default, t)
  PROVE  oscale[1] * (x.scale[2] * Pow2[sb]) < 2 * (oscale[2] * x.scale[1])
<1> DEFINE z == RatMul(x.th, x.scale)
           c == x.scale[1]
           d == x.scale[2]
           p == oscale[1]
           q == oscale[2]
<1>1. x.scale \in Fraction /\ c \in Pos /\ d \in Pos /\ c \in Nat /\ d \in Nat
  BY PartsSeen
<1>2. p \in Pos /\ q \in Pos
  BY DEF Positive
<1>3. x.th \in Fraction /\ SameAs(x.th, t, 1) /\ t \in Nat /\ 1 \in Pos
  BY DEF Fraction, SameAs, Pos
<1>4. SameAs(x.scale, c, d)
  BY <1>1, SameSelf
<1>5. z \in Fraction
  BY <1>1, <1>3, FractionProducts
<1> HIDE DEF c, d, p, q
<1>6. SameAs(z, t * c, 1 * d)
  BY <1>1, <1>3, <1>4, SameProduct
<1>7. 1 * d = d
  BY <1>1
<1>8. SameAs(z, t * c, d)
  BY <1>6, <1>7
<1>9. p * t <= get_range(default) * q
  BY DEF Holds, p, q
<1> HIDE DEF z
<1>10. default + sb <= get_bit(z)
  BY DEF z
<1>11. p * (d * Pow2[sb]) < 2 * (q * c)
  BY <1>1, <1>2, <1>5, <1>8, <1>9, <1>10, NotDoubled
<1> QED BY <1>11 DEF p, q, c, d

LEMMA RequantOperatorKeeps ==
  ASSUME NEW x, Seen(x), NEW default \in Nat, default >= 2, NEW wanted \in Wanted,
         wanted = AnyScale \/ Holds(wanted, default, x.th[1])
  PROVE  Keeps(x, requant_operator(x, default, wanted))
<1> DEFINE oscale == IF wanted # AnyScale THEN wanted ELSE scale(x.th, default)
           sb == get_bit(RatMul(x.th, x.scale)) - default
           early == sb > shift_bits
           iprec == IF early THEN x.prec - sb ELSE x.prec
           X == IF early THEN realize(x.sym, sb, iprec) ELSE x.sym
           iscale == IF early THEN RatDiv(x.scale, Int2Rat(Pow2[sb])) ELSE x.scale
           G == IF early THEN Pow2[sb] ELSE 1
           f == cvm_float(RatDiv(oscale, iscale), MAX_BIT - iprec)
           told == RatMul(iscale, Shift(Int2Rat(f.frac), f.exp))
           r == requant_operator(x, default, wanted)
<1>1. PICK t \in Nat : x.th = <<t, 1>> /\ x.th[1] = t
  BY DEF Seen
<1>2. x.th \in Fraction /\ x.prec \in Int /\ x.scale \in Fraction
  BY <1>1, PartsSeen DEF Fraction, Pos
<1>3. oscale \in Positive /\ Holds(oscale, default, t)
  <2>1. CASE wanted # AnyScale
    BY <2>1, <1>1 DEF Wanted
  <2>2. CASE wanted = AnyScale
    <3>1. oscale = scale(<<t, 1>>, default)
      BY <2>2, <1>1
    <3>2. scale(<<t, 1>>, default) \in Positive
      BY <1>1, <1>2, ScalePositive
    <3> HIDE DEF oscale
    <3> QED BY <3>1, <3>2, ScaleHolds
  <2> QED BY <2>1, <2>2
<1>4. sb \in Int /\ default + sb = get_bit(RatMul(x.th, x.scale))
  <2>1. get_bit(RatMul(x.th, x.scale)) \in Int
    BY <1>2, FractionProducts, BitsHold DEF Pos
  <2> QED BY <2>1
<1>5. CASE t = 0
  <2> DEFINE sc == IF wanted # AnyScale THEN wanted ELSE Int2Rat(1)
  <2>1. r = Requantized(x.sym, 1, sc)
    BY <1>1, <1>5 DEF requant_operator
  <2>2. sc \in Positive
    BY OneIsGood DEF Wanted
  <2> HIDE DEF sc
  <2> QED BY <1>1, <1>5, <2>1, <2>2, ZeroKeeps
<1>6. CASE t # 0
  <2> HIDE DEF sb, oscale
  <2>1. early => sb \in Pos
    BY <1>4, PrecisionsAssumption DEF Pos
  <2>2. Divided(x, X, iscale, G)
    BY <2>1, NotDivided, ShiftDivides
  <2>3. G = 1 \/ oscale[1] * (x.scale[2] * G) < 2 * (oscale[2] * x.scale[1])
    <3>1. CASE early
      <4>1. t \in Pos /\ default + sb <= get_bit(RatMul(x.th, x.scale))
        BY <1>4, <1>6 DEF Pos
      <4>2. oscale[1] * (x.scale[2] * Pow2[sb]) < 2 * (oscale[2] * x.scale[1])
        BY <1>1, <1>3, <2>1, <3>1, <4>1, EarlyNotDoubled
      <4> QED BY <3>1, <4>2
    <3> QED BY <3>1
  <2>4. iprec \in Int /\ iprec <= x.prec
    BY <1>2, <1>4, <2>1 DEF Pos
  <2>5. MAX_BIT - iprec \in Int /\ MAX_BIT - x.prec <= MAX_BIT - iprec
    BY <1>2, <2>4, MaxBitAssumption
  <2>6. \/ r = Requantized(Rescale(X, f, default), default, told)
        \/ r = Requantized(X, default, iscale)
    BY <1>1, <1>6 DEF requant_operator, On, sb, oscale
  <2>7. default \in Int
    OBVIOUS
  <2> HIDE DEF X, iscale, G, iprec, r
  <2>8. Keeps(x, Requantized(X, default, iscale))
    BY <1>1, <2>2, DividedKeeps
  <2>9. Keeps(x, Requantized(Rescale(X, f, default), default, told))
    BY <1>1, <1>3, <2>2, <2>3, <2>5, <2>7, DividedKeeps
  <2>10. Keeps(x, r)
    BY <2>6, <2>8, <2>9
  <2> QED BY <2>10 DEF r
<1> QED BY <1>5, <1>6

LEMMA UsOperatorKeeps ==
  ASSUME NEW x, Seen(x), NEW default \in Nat, default >= 2, NEW wanted \in Wanted,
         wanted = AnyScale \/ Holds(wanted, default, x.th[1])
  PROVE  Keeps(x, us_operator(x, default, wanted))
<1> DEFINE oscale == IF wanted # AnyScale THEN wanted ELSE scale(x.th, default)
           sb == x.prec - default
           early == sb > shift_bits
           iprec == IF early THEN default ELSE x.prec
           X == IF early THEN realize(x.sym, sb, iprec) ELSE x.sym
           iscale == IF early THEN RatDiv(x.scale, Int2Rat(Pow2[sb])) ELSE x.scale
           G == IF early THEN Pow2[sb] ELSE 1
           f == cvm_float(RatDiv(oscale, iscale), MAX_BIT - iprec)
           told == RatMul(iscale, Shift(Int2Rat(f.frac), f.exp))
           oprec == get_bit(RatMul(told, x.th))
           r == us_operator(x, default, wanted)
<1>1. PICK t \in Nat : x.th = <<t, 1>> /\ x.th[1] = t
  BY DEF Seen
<1>2. x.th \in Fraction /\ x.prec \in Int /\ x.scale \in Fraction
  BY <1>1, PartsSeen DEF Fraction, Pos
<1>3. oscale \in Positive /\ Holds(oscale, default, t)
  <2>1. CASE wanted # AnyScale
    BY <2>1, <1>1 DEF Wanted
  <2>2. CASE wanted = AnyScale
    <3>1. oscale = scale(<<t, 1>>, default)
      BY <2>2, <1>1
    <3>2. scale(<<t, 1>>, default) \in Positive
      BY <1>1, <1>2, ScalePositive
    <3> HIDE DEF oscale
    <3> QED BY <3>1, <3>2, ScaleHolds
  <2> QED BY <2>1, <2>2
<1>4. /\ sb \in Int /\ default = x.prec - sb
      /\ default + sb <= get_bit(RatMul(x.th, x.scale))
  <2>1. default + sb = x.prec
    BY <1>2
  <2>2. x.prec <= get_bit(RatMul(x.th, x.scale))
    BY DEF Seen, Tight
  <2> QED BY <1>2, <2>1, <2>2
<1>5. CASE t = 0
  <2> DEFINE sc == IF wanted # AnyScale THEN wanted ELSE Int2Rat(1)
  <2>1. r = Requantized(x.sym, 1, sc)
    BY <1>1, <1>5 DEF us_operator
  <2>2. sc \in Positive
    BY OneIsGood DEF Wanted
  <2> HIDE DEF sc
  <2> QED BY <1>1, <1>5, <2>1, <2>2, ZeroKeeps
<1>6. CASE t # 0
  <2> HIDE DEF sb, oscale
  <2>1. early => sb \in Pos
    BY <1>4, PrecisionsAssumption DEF Pos
  <2>2. Divided(x, X, iscale, G)
    BY <1>4, <2>1, NotDivided, ShiftDivides
  <2>3. G = 1 \/ oscale[1] * (x.scale[2] * G) < 2 * (oscale[2] * x.scale[1])
    <3>1. CASE early
      <4>1. t \in Pos
        BY <1>6 DEF Pos
      <4>2. oscale[1] * (x.scale[2] * Pow2[sb]) < 2 * (oscale[2] * x.scale[1])
        BY <1>1, <1>3, <1>4, <2>1, <3>1, <4>1, EarlyNotDoubled
      <4> QED BY <3>1, <4>2
    <3> QED BY <3>1
  <2>4. iprec \in Int /\ iprec <= x.prec
    BY <1>2, <1>4, <2>1 DEF Pos
  <2>5. MAX_BIT - iprec \in Int /\ MAX_BIT - x.prec <= MAX_BIT - iprec
    BY <1>2, <2>4, MaxBitAssumption
  <2>6. \/ r = Requantized(Rescale(X, f, oprec), oprec, told)
        \/ r = Requantized(X, iprec, iscale)
    BY <1>1, <1>6 DEF us_operator, On, sb, oscale
  <2>7. oprec \in Int
    <3>1. RatDiv(oscale, iscale) \in Positive /\ iscale \in Positive
      BY <1>3, <2>2, ProductsPositive DEF Divided
    <3> HIDE DEF iscale, iprec
    <3>2. f.frac \in Pos /\ f.exp \in Int
      BY <2>5, <3>1, MantissaPositive
    <3> HIDE DEF f
    <3>3. told \in Positive
      BY <3>1, <3>2, UpAndDown, ProductsPositive
    <3> HIDE DEF told
    <3> QED BY <1>2, <3>3, PositiveIsFraction, FractionProducts, BitsHold DEF Pos
  <2> HIDE DEF X, iscale, G, iprec, r
  <2>8. Keeps(x, Requantized(X, iprec, iscale))
    BY <1>1, <2>2, DividedKeeps
  <2>9. Keeps(x, Requantized(Rescale(X, f, oprec), oprec, told))
    BY <1>1, <1>3, <2>2, <2>3, <2>5, <2>7, DividedKeeps
  <2>10. Keeps(x, r)
    BY <2>6, <2>8, <2>9
  <2> QED BY <2>10 DEF r
<1> QED BY <1>5, <1>6

-----------------------------------------------------------------------------
(* Every operator keeps the thresholds of its inputs.                      *)

(* A node with its samples: integers, the recorded one the larger, within  *)
(* the word; those of a parameter are the same.                            *)
Sampled(x) ==
  \E s, t \in Nat : /\ s <= t /\ t <= get_range(MAX_BIT)
                    /\ x.real = <<s, 1>> /\ x.th = <<t, 1>>
                    /\ x.op = "param" => s = t

Usable(x) == GoodNode(x) /\ Sampled(x) /\ (x.op # "param" => Tight(x))

(* The requantised inputs keep the inputs.                                 *)
Kept(cs, seen) ==
  \A i \in DOMAIN seen :
    i \in DOMAIN cs /\ (cs[i].op # "param" => Keeps(cs[i], seen[i]))

LEMMA UsableSeen ==
  ASSUME NEW x, Usable(x)
  PROVE  /\ x.op # "param" => Seen(x)
         /\ x.th \in Fraction /\ x.th = <<x.th[1], 1>> /\ x.th[1] \in Nat
         /\ x.th[1] <= get_range(MAX_BIT)
<1>1. PICK s, t \in Nat : /\ s <= t /\ t <= get_range(MAX_BIT)
                          /\ x.real = <<s, 1>> /\ x.th = <<t, 1>>
  BY DEF Usable, Sampled
<1>2. x.th \in Fraction
  BY <1>1, OneIsGood DEF Fraction
<1>3. ASSUME x.op # "param" PROVE Seen(x)
  <2>1. x.scale \in Positive /\ Honest(x.sym, x.prec) /\ Tight(x)
    BY <1>3 DEF Usable, GoodNode, GoodOperator
  <2> QED BY <2>1, <1>1 DEF Seen, Honest
<1> QED BY <1>1, <1>2, <1>3

LEMMA RequantKeeps ==
  ASSUME NEW x, Usable(x), x.op # "param", NEW default \in Nat, default >= 2,
         NEW wanted \in Wanted, wanted = AnyScale \/ Holds(wanted, default, x.th[1])
  PROVE  /\ Keeps(x, requant_operator(x, default, wanted))
         /\ Keeps(x, requant(x, default, wanted))
         /\ Keeps(x, us_quantize(x, default, wanted))
BY UsableSeen, RequantOperatorKeeps, UsOperatorKeeps DEF requant, us_quantize

(* The precisions and the scales that operators ask for.                   *)
LEMMA AskedFor ==
  ASSUME NEW x, Usable(x)
  PROVE  /\ NarrowPrec \in Nat /\ NarrowPrec >= 2 /\ WidePrec \in Nat /\ WidePrec >= 2
         /\ MAX_BIT \in Nat /\ MAX_BIT >= 2
         /\ AnyScale \in Wanted /\ Int2Rat(1) \in Wanted
         /\ scale(x.th, NarrowPrec) \in Wanted
         /\ Holds(scale(x.th, NarrowPrec), NarrowPrec, x.th[1])
         /\ Holds(Int2Rat(1), MAX_BIT, x.th[1])
<1>1. x.th \in Fraction /\ x.th = <<x.th[1], 1>> /\ x.th[1] \in Nat
      /\ x.th[1] <= get_range(MAX_BIT)
  BY UsableSeen
<1>2. NarrowPrec \in Nat /\ NarrowPrec >= 2 /\ WidePrec \in Nat /\ WidePrec >= 2
      /\ MAX_BIT \in Nat /\ MAX_BIT >= 2
  BY PrecisionsAssumption, MaxBitAssumption
<1>3. scale(x.th, NarrowPrec) \in Wanted /\ AnyScale \in Wanted /\ Int2Rat(1) \in Wanted
  BY <1>1, ScalesPositive, AnyIsWanted, OneIsGood
<1>4. Holds(scale(x.th, NarrowPrec), NarrowPrec, x.th[1])
  BY <1>1, <1>2, ScaleHolds
<1>5. Holds(Int2Rat(1), MAX_BIT, x.th[1])
  <2>1. get_range(MAX_BIT) \in Nat /\ Int2Rat(1)[1] = 1 /\ Int2Rat(1)[2] = 1
    BY <1>2, RangeIsNat DEF Int2Rat
  <2> QED BY <2>1, <1>1 DEF Holds
<1> QED BY <1>2, <1>3, <1>4, <1>5

LEMMA SeenOf ==
  ASSUME NEW th, NEW prec, NEW sc, NEW sym, NEW ins
  PROVE  Quantized(th, prec, sc, sym, ins).seen = ins
BY DEF Quantized

LEMMA KeptNone == ASSUME NEW cs PROVE Kept(cs, <<>>)
BY DEF Kept

LEMMA KeptOne ==
  ASSUME NEW cs, 1 \in DOMAIN cs, NEW X, Keeps(cs[1], X)
  PROVE  Kept(cs, <<X>>)
BY DEF Kept

LEMMA KeptTwo ==
  ASSUME NEW cs, 1 \in DOMAIN cs, 2 \in DOMAIN cs, NEW X, NEW Y,
         cs[1].op # "param" => Keeps(cs[1], X), cs[2].op # "param" => Keeps(cs[2], Y)
  PROVE  Kept(cs, <<X, Y>>)
<1>1. \A i \in DOMAIN <<X, Y>> : i = 1 \/ i = 2
  OBVIOUS
<1> QED BY <1>1 DEF Kept

LEMMA KeptThree ==
  ASSUME NEW cs, 1 \in DOMAIN cs, 2 \in DOMAIN cs, 3 \in DOMAIN cs, NEW X, NEW Y, NEW Z,
         Keeps(cs[1], X), cs[2].op = "param", cs[3].op = "param"
  PROVE  Kept(cs, <<X, Y, Z>>)
<1>1. \A i \in DOMAIN <<X, Y, Z>> : i = 1 \/ i = 2 \/ i = 3
  OBVIOUS
<1> QED BY <1>1 DEF Kept

LEMMA OneInputKept ==
  ASSUME NEW cs, 1 \in DOMAIN cs, Usable(cs[1]), cs[1].op # "param", NEW k, NEW th
  PROVE  /\ Kept(cs, quantize_sum(cs[1], k, th).seen)
         /\ Kept(cs, quantize_clip(cs[1], th, th).seen)
         /\ Kept(cs, quantize_table(cs[1], th).seen)
         /\ Kept(cs, quantize_softmax(cs[1], k, th).seen)
         /\ Kept(cs, quantize_default(cs[1], th).seen)
         /\ Kept(cs, scale_sum(cs[1], k, th).seen)
         /\ Kept(cs, scale_clip(cs[1], th, th).seen)
         /\ Kept(cs, scale_table(cs[1], th).seen)
         /\ Kept(cs, scale_softmax(cs[1], k, th).seen)
         /\ Kept(cs, scale_default(cs[1], th).seen)
<1> DEFINE x == cs[1]
           A == requant_operator(x, NarrowPrec, AnyScale)
           B == requant_operator(x, NarrowPrec, scale(x.th, NarrowPrec))
           C == us_quantize(x, NarrowPrec, AnyScale)
           D == us_quantize(x, NarrowPrec, scale(x.th, NarrowPrec))
<1>1. Keeps(x, A) /\ Keeps(x, B) /\ Keeps(x, C) /\ Keeps(x, D)
  BY AskedFor, RequantKeeps
<1>2. /\ quantize_sum(x, k, th).seen = <<A>>
      /\ quantize_clip(x, th, th).seen = <<>>
      /\ quantize_table(x, th).seen = <<B>>
      /\ quantize_softmax(x, k, th).seen = <<B>>
      /\ quantize_default(x, th).seen = <<>>
  <2>1. quantize_sum(x, k, th).seen = <<A>>
    BY SeenOf DEF quantize_sum
  <2>2. quantize_clip(x, th, th).seen = <<>>
    BY SeenOf DEF quantize_clip
  <2>3. quantize_table(x, th).seen = <<B>>
    BY SeenOf DEF quantize_table
  <2>4. quantize_softmax(x, k, th).seen = <<B>>
    BY SeenOf DEF quantize_softmax
  <2>5. quantize_default(x, th).seen = <<>>
    BY SeenOf DEF quantize_default
  <2> HIDE DEF A, B
  <2> QED BY <2>1, <2>2, <2>3, <2>4, <2>5
<1>3. /\ scale_sum(x, k, th).seen = <<C>>
      /\ scale_clip(x, th, th).seen = <<>>
      /\ scale_table(x, th).seen = <<D>>
      /\ scale_softmax(x, k, th).seen = <<D>>
      /\ scale_default(x, th).seen = <<>>
  <2>1. scale_sum(x, k, th).seen = <<C>>
    BY SeenOf DEF scale_sum
  <2>2. scale_clip(x, th, th).seen = <<>>
    BY SeenOf DEF scale_clip
  <2>3. scale_table(x, th).seen = <<D>>
    BY SeenOf DEF scale_table
  <2>4. scale_softmax(x, k, th).seen = <<D>>
    BY SeenOf DEF scale_softmax
  <2>5. scale_default(x, th).seen = <<>>
    BY SeenOf DEF scale_default
  <2> HIDE DEF C, D
  <2> QED BY <2>1, <2>2, <2>3, <2>4, <2>5
<1> HIDE DEF A, B, C, D
<1>4. Kept(cs, <<A>>) /\ Kept(cs, <<B>>) /\ Kept(cs, <<C>>) /\ Kept(cs, <<D>>)
  BY <1>1, KeptOne
<1> QED BY <1>2, <1>3, <1>4, KeptNone

LEMMA FactorsKept ==
  ASSUME NEW cs, 1 \in DOMAIN cs, 2 \in DOMAIN cs, Usable(cs[1]), Usable(cs[2]), NEW th
  PROVE  /\ Kept(cs, quantize_mul(cs, th).seen)
         /\ Kept(cs, scale_mul(cs, th).seen)
<1> DEFINE A == requant(cs[1], WidePrec, AnyScale)
           B == requant(cs[2], WidePrec, AnyScale)
           C == us_quantize(cs[1], WidePrec, AnyScale)
           D == us_quantize(cs[2], WidePrec, AnyScale)
<1>1. cs[1].op # "param" => Keeps(cs[1], A) /\ Keeps(cs[1], C)
  BY AskedFor, RequantKeeps
<1>2. cs[2].op # "param" => Keeps(cs[2], B) /\ Keeps(cs[2], D)
  BY AskedFor, RequantKeeps
<1>3. quantize_mul(cs, th).seen = <<A, B>>
  BY SeenOf DEF quantize_mul, On
<1>4. scale_mul(cs, th).seen = <<C, D>>
  BY SeenOf DEF scale_mul, On
<1> HIDE DEF A, B, C, D
<1> QED BY <1>1, <1>2, <1>3, <1>4, KeptTwo

LEMMA ProductsKept ==
  ASSUME NEW cs, 1 \in DOMAIN cs, 2 \in DOMAIN cs, Usable(cs[1]), cs[1].op # "param",
         cs[2].op = "param", NEW k, NEW th,
         NEW b, b = <<>> \/ (3 \in DOMAIN cs /\ cs[3].op = "param")
  PROVE  /\ Kept(cs, quantize_xwb(cs[1], cs[2], b, k, th).seen)
         /\ Kept(cs, quantize_xw(cs[1], cs[2], k, th).seen)
<1> DEFINE x == cs[1]
           X == requant_operator(x, NarrowPrec, AnyScale)
           U == us_quantize(x, NarrowPrec, AnyScale)
           q == quantize_xwb(x, cs[2], b, k, th)
<1>1. Keeps(x, X) /\ Keeps(x, U)
  BY AskedFor, RequantKeeps
<1>2. \E W : quantize_xw(x, cs[2], k, th).seen = <<U, W>>
  BY SeenOf DEF quantize_xw
<1>3. b = <<>> => \E W : q.seen = <<X, W>>
  <2>1. b = <<>> => \E W, prec, sc, sym : q = Quantized(th, prec, sc, sym, <<X, W>>)
    BY DEF quantize_xwb, On
  <2> HIDE DEF q, X
  <2> QED BY <2>1 DEF Quantized
<1>4. b # <<>> => \E W, B : q.seen = <<X, W, B>>
  <2>1. b # <<>> => \E W, B, prec, sc, sym : q = Quantized(th, prec, sc, sym, <<X, W, B>>)
    BY DEF quantize_xwb, On
  <2> HIDE DEF q, X
  <2> QED BY <2>1 DEF Quantized
<1> HIDE DEF X, U, q
<1>5. \A W : Kept(cs, <<U, W>>) /\ Kept(cs, <<X, W>>)
  BY <1>1, KeptTwo
<1>6. b # <<>> => \A W, B : Kept(cs, <<X, W, B>>)
  BY <1>1, KeptThree
<1>7. Kept(cs, quantize_xw(x, cs[2], k, th).seen)
  BY <1>2, <1>5
<1>8. Kept(cs, q.seen)
  BY <1>3, <1>4, <1>5, <1>6
<1> QED BY <1>7, <1>8 DEF q

LEMMA IndicesKept ==
  ASSUME NEW cs, 1 \in DOMAIN cs, 2 \in DOMAIN cs, Usable(cs[1]), cs[1].op # "param",
         cs[2].op = "param"
  PROVE  /\ Kept(cs, quantize_embedding(cs[1], cs[2]).seen)
         /\ Kept(cs, scale_embedding(cs[1], cs[2]).seen)
<1> DEFINE x == cs[1]
           X == requant(x, MAX_BIT, Int2Rat(1))
           Y == Requantized(x.sym, x.prec, x.scale)
           U == us_quantize(x, MAX_BIT, Int2Rat(1))
<1>1. Keeps(x, X) /\ Keeps(x, U)
  BY AskedFor, RequantKeeps
<1>2. Keeps(x, Y)
  <2>1. Seen(x)
    BY UsableSeen
  <2>2. PICK t \in Nat : x.th = <<t, 1>>
    BY <2>1 DEF Seen
  <2> QED BY <2>1, <2>2, NotDivided, DividedKeeps
<1>3. \E W : \/ quantize_embedding(x, cs[2]).seen = <<X, W>>
             \/ quantize_embedding(x, cs[2]).seen = <<Y, W>>
  <2>1. \E W, prec, sc, sym : LET e == quantize_embedding(x, cs[2])
                             IN  \/ e = Quantized(cs[2].th, prec, sc, sym, <<X, W>>)
                                 \/ e = Quantized(cs[2].th, prec, sc, sym, <<Y, W>>)
    BY DEF quantize_embedding
  <2> HIDE DEF X, Y
  <2> QED BY <2>1, SeenOf
<1>4. \E W : scale_embedding(x, cs[2]).seen = <<U, W>>
  BY SeenOf DEF scale_embedding
<1> HIDE DEF X, Y, U
<1>5. \A W : Kept(cs, <<X, W>>) /\ Kept(cs, <<Y, W>>) /\ Kept(cs, <<U, W>>)
  BY <1>1, <1>2, KeptTwo
<1> QED BY <1>3, <1>4, <1>5

(* The scale of the larger threshold holds both.                           *)
LEMMA LargestHolds ==
  ASSUME NEW a, NEW b, Usable(a), Usable(b), NEW sc,
         sc = scale(RatMax(a.th, b.th), WidePrec) \/ sc = scale(RatMax(b.th, a.th), WidePrec)
  PROVE  /\ sc \in Wanted
         /\ Holds(sc, WidePrec, a.th[1]) /\ Holds(sc, WidePrec, b.th[1])
<1> DEFINE s == a.th[1]
           t == b.th[1]
<1>1. a.th = <<s, 1>> /\ b.th = <<t, 1>> /\ s \in Nat /\ t \in Nat
      /\ a.th \in Fraction /\ b.th \in Fraction
  BY UsableSeen
<1>2. WidePrec \in Nat /\ WidePrec >= 2
  BY AskedFor
<1> HIDE DEF s, t
<1>3. PICK m \in Nat : s <= m /\ t <= m /\ sc = scale(<<m, 1>>, WidePrec)
  <2>1. \/ RatMax(a.th, b.th) = a.th /\ t <= s
        \/ RatMax(a.th, b.th) = b.th /\ s <= t
    BY <1>1 DEF RatMax, RatLeq
  <2>2. \/ RatMax(b.th, a.th) = a.th /\ t <= s
        \/ RatMax(b.th, a.th) = b.th /\ s <= t
    BY <1>1 DEF RatMax, RatLeq
  <2> QED BY <1>1, <2>1, <2>2
<1>4. <<m, 1>> \in Fraction
  BY OneIsGood DEF Fraction
<1>5. sc \in Wanted
  BY <1>3, <1>4, ScalesPositive
<1>6. Holds(sc, WidePrec, s) /\ Holds(sc, WidePrec, t)
  BY <1>1, <1>2, <1>3, ScaleHolds
<1> QED BY <1>5, <1>6 DEF s, t

LEMMA AddendsKept ==
  ASSUME NEW cs, IsPair(cs), Usable(cs[1]), Usable(cs[2]), NEW kind, NEW th
  PROVE  /\ Kept(cs, quantize_scale(kind, cs, th).seen)
         /\ Kept(cs, scale_inputs(kind, cs, th).seen)
<1> DEFINE a == scale(RatMax(cs[1].th, cs[2].th), WidePrec)
           b == scale(HighestThreshold(cs), WidePrec)
           q == [i \in 1 .. 2 |-> requant(cs[i], WidePrec, a)]
           r == [i \in DOMAIN cs |-> us_quantize(cs[i], WidePrec, b)]
<1>1. quantize_scale(kind, cs, th).seen = q
  <2>1. \E prec, sc, sym : quantize_scale(kind, cs, th) = Quantized(th, prec, sc, sym, q)
    BY ScaledTogether
  <2> HIDE DEF q
  <2> QED BY <2>1, SeenOf
<1>2. scale_inputs(kind, cs, th).seen = r
  BY SeenOf DEF scale_inputs, On
<1>3. b = scale(RatMax(cs[2].th, cs[1].th), WidePrec)
  BY UsableSeen, HighestOfPair
<1>4. /\ a \in Wanted /\ b \in Wanted /\ WidePrec \in Nat /\ WidePrec >= 2
      /\ Holds(a, WidePrec, cs[1].th[1]) /\ Holds(a, WidePrec, cs[2].th[1])
      /\ Holds(b, WidePrec, cs[1].th[1]) /\ Holds(b, WidePrec, cs[2].th[1])
  <2> HIDE DEF b
  <2> QED BY <1>3, LargestHolds, AskedFor
<1> HIDE DEF a, b
<1>5. ASSUME NEW i \in 1 .. 2, cs[i].op # "param"
      PROVE  /\ Keeps(cs[i], requant(cs[i], WidePrec, a))
             /\ Keeps(cs[i], us_quantize(cs[i], WidePrec, b))
  <2>1. i = 1 \/ i = 2
    OBVIOUS
  <2> QED BY <1>4, <1>5, <2>1, RequantKeeps
<1>6. DOMAIN cs = 1 .. 2
  BY DEF IsPair
<1>7. Kept(cs, q) /\ Kept(cs, r)
  BY <1>5, <1>6 DEF Kept
<1> HIDE DEF q, r
<1> QED BY <1>1, <1>2, <1>7

(* Inductive: every node is sampled in integers, and keeps what its inputs *)
(* compute at their thresholds.                                            *)
KeepInv ==
  phase = "quantize" =>
    \A n \in Node :
      /\ Sampled(nodes[n])
      /\ \A i \in DOMAIN nodes[n].args : nodes[n].args[i] \in Node
      /\ Kept(Args(nodes[n].args), nodes[n].seen)

LEMMA NodesUsable ==
  ASSUME QuantInv, ClipInv, KeepInv, phase = "quantize"
  PROVE  \A n \in Node : Usable(nodes[n])
<1>1. \A n \in Node : nodes[n].op # "param" => n \in Operators
  BY DEF Operators
<1> QED BY <1>1, NodesGood DEF KeepInv, ClipInv, Usable

(* The inputs of one operator.                                             *)
Inputs(args) ==
  /\ \A i \in DOMAIN args : args[i] \in Node
  /\ \E x \in Operators :
       \/ args = <<x>>
       \/ \E y \in Node : args = <<x, y>>
       \/ \E w, b \in Params : args = <<x, w, b>>

LEMMA ArgsAreInputs ==
  ASSUME QuantInv, NEW kind \in CountedOps, NEW args,
         args \in ArgsOf(kind) \/ args \in ArgsOfV2(kind)
  PROVE  /\ Inputs(args)
         /\ kind \in {"dense", "embedding"} => args[2] \in Params
         /\ args \notin ArgsOf(kind) => kind = "dense"
         /\ kind \in {"add", "elemwise_add", "Concat", "mul", "embedding"} =>
              \E x \in Operators, y \in Node : args = <<x, y>>
         /\ kind = "dense" => \E x \in Operators, w \in Params :
              args = <<x, w>> \/ \E b \in Params : args = <<x, w, b>>
<1>1. kind # "batch_dot" /\ kind # "add_n"
  BY DEF CountedOps
<1>2. args \in ArgsOf(kind) \/ (kind = "dense" /\ args \in Operators \X Params)
  BY <1>1 DEF ArgsOfV2
<1>3. Operators \subseteq Node /\ Params \subseteq Node
  BY NodesGood
<1>4. CASE kind = "dense"
  <2>1. PICK x \in Operators, w \in Params :
          args = <<x, w>> \/ \E b \in Params : args = <<x, w, b>>
    BY <1>2, <1>4 DEF ArgsOf
  <2>2. \A i \in DOMAIN args : args[i] \in Node
    <3>1. CASE args = <<x, w>>
      <4>1. \A i \in DOMAIN args : i = 1 \/ i = 2
        BY <3>1
      <4> QED BY <3>1, <4>1, <1>3
    <3>2. CASE \E b \in Params : args = <<x, w, b>>
      <4>1. PICK b \in Params : args = <<x, w, b>>
        BY <3>2
      <4>2. \A i \in DOMAIN args : i = 1 \/ i = 2 \/ i = 3
        BY <4>1
      <4> QED BY <4>1, <4>2, <1>3
    <3> QED BY <2>1, <3>1, <3>2
  <2>3. args[2] = w
    BY <2>1
  <2> QED BY <2>1, <2>2, <2>3, <1>3, <1>4 DEF Inputs
<1>5. CASE kind \in {"add", "elemwise_add", "Concat", "mul", "embedding"}
  <2>1. args \in Operators \X Node /\ (kind = "embedding" => args \in Operators \X Params)
    BY <1>2, <1>3, <1>5 DEF ArgsOf
  <2>2. PICK x \in Operators, y \in Node : args = <<x, y>>
    BY <2>1
  <2>3. \A i \in DOMAIN args : i = 1 \/ i = 2
    BY <2>2
  <2>4. \A i \in DOMAIN args : args[i] \in Node
    BY <2>2, <2>3, <1>3
  <2>5. kind = "embedding" => args[2] \in Params
    BY <2>1
  <2> QED BY <2>2, <2>4, <2>5, <1>2, <1>5 DEF Inputs
<1>6. CASE kind \notin {"dense", "add", "elemwise_add", "Concat", "mul", "embedding"}
  <2>1. PICK x \in Operators : args = <<x>>
    BY <1>1, <1>2, <1>6 DEF ArgsOf
  <2>2. \A i \in DOMAIN args : args[i] \in Node
    BY <2>1, <1>3
  <2> QED BY <2>1, <2>2, <1>2, <1>6 DEF Inputs
<1> QED BY <1>4, <1>5, <1>6

LEMMA InputsOf ==
  ASSUME QuantInv, ClipInv, KeepInv, phase = "quantize", NEW args, Inputs(args),
         NEW cs, cs = Args(args)
  PROVE  /\ DOMAIN cs = DOMAIN args /\ \A i \in DOMAIN cs : cs[i] = nodes[args[i]]
         /\ \A i \in DOMAIN cs : Usable(cs[i])
         /\ 1 \in DOMAIN cs /\ cs[1].op # "param"
<1>1. DOMAIN cs = DOMAIN args /\ \A i \in DOMAIN cs : cs[i] = nodes[args[i]]
  BY DEF Args
<1>2. \A i \in DOMAIN cs : Usable(cs[i])
  BY <1>1, NodesUsable DEF Inputs
<1>3. 1 \in DOMAIN args /\ args[1] \in Operators
  BY DEF Inputs
<1> QED BY <1>1, <1>2, <1>3 DEF Operators

LEMMA QuantizeKeeps ==
  ASSUME QuantInv, ClipInv, KeepInv, phase = "quantize", NEW kind \in CountedOps,
         NEW k, NEW th, NEW args \in ArgsOf(kind),
         kind = "add" => \A i \in 1 .. 2 : Args(args)[i].th[1] # 0
  PROVE  Kept(Args(args), Quantize(kind, Args(args), k, th).seen)
<1> DEFINE cs == Args(args)
           q == Quantize(kind, cs, k, th)
<1>0. Inputs(args)
  BY ArgsAreInputs
<1>1. /\ DOMAIN cs = DOMAIN args /\ \A i \in DOMAIN cs : cs[i] = nodes[args[i]]
      /\ \A i \in DOMAIN cs : Usable(cs[i])
      /\ 1 \in DOMAIN cs /\ cs[1].op # "param"
  BY <1>0, InputsOf
<1>2. CASE kind = "dense"
  <2>1. q = quantize_xwb(cs[1], cs[2], SubSeq(cs, 3, Len(cs)), k, th)
    BY <1>2 DEF Quantize
  <2>2. PICK x \in Operators, w \in Params :
          args = <<x, w>> \/ \E b \in Params : args = <<x, w, b>>
    BY <1>2, ArgsAreInputs
  <2>3. 2 \in DOMAIN cs /\ cs[2].op = "param"
    <3>1. 2 \in DOMAIN args /\ args[2] = w
      BY <2>2
    <3> QED BY <3>1, <1>1, NodesGood
  <2>4. SubSeq(cs, 3, Len(cs)) = <<>> \/ (3 \in DOMAIN cs /\ cs[3].op = "param")
    <3>1. CASE args = <<x, w>>
      BY <3>1, PairOfArgs
    <3>2. CASE \E b \in Params : args = <<x, w, b>>
      <4>1. PICK b \in Params : args = <<x, w, b>>
        BY <3>2
      <4>2. 3 \in DOMAIN args /\ args[3] = b
        BY <4>1
      <4> QED BY <4>2, <1>1, NodesGood
    <3> QED BY <2>2, <3>1, <3>2
  <2> HIDE DEF cs, q
  <2>5. Kept(cs, q.seen)
    BY <2>1, <2>3, <2>4, <1>1, ProductsKept
  <2> QED BY <2>5 DEF cs, q
<1>3. CASE kind \in {"add", "elemwise_add", "Concat", "mul", "embedding"}
  <2>1. PICK x \in Operators, y \in Node : args = <<x, y>>
    BY <1>3, ArgsAreInputs
  <2>2. IsPair(cs) /\ 2 \in DOMAIN cs /\ cs[2] = nodes[y]
    BY <2>1, PairOfArgs DEF IsPair
  <2>3. kind = "embedding" => cs[2].op = "param"
    <3>1. kind = "embedding" => y \in Params
      BY <2>1, ArgsAreInputs
    <3> QED BY <3>1, <2>2, NodesGood
  <2>4. \/ q = quantize_scale(kind, cs, th)
        \/ q = quantize_mul(cs, th)
        \/ kind = "embedding" /\ q = quantize_embedding(cs[1], cs[2])
    BY <1>3 DEF Quantize
  <2> HIDE DEF cs, q
  <2>5. Kept(cs, q.seen)
    BY <2>2, <2>3, <2>4, <1>1, AddendsKept, FactorsKept, IndicesKept
  <2> QED BY <2>5 DEF cs, q
<1>4. CASE kind \notin {"dense", "add", "elemwise_add", "Concat", "mul", "embedding"}
  <2>1. \/ q = quantize_sum(cs[1], k, th)
        \/ q = quantize_clip(cs[1], th, th)
        \/ q = quantize_table(cs[1], th)
        \/ q = quantize_softmax(cs[1], k, th)
        \/ q = quantize_default(cs[1], th)
    BY <1>4 DEF Quantize, CountedOps
  <2> HIDE DEF cs, q
  <2>2. Kept(cs, q.seen)
    BY <2>1, <1>1, OneInputKept
  <2> QED BY <2>2 DEF cs, q
<1> QED BY <1>2, <1>3, <1>4

LEMMA QuantizeV2Keeps ==
  ASSUME QuantInv, ClipInv, KeepInv, phase = "quantize", NEW kind \in CountedOps,
         NEW k, NEW th, NEW args \in ArgsOfV2(kind)
  PROVE  Kept(Args(args), QuantizeV2(kind, Args(args), k, th).seen)
<1> DEFINE cs == Args(args)
           q == QuantizeV2(kind, cs, k, th)
<1>0. Inputs(args)
  BY ArgsAreInputs
<1>1. /\ DOMAIN cs = DOMAIN args /\ \A i \in DOMAIN cs : cs[i] = nodes[args[i]]
      /\ \A i \in DOMAIN cs : Usable(cs[i])
      /\ 1 \in DOMAIN cs /\ cs[1].op # "param"
  BY <1>0, InputsOf
<1>2. CASE kind = "dense"
  <2>1. q = quantize_xw(cs[1], cs[2], k, th)
    BY <1>2 DEF QuantizeV2
  <2>2. PICK x \in Operators, w \in Params : args = <<x, w>>
    BY <1>2 DEF ArgsOfV2
  <2>3. 2 \in DOMAIN cs /\ cs[2].op = "param"
    <3>1. 2 \in DOMAIN args /\ args[2] = w
      BY <2>2
    <3> QED BY <3>1, <1>1, NodesGood
  <2> HIDE DEF cs, q
  <2>4. Kept(cs, q.seen)
    BY <2>1, <2>3, <1>1, ProductsKept
  <2> QED BY <2>4 DEF cs, q
<1>3. CASE kind \in {"add", "elemwise_add", "Concat", "mul", "embedding"}
  <2>1. PICK x \in Operators, y \in Node : args = <<x, y>>
    BY <1>3, ArgsAreInputs
  <2>2. IsPair(cs) /\ 2 \in DOMAIN cs /\ cs[2] = nodes[y]
    BY <2>1, PairOfArgs DEF IsPair
  <2>3. kind = "embedding" => cs[2].op = "param"
    <3>1. kind = "embedding" => y \in Params
      BY <2>1, ArgsAreInputs
    <3> QED BY <3>1, <2>2, NodesGood
  <2>4. \/ q.seen = <<>>
        \/ \E any : q = scale_inputs(any, cs, th)
        \/ q = scale_mul(cs, th)
        \/ kind = "embedding" /\ q = scale_embedding(cs[1], cs[2])
    <3>1. kind = "add" => q = scale_broadcast(cs, th)
      BY DEF QuantizeV2
    <3>2. scale_broadcast(cs, th).seen = <<>> \/ scale_broadcast(cs, th) = scale_inputs("add", cs, th)
      <4> HIDE DEF cs
      <4> QED BY SeenOf DEF scale_broadcast
    <3>3. kind # "add" => \/ q = scale_inputs(kind, cs, th)
                          \/ q = scale_mul(cs, th)
                          \/ kind = "embedding" /\ q = scale_embedding(cs[1], cs[2])
      BY <1>3 DEF QuantizeV2
    <3> HIDE DEF cs, q
    <3> QED BY <3>1, <3>2, <3>3
  <2> HIDE DEF cs, q
  <2>5. Kept(cs, q.seen)
    BY <2>2, <2>3, <2>4, <1>1, AddendsKept, FactorsKept, IndicesKept, KeptNone
  <2> QED BY <2>5 DEF cs, q
<1>4. CASE kind \notin {"dense", "add", "elemwise_add", "Concat", "mul", "embedding"}
  <2>1. \/ q = scale_sum(cs[1], k, th)
        \/ q = scale_clip(cs[1], th, th)
        \/ q = scale_table(cs[1], th)
        \/ q = scale_softmax(cs[1], k, th)
        \/ q = scale_default(cs[1], th)
    BY <1>4 DEF QuantizeV2, CountedOps
  <2> HIDE DEF cs, q
  <2>2. Kept(cs, q.seen)
    BY <2>1, <1>1, OneInputKept
  <2> QED BY <2>2 DEF cs, q
<1> QED BY <1>2, <1>3, <1>4

(* The threshold recorded is no less than the one calibrated.              *)
Recorded(q, t) == \E u \in Nat : t <= u /\ u <= get_range(MAX_BIT) /\ q.th = <<u, 1>>

LEMMA LeqIntegers ==
  ASSUME NEW a \in Nat, NEW b \in Nat, RatLeq(Int2Rat(a), <<b, 1>>)
  PROVE  a <= b
BY DEF RatLeq, Int2Rat

(* One side all zeros: what the other holds is the sum.                    *)
LEMMA BroadcastRecords ==
  ASSUME NEW cs, Usable(cs[1]), Usable(cs[2]), NEW k, NEW t \in Nat, t <= get_range(MAX_BIT),
         RatLeq(Int2Rat(t), RealMax("add", cs, k))
  PROVE  Recorded(scale_broadcast(cs, Int2Rat(t)), t)
<1> DEFINE q == scale_broadcast(cs, Int2Rat(t))
<1>1. PICK a \in Nat, c \in Nat : /\ a <= c /\ c <= get_range(MAX_BIT)
                                  /\ cs[1].real = <<a, 1>> /\ cs[1].th = <<c, 1>>
  BY DEF Usable, Sampled
<1>2. PICK b \in Nat, d \in Nat : /\ b <= d /\ d <= get_range(MAX_BIT)
                                  /\ cs[2].real = <<b, 1>> /\ cs[2].th = <<d, 1>>
  BY DEF Usable, Sampled
<1>3. RealMax("add", cs, k) = Rat(a + b, 1)
  <2>1. RealMax("add", cs, k) = Rat(a * 1 + b * 1, 1 * 1)
    BY <1>1, <1>2 DEF RealMax
  <2>2. a * 1 + b * 1 = a + b /\ 1 * 1 = 1
    OBVIOUS
  <2> QED BY <2>1, <2>2
<1>4. t <= a + b
  <2> DEFINE r == Rat(a + b, 1)
             r1 == r[1]
             r2 == r[2]
  <2>1. a + b \in Nat /\ 1 \in Pos
    BY DEF Pos
  <2>2. r1 \in Nat /\ r2 \in Pos /\ r1 * 1 = r2 * (a + b)
    BY <2>1, RatExact
  <2>3. t * r2 <= r1 * 1
    BY <1>3 DEF RatLeq, Int2Rat
  <2> HIDE DEF r1, r2
  <2>4. t * r2 <= (a + b) * r2
    BY <2>1, <2>2, <2>3 DEF Pos
  <2> QED BY <2>1, <2>2, <2>4, Cancelled
<1>5. \/ q.th = <<0, 1>> /\ c = 0 /\ d = 0
      \/ q.th = <<d, 1>> /\ c = 0
      \/ q.th = <<c, 1>> /\ d = 0
      \/ q.th = <<t, 1>>
  <2>1. scale_inputs("add", cs, Int2Rat(t)).th = <<t, 1>>
    BY RecordsThresholdV2 DEF Int2Rat
  <2>0. cs[1].th[1] = c /\ cs[2].th[1] = d
    BY <1>1, <1>2
  <2>2. CASE c = 0 /\ d = 0
    <3>1. q = Quantized(<<0, 1>>, 1, Int2Rat(1), Zeros, <<>>)
      BY <2>0, <2>2 DEF scale_broadcast
    <3> QED BY <2>2, <3>1, ThOf
  <2>3. CASE c = 0 /\ d # 0
    <3>1. \E prec, sc, sym : q = Quantized(cs[2].th, prec, sc, sym, <<>>)
      BY <2>0, <2>3 DEF scale_broadcast
    <3> QED BY <1>2, <2>3, <3>1, ThOf
  <2>4. CASE c # 0 /\ d = 0
    <3>1. \E prec, sc, sym : q = Quantized(cs[1].th, prec, sc, sym, <<>>)
      BY <2>0, <2>4 DEF scale_broadcast
    <3> QED BY <1>1, <2>4, <3>1, ThOf
  <2>5. CASE c # 0 /\ d # 0
    <3>1. q = scale_inputs("add", cs, Int2Rat(t))
      BY <2>0, <2>5 DEF scale_broadcast
    <3> HIDE DEF q
    <3> QED BY <2>1, <3>1
  <2> QED BY <2>2, <2>3, <2>4, <2>5
<1> HIDE DEF q
<1>6. \E u \in {0, c, d, t} : t <= u /\ u <= get_range(MAX_BIT) /\ q.th = <<u, 1>>
  BY <1>1, <1>2, <1>4, <1>5
<1>7. {0, c, d, t} \subseteq Nat
  OBVIOUS
<1>8. Recorded(q, t)
  BY <1>6, <1>7 DEF Recorded
<1> QED BY <1>8 DEF q

(* An embedding records the threshold of its table.                        *)
LEMMA EmbeddingRecords ==
  ASSUME NEW cs, Usable(cs[2]), cs[2].op = "param", NEW k, NEW t \in Nat,
         RatLeq(Int2Rat(t), RealMax("embedding", cs, k))
  PROVE  /\ Recorded(quantize_embedding(cs[1], cs[2]), t)
         /\ Recorded(scale_embedding(cs[1], cs[2]), t)
<1>1. PICK u \in Nat : /\ u <= get_range(MAX_BIT)
                       /\ cs[2].real = <<u, 1>> /\ cs[2].th = <<u, 1>>
  BY DEF Usable, Sampled
<1>2. RealMax("embedding", cs, k) = <<u, 1>>
  BY <1>1 DEF RealMax
<1>3. t <= u
  BY <1>2, LeqIntegers
<1>4. quantize_embedding(cs[1], cs[2]).th = <<u, 1>>
  <2>1. \E prec, sc, sym, ins :
          quantize_embedding(cs[1], cs[2]) = Quantized(cs[2].th, prec, sc, sym, ins)
    BY DEF quantize_embedding
  <2> QED BY <1>1, <2>1, ThOf
<1>5. scale_embedding(cs[1], cs[2]).th = <<u, 1>>
  <2>1. \E prec, sc, sym, ins :
          scale_embedding(cs[1], cs[2]) = Quantized(cs[2].th, prec, sc, sym, ins)
    BY DEF scale_embedding
  <2> QED BY <1>1, <2>1, ThOf
<1> QED BY <1>1, <1>3, <1>4, <1>5 DEF Recorded

LEMMA CalibratedRecords ==
  ASSUME NEW t \in Nat, t <= get_range(MAX_BIT), NEW q, q.th = Int2Rat(t)
  PROVE  Recorded(q, t)
BY DEF Recorded, Int2Rat

LEMMA ThresholdRecorded ==
  ASSUME QuantInv, ClipInv, KeepInv, phase = "quantize", NEW kind \in CountedOps,
         NEW k, NEW t \in Nat, t <= get_range(MAX_BIT), NEW args \in ArgsOf(kind),
         RatLeq(Int2Rat(t), RealMax(kind, Args(args), k)),
         kind = "add" => \A i \in 1 .. 2 : Args(args)[i].th[1] # 0
  PROVE  Recorded(Quantize(kind, Args(args), k, Int2Rat(t)), t)
<1> DEFINE cs == Args(args)
<1>1. CASE kind = "embedding"
  <2>1. PICK x \in Operators, y \in Node : args = <<x, y>>
    BY <1>1, ArgsAreInputs
  <2>2. y \in Params
    BY <1>1, <2>1, ArgsAreInputs
  <2>3. cs[2] = nodes[y]
    BY <2>1, PairOfArgs
  <2>4. Usable(cs[2]) /\ cs[2].op = "param"
    BY <2>2, <2>3, NodesUsable, NodesGood
  <2>5. Quantize(kind, cs, k, Int2Rat(t)) = quantize_embedding(cs[1], cs[2])
    BY <1>1 DEF Quantize
  <2>6. RatLeq(Int2Rat(t), RealMax("embedding", cs, k))
    BY <1>1
  <2> HIDE DEF cs
  <2>7. Recorded(quantize_embedding(cs[1], cs[2]), t)
    BY <2>4, <2>6, EmbeddingRecords
  <2> QED BY <2>5, <2>7 DEF cs
<1>2. CASE kind # "embedding"
  BY <1>2, QuantizeRecords, CalibratedRecords
<1> QED BY <1>1, <1>2

LEMMA ThresholdRecordedV2 ==
  ASSUME QuantInv, ClipInv, KeepInv, phase = "quantize", NEW kind \in CountedOps,
         NEW k, NEW t \in Nat, t <= get_range(MAX_BIT), NEW args \in ArgsOfV2(kind),
         RatLeq(Int2Rat(t), RealMaxV2(kind, Args(args), k))
  PROVE  Recorded(QuantizeV2(kind, Args(args), k, Int2Rat(t)), t)
<1> DEFINE cs == Args(args)
<1>0. RatLeq(Int2Rat(t), RealMax(kind, cs, k))
  BY DEF RealMaxV2, CountedOps
<1>1. CASE kind \in {"embedding", "add"}
  <2>1. PICK x \in Operators, y \in Node : args = <<x, y>>
    BY <1>1, ArgsAreInputs
  <2>2. kind = "embedding" => y \in Params
    BY <2>1, ArgsAreInputs
  <2>3. cs[1] = nodes[x] /\ cs[2] = nodes[y]
    BY <2>1, PairOfArgs
  <2>4. Usable(cs[1]) /\ Usable(cs[2]) /\ (kind = "embedding" => cs[2].op = "param")
    BY <2>2, <2>3, NodesUsable, NodesGood
  <2>5. /\ kind = "embedding" => QuantizeV2(kind, cs, k, Int2Rat(t)) = scale_embedding(cs[1], cs[2])
        /\ kind = "add" => QuantizeV2(kind, cs, k, Int2Rat(t)) = scale_broadcast(cs, Int2Rat(t))
    BY <1>1 DEF QuantizeV2
  <2> HIDE DEF cs
  <2>6. kind = "embedding" => Recorded(scale_embedding(cs[1], cs[2]), t)
    BY <1>0, <2>4, EmbeddingRecords
  <2>7. kind = "add" => Recorded(scale_broadcast(cs, Int2Rat(t)), t)
    BY <1>0, <2>4, BroadcastRecords
  <2> QED BY <1>1, <2>5, <2>6, <2>7 DEF cs
<1>2. CASE kind \notin {"embedding", "add"}
  BY <1>2, QuantizeV2Records, CalibratedRecords
<1> QED BY <1>1, <1>2

-----------------------------------------------------------------------------
(* Every step keeps the invariant.                                         *)
LEMMA TightenedKeepsSeen ==
  ASSUME NEW q, GoodQuantized(q)
  PROVE  Tightened(q).th = q.th /\ Tightened(q).seen = q.seen
<1>1. q = [th |-> q.th, prec |-> q.prec, scale |-> q.scale, sym |-> q.sym,
           seen |-> q.seen]
  BY DEF GoodQuantized, Quantized
<1>2. \A bits, Y : /\ [q EXCEPT !.prec = bits, !.sym = Y].th = q.th
                   /\ [q EXCEPT !.prec = bits, !.sym = Y].seen = q.seen
  BY <1>1
<1> QED BY <1>2 DEF Tightened

LEMMA RecordSampled ==
  ASSUME NEW kind \in CountedOps, NEW args, NEW q, GoodQuantized(q),
         NEW t \in Nat, Recorded(q, t), NEW free
  PROVE  LET r == Record(kind, args, Tightened(q), Int2Rat(t), free)
         IN  Sampled(r) /\ r.args = args /\ r.seen = q.seen
<1> DEFINE r == Record(kind, args, Tightened(q), Int2Rat(t), free)
<1>1. r.op = kind /\ r.args = args /\ r.real = <<t, 1>> /\ r.th = q.th /\ r.seen = q.seen
  BY RecordParts, TightenedKeepsSeen DEF Int2Rat
<1> HIDE DEF r
<1>2. r.op # "param"
  BY <1>1 DEF CountedOps
<1>3. Sampled(r)
  BY <1>1, <1>2 DEF Recorded, Sampled
<1> QED BY <1>1, <1>3 DEF r

LEMMA AppendKeepsKept ==
  ASSUME QuantInv, KeepInv, phase = "quantize", NEW r, nodes' = Append(nodes, r),
         UNCHANGED phase, Sampled(r), Inputs(r.args), Kept(Args(r.args), r.seen)
  PROVE  KeepInv'
<1> DEFINE S == {nodes[n] : n \in DOMAIN nodes} \cup {r}
           m == Len(nodes) + 1
<1>1. nodes \in Seq(S) /\ r \in S /\ m - 1 \in Nat /\ DOMAIN nodes = 1 .. m - 1
  BY DEF QuantInv
<1> HIDE DEF S
<1>2. /\ nodes' \in Seq(S) /\ Len(nodes') = m
      /\ \A i \in 1 .. m - 1 : nodes'[i] = nodes[i]
      /\ nodes'[m] = r
  BY <1>1, AppendProperties
<1>3. Node = 1 .. m - 1 /\ Node' = 1 .. m
  BY <1>1, <1>2 DEF Node
<1>4. Node \subseteq Node' /\ \A n \in Node' : n = m \/ n \in Node
  BY <1>1, <1>3
<1>5. \A n \in Node : nodes'[n] = nodes[n]
  BY <1>2, <1>3
<1>6. ASSUME NEW args, \A i \in DOMAIN args : args[i] \in Node
      PROVE  [i \in DOMAIN args |-> nodes'[args[i]]] = Args(args)
  BY <1>5, <1>6 DEF Args
<1>7. ASSUME NEW n \in Node'
      PROVE  /\ Sampled(nodes'[n])
             /\ \A i \in DOMAIN nodes'[n].args : nodes'[n].args[i] \in Node
             /\ Kept(Args(nodes'[n].args), nodes'[n].seen)
  <2>1. CASE n = m
    BY <2>1, <1>2 DEF Inputs
  <2>2. CASE n \in Node
    BY <2>2, <1>5 DEF KeepInv
  <2> QED BY <1>4, <2>1, <2>2
<1>8. \A n \in Node' :
        /\ Sampled(nodes'[n])
        /\ \A i \in DOMAIN nodes'[n].args : nodes'[n].args[i] \in Node'
        /\ Kept([i \in DOMAIN nodes'[n].args |-> nodes'[nodes'[n].args[i]]], nodes'[n].seen)
  BY <1>4, <1>6, <1>7
<1>9. KeepInv' = (phase' = "quantize" => \A n \in Node' :
        /\ Sampled(nodes'[n])
        /\ \A i \in DOMAIN nodes'[n].args : nodes'[n].args[i] \in Node'
        /\ Kept([i \in DOMAIN nodes'[n].args |-> nodes'[nodes'[n].args[i]]], nodes'[n].seen))
  BY DEF KeepInv, Args, Sampled, Kept, Keeps
<1> QED BY <1>8, <1>9

(* What calibration saw fits the word of the virtual machine.              *)
ThresholdsFit == \A t \in Thresholds \cup LeafThresholds : t <= get_range(MAX_BIT)

LEMMA NextKeepsKept ==
  ASSUME QuantInv, ClipInv, KeepInv, Ops \subseteq CountedOps, ~ZeroAdds, ThresholdsFit,
         QuantizeNext \/ QuantizeNextV2
  PROVE  KeepInv'
<1>0. phase = "quantize" /\ UNCHANGED phase
  BY DEF QuantizeNext, QuantizeNextV2
<1>1. CASE QuantizeNext
  <2>1. PICK kind \in Ops, k \in Terms, t \in Thresholds : \E args \in ArgsOf(kind) :
          /\ RatLeq(Int2Rat(t), RealMax(kind, Args(args), k))
          /\ kind = "add" /\ ~ZeroAdds => \A i \in 1 .. 2 : Args(args)[i].th[1] # 0
          /\ \E q \in {Quantize(kind, Args(args), k, Int2Rat(t))} :
               nodes' = Append(nodes, Record(kind, args, Tightened(q), Int2Rat(t), q.sym.bound))
    BY <1>1 DEF QuantizeNext, Args
  <2>2. PICK args \in ArgsOf(kind) :
          /\ RatLeq(Int2Rat(t), RealMax(kind, Args(args), k))
          /\ kind = "add" => \A i \in 1 .. 2 : Args(args)[i].th[1] # 0
          /\ LET q == Quantize(kind, Args(args), k, Int2Rat(t))
             IN  nodes' = Append(nodes,
                            Record(kind, args, Tightened(q), Int2Rat(t), q.sym.bound))
    BY <2>1
  <2> DEFINE q == Quantize(kind, Args(args), k, Int2Rat(t))
             r == Record(kind, args, Tightened(q), Int2Rat(t), q.sym.bound)
  <2>3. /\ kind \in CountedOps /\ k \in Nat \ {0} /\ Int2Rat(t) \in Fraction
        /\ t \in Nat /\ t <= get_range(MAX_BIT)
    BY SamplesAssumption, ThresholdsAreFractions DEF ThresholdsFit
  <2>4. GoodQuantized(q) /\ Recorded(q, t) /\ Kept(Args(args), q.seen) /\ Inputs(args)
    BY <1>0, <2>2, <2>3, QuantizeGood, ThresholdRecorded, QuantizeKeeps, ArgsAreInputs
  <2>5. Sampled(r) /\ r.args = args /\ r.seen = q.seen
    <3> HIDE DEF q
    <3> QED BY <2>3, <2>4, RecordSampled
  <2>6. nodes' = Append(nodes, r)
    BY <2>2
  <2> HIDE DEF q, r
  <2> QED BY <1>0, <2>4, <2>5, <2>6, AppendKeepsKept
<1>2. CASE QuantizeNextV2
  <2>1. PICK kind \in Ops, k \in Terms, t \in Thresholds : \E args \in ArgsOfV2(kind) :
          /\ RatLeq(Int2Rat(t), RealMaxV2(kind, Args(args), k))
          /\ \E q \in {QuantizeV2(kind, Args(args), k, Int2Rat(t))} :
               nodes' = Append(nodes, Record(kind, args, Tightened(q), Int2Rat(t), q.sym.bound))
    BY <1>2 DEF QuantizeNextV2, Args
  <2>2. PICK args \in ArgsOfV2(kind) :
          /\ RatLeq(Int2Rat(t), RealMaxV2(kind, Args(args), k))
          /\ LET q == QuantizeV2(kind, Args(args), k, Int2Rat(t))
             IN  nodes' = Append(nodes,
                            Record(kind, args, Tightened(q), Int2Rat(t), q.sym.bound))
    BY <2>1
  <2> DEFINE q == QuantizeV2(kind, Args(args), k, Int2Rat(t))
             r == Record(kind, args, Tightened(q), Int2Rat(t), q.sym.bound)
  <2>3. /\ kind \in CountedOps /\ k \in Nat \ {0} /\ Int2Rat(t) \in Fraction
        /\ t \in Nat /\ t <= get_range(MAX_BIT)
    BY SamplesAssumption, ThresholdsAreFractions DEF ThresholdsFit
  <2>4. GoodQuantized(q) /\ Recorded(q, t) /\ Kept(Args(args), q.seen) /\ Inputs(args)
    BY <1>0, <2>2, <2>3, QuantizeV2Good, ThresholdRecordedV2, QuantizeV2Keeps, ArgsAreInputs
  <2>5. Sampled(r) /\ r.args = args /\ r.seen = q.seen
    <3> HIDE DEF q
    <3> QED BY <2>3, <2>4, RecordSampled
  <2>6. nodes' = Append(nodes, r)
    BY <2>2
  <2> HIDE DEF q, r
  <2> QED BY <1>0, <2>4, <2>5, <2>6, AppendKeepsKept
<1> QED BY <1>1, <1>2

LEMMA InitKeepsKept == ASSUME Init, ThresholdsFit PROVE KeepInv
<1>1. PICK x \in LeafThresholds \ {0}, w \in LeafThresholds :
        nodes = << Record("data", <<>>, quantize_null(Int2Rat(x)), Int2Rat(x),
                          get_range(InputPrec)),
                   Record("param", <<>>, Quantized(Int2Rat(w), 0, AnyScale,
                                           Zeros, <<>>), Int2Rat(w), 0) >>
  BY DEF Init
<1> DEFINE q == quantize_null(Int2Rat(x))
           z == Quantized(Int2Rat(w), 0, AnyScale, Zeros, <<>>)
           d == Record("data", <<>>, q, Int2Rat(x), get_range(InputPrec))
           p == Record("param", <<>>, z, Int2Rat(w), 0)
<1>2. /\ x \in Nat /\ x <= get_range(MAX_BIT)
      /\ w \in Nat /\ w <= get_range(MAX_BIT)
  BY SamplesAssumption DEF ThresholdsFit
<1>3. q.th = <<x, 1>> /\ q.seen = <<>> /\ z.th = <<w, 1>> /\ z.seen = <<>>
  <2>1. Int2Rat(x) = <<x, 1>> /\ Int2Rat(w) = <<w, 1>>
    BY DEF Int2Rat
  <2>2. q.th = Int2Rat(x) /\ q.seen = <<>>
    BY ThOf, SeenOf DEF quantize_null
  <2>3. z.th = Int2Rat(w) /\ z.seen = <<>>
    BY ThOf, SeenOf
  <2> QED BY <2>1, <2>2, <2>3
<1> HIDE DEF q, z
<1>4. /\ d.real = <<x, 1>> /\ d.th = <<x, 1>> /\ d.args = <<>> /\ d.seen = <<>>
      /\ p.real = <<w, 1>> /\ p.th = <<w, 1>> /\ p.args = <<>> /\ p.seen = <<>>
  <2>1. d.real = Int2Rat(x) /\ d.th = q.th /\ d.args = <<>> /\ d.seen = q.seen
    BY RecordParts
  <2>2. p.real = Int2Rat(w) /\ p.th = z.th /\ p.args = <<>> /\ p.seen = z.seen
    BY RecordParts
  <2> HIDE DEF d, p
  <2> QED BY <1>3, <2>1, <2>2 DEF Int2Rat
<1> HIDE DEF d, p
<1>5. Sampled(d) /\ Sampled(p)
  BY <1>2, <1>4 DEF Sampled
<1>6. nodes = <<d, p>>
  BY <1>1 DEF d, p, q, z
<1>7. \A n \in Node : nodes[n] = d \/ nodes[n] = p
  <2>1. Node = 1 .. 2 /\ nodes[1] = d /\ nodes[2] = p
    BY <1>6 DEF Node
  <2>2. \A n \in 1 .. 2 : n = 1 \/ n = 2
    OBVIOUS
  <2> QED BY <2>1, <2>2
<1>8. \A cs : Kept(cs, <<>>)
  BY KeptNone
<1>9. \A n \in Node : Sampled(nodes[n]) /\ nodes[n].args = <<>> /\ nodes[n].seen = <<>>
  BY <1>4, <1>5, <1>7
<1> QED BY <1>8, <1>9 DEF KeepInv

LEMMA KeptInputsKeep ==
  ASSUME KeepInv
  PROVE  InputsKeepThreshold
<1> SUFFICES ASSUME phase = "quantize", NEW n \in Operators, NEW i \in DOMAIN nodes[n].seen,
                    nodes[nodes[n].args[i]].op # "param"
             PROVE  Keeps(nodes[nodes[n].args[i]], nodes[n].seen[i])
  BY DEF InputsKeepThreshold
<1>1. n \in Node
  BY DEF Operators
<1>2. Kept(Args(nodes[n].args), nodes[n].seen)
  BY <1>1 DEF KeepInv
<1>3. i \in DOMAIN nodes[n].args /\ Args(nodes[n].args)[i] = nodes[nodes[n].args[i]]
  BY <1>2 DEF Kept, Args
<1> QED BY <1>2, <1>3 DEF Kept

(* Nothing that calibration saw is cut off by a requantisation, of either  *)
(* generation: what an input computes at its threshold comes out at the    *)
(* scale told for it, but for two units or the error of the mantissa.      *)
THEOREM InputsKeep ==
  ASSUME Ops \subseteq CountedOps, ~ZeroAdds, ThresholdsFit
  PROVE  SpecAny => []InputsKeepThreshold
<1>1. InitAny => ClipInv /\ KeepInv
  BY InitKeepsClip, InitKeepsKept DEF InitAny
<1>2. QuantInv /\ ClipInv /\ KeepInv /\ [NextAny]_<<vars, generation>> => ClipInv' /\ KeepInv'
  <2>1. CASE QuantInv /\ ClipInv /\ KeepInv /\ (QuantizeNext \/ QuantizeNextV2)
    BY <2>1, NextKeepsClip, NextKeepsKept
  <2>2. CASE QuantizeOutputs \/ QuantizeOutputsV2
    BY <2>2 DEF QuantizeOutputs, QuantizeOutputsV2, ClipInv, KeepInv
  <2>3. CASE ClipInv /\ KeepInv /\ UNCHANGED vars
    BY <2>3 DEF ClipInv, KeepInv, vars, Operators, Node, Args
  <2> QED BY <2>1, <2>2, <2>3 DEF NextAny, Next, NextV2, Done
<1>3. KeepInv => InputsKeepThreshold
  BY KeptInputsKeep
<1>4. SpecAny => []QuantInv
  BY QuantInvariance
<1> QED BY <1>1, <1>2, <1>3, <1>4, PTL DEF SpecAny
=============================================================================
