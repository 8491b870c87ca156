-------------------------- MODULE MemoryPlanProofs --------------------------
(***************************************************************************)
(* Facts about sums, graphs, their uses and decorated plans that the       *)
(* proofs about the planner, the compiler and the executor share.          *)
(***************************************************************************)
EXTENDS MemoryPlan, Functions, FiniteSetTheorems, WellFoundedInduction, TLAPS

-----------------------------------------------------------------------------
(* Sums over finite sets.  The library's induction theorems take an        *)
(* operator, so inductions here are on the least number that a property,   *)
(* given as a set, does not hold of.                                       *)

(* Every set of numbers has a least one.                                   *)
LEMMA LeastNumber ==
  ASSUME NEW T, T \subseteq Nat, T # {}
  PROVE  \E m \in T : \A k \in T : m <= k
<1> DEFINE R == {p \in Nat \X Nat : p[1] < p[2]}
<1>1. IsWellFoundedOn(R, Nat)
  BY NatLessThanWellFounded DEF OpToRel
<1>2. \E x \in T : \A y \in T : ~ (<<y, x>> \in R)
  <2> HIDE DEF R
  <2> QED BY <1>1, WFMin
<1>3. PICK x \in T : \A y \in T : ~ (<<y, x>> \in R)
  BY <1>2
<1>4. ASSUME NEW y \in T PROVE x <= y
  <2>1. <<y, x>> \in Nat \X Nat /\ ~(<<y, x>> \in R)
    BY <1>3
  <2> QED BY <2>1
<1> QED BY <1>4

(* What holds of zero and is passed on to the next number holds of all.    *)
LEMMA AllNumbers ==
  ASSUME NEW P, 0 \in P, \A n \in Nat : n \in P => n + 1 \in P
  PROVE  Nat \subseteq P
<1>1. SUFFICES ASSUME Nat \ P # {} PROVE FALSE
  OBVIOUS
<1>2. PICK m \in Nat \ P : \A k \in Nat \ P : m <= k
  BY <1>1, LeastNumber
<1>3. m # 0 /\ m - 1 \in Nat
  BY <1>2
<1>4. m - 1 \in P
  BY <1>2, <1>3
<1> QED BY <1>3, <1>4

(* What holds of the empty set and is kept when an element is added holds  *)
(* of every subset of a finite set.                                        *)
LEMMA AllSubsets ==
  ASSUME NEW S, IsFiniteSet(S), NEW P, {} \in P,
         \A A \in SUBSET S, x \in S : A \in P /\ x \notin A => A \cup {x} \in P
  PROVE  SUBSET S \subseteq P
<1> DEFINE Q == {n \in Nat : \A A \in SUBSET S : Cardinality(A) = n => A \in P}
<1>1. \A A \in SUBSET S : IsFiniteSet(A) /\ Cardinality(A) \in Nat
  BY FS_Subset, FS_CardinalityType
<1>2. 0 \in Q
  <2>1. \A A \in SUBSET S : Cardinality(A) = 0 => A = {}
    BY <1>1, FS_EmptySet
  <2> QED BY <2>1
<1>3. ASSUME NEW n \in Nat, n \in Q PROVE n + 1 \in Q
  <2>1. ASSUME NEW A \in SUBSET S, Cardinality(A) = n + 1 PROVE A \in P
    <3>1. A # {}
      BY <2>1, FS_EmptySet
    <3>2. PICK x \in A : TRUE
      BY <3>1
    <3>3. Cardinality(A \ {x}) = n
      <4>1. IsFiniteSet(A) /\ x \in A
        BY <1>1, <3>2
      <4>2. Cardinality(A \ {x}) = Cardinality(A) - 1
        BY <4>1, FS_RemoveElement
      <4> QED BY <2>1, <4>2
    <3>4. A \ {x} \in P /\ A \ {x} \in SUBSET S /\ x \in S /\ x \notin A \ {x}
      BY <1>3, <3>3
    <3>5. (A \ {x}) \cup {x} = A
      BY <3>2
    <3>6. (A \ {x}) \cup {x} \in P
      BY <3>4
    <3> QED BY <3>5, <3>6
  <2> QED BY <2>1
<1>4. Nat \subseteq Q
  <2> HIDE DEF Q
  <2> QED BY <1>2, <1>3, AllNumbers
<1> QED BY <1>1, <1>4

(* t gives the sum of f over every subset of S.                            *)
Totals(t, f, S) ==
  /\ t \in [SUBSET S -> Int]
  /\ t[{}] = 0
  /\ \A A \in SUBSET S, x \in S : x \notin A => t[A \cup {x}] = t[A] + f[x]

LEMMA TotalsExist ==
  ASSUME NEW S, IsFiniteSet(S), NEW f, \A x \in S : f[x] \in Int
  PROVE  \E t : Totals(t, f, S)
<1> DEFINE P == {B \in SUBSET S : \E t : Totals(t, f, B)}
<1>1. {} \in P
  <2>1. Totals([A \in SUBSET {} |-> 0], f, {})
    BY DEF Totals
  <2> QED BY <2>1
<1>2. ASSUME NEW B \in SUBSET S, NEW x \in S, B \in P, x \notin B PROVE B \cup {x} \in P
  <2>1. PICK t : Totals(t, f, B)
    BY <1>2
  <2> DEFINE C == B \cup {x}
             u == [A \in SUBSET C |-> IF x \in A THEN t[A \ {x}] + f[x] ELSE t[A]]
  <2>2. \A A \in SUBSET C : A \ {x} \in SUBSET B /\ (x \notin A => A \in SUBSET B)
    BY <1>2
  <2>3. u \in [SUBSET C -> Int]
    BY <2>1, <2>2 DEF Totals
  <2>4. u[{}] = 0
    BY <2>1 DEF Totals
  <2>5. ASSUME NEW A \in SUBSET C, NEW y \in C, y \notin A
        PROVE  u[A \cup {y}] = u[A] + f[y]
    <3>0. /\ A \cup {y} \in SUBSET C
          /\ u[A \cup {y}] = (IF x \in A \cup {y} THEN t[(A \cup {y}) \ {x}] + f[x]
                              ELSE t[A \cup {y}])
          /\ u[A] = (IF x \in A THEN t[A \ {x}] + f[x] ELSE t[A])
      BY <2>5
    <3>1. CASE y = x
      <4>1. (A \cup {y}) \ {x} = A /\ x \notin A /\ x \in A \cup {y}
        BY <2>5, <3>1
      <4> QED BY <3>0, <3>1, <4>1
    <3>2. CASE y # x /\ x \in A
      <4>1. /\ (A \cup {y}) \ {x} = (A \ {x}) \cup {y}
            /\ x \in A \cup {y} /\ y \in B /\ y \notin A \ {x}
        BY <2>5, <3>2
      <4>2. t[(A \ {x}) \cup {y}] = t[A \ {x}] + f[y]
        BY <2>1, <2>2, <4>1 DEF Totals
      <4>3. f[y] \in Int /\ f[x] \in Int
        BY <1>2, <4>1
      <4>4. t[A \ {x}] \in Int
        BY <2>1, <2>2 DEF Totals
      <4>5. x # y /\ x \in A
        BY <3>2
      <4>6. u[A \cup {y}] = t[(A \ {x}) \cup {y}] + f[x]
        BY <3>0, <4>1
      <4>7. u[A] = t[A \ {x}] + f[x]
        BY <3>0, <4>5
      <4> HIDE DEF u, C
      <4> QED BY <4>2, <4>3, <4>4, <4>6, <4>7
    <3>3. CASE y # x /\ x \notin A
      <4>1. x \notin A \cup {y} /\ y \in B /\ A \in SUBSET B
        BY <2>5, <3>3
      <4>2. t[A \cup {y}] = t[A] + f[y]
        BY <2>1, <2>5, <4>1 DEF Totals
      <4> QED BY <3>0, <3>3, <4>1, <4>2
    <3> QED BY <3>1, <3>2, <3>3
  <2>6. Totals(u, f, C)
    <3> HIDE DEF u, C
    <3> QED BY <2>3, <2>4, <2>5 DEF Totals
  <2> QED BY <1>2, <2>6
<1>3. SUBSET S \subseteq P
  <2> HIDE DEF P
  <2> QED BY <1>1, <1>2, AllSubsets
<1> QED BY <1>3

(* The recursion of a fold has one solution, which gives the sums.         *)
Iterates(h, f, S) ==
  h = [A \in SUBSET S |-> IF A = {} THEN 0
                          ELSE f[CHOOSE x \in A : TRUE] + h[A \ {CHOOSE x \in A : TRUE}]]

LEMMA TotalsIterate ==
  ASSUME NEW S, IsFiniteSet(S), NEW f, \A x \in S : f[x] \in Int,
         NEW t, Totals(t, f, S)
  PROVE  /\ Iterates(t, f, S)
         /\ \A h : Iterates(h, f, S) => h = t
<1>1. ASSUME NEW A \in SUBSET S, A # {}
      PROVE  LET x == CHOOSE x \in A : TRUE
             IN  /\ x \in A /\ A \ {x} \in SUBSET S
                 /\ t[A] = f[x] + t[A \ {x}]
  <2> DEFINE x == CHOOSE x \in A : TRUE
  <2>1. x \in A
    BY <1>1
  <2>2. A \ {x} \in SUBSET S /\ x \notin A \ {x} /\ (A \ {x}) \cup {x} = A /\ x \in S
    BY <2>1
  <2> HIDE DEF x
  <2>3. t[(A \ {x}) \cup {x}] = t[A \ {x}] + f[x]
    BY <2>2 DEF Totals
  <2>4. t[A \ {x}] \in Int
    BY <2>2 DEF Totals
  <2>5. f[x] \in Int
    BY <2>2
  <2>6. t[A] = t[(A \ {x}) \cup {x}]
    BY <2>2
  <2>7. t[A] = t[A \ {x}] + f[x]
    BY <2>3, <2>6
  <2>8. t[A] = f[x] + t[A \ {x}]
    BY <2>4, <2>5, <2>7
  <2> QED BY <2>1, <2>2, <2>8 DEF x
<1>2. Iterates(t, f, S)
  BY <1>1 DEF Iterates, Totals
<1>3. ASSUME NEW h, Iterates(h, f, S) PROVE h = t
  <2> DEFINE P == {A \in SUBSET S : h[A] = t[A]}
             Q == {n \in Nat : \A A \in SUBSET S : Cardinality(A) = n => A \in P}
  <2>0. \A A \in SUBSET S : IsFiniteSet(A) /\ Cardinality(A) \in Nat
    BY FS_Subset, FS_CardinalityType
  <2>1. {} \in P
    BY <1>3 DEF Iterates, Totals
  <2>2. 0 \in Q
    <3>1. \A A \in SUBSET S : Cardinality(A) = 0 => A = {}
      BY <2>0, FS_EmptySet
    <3> QED BY <2>1, <3>1
  <2>3. ASSUME NEW n \in Nat, n \in Q PROVE n + 1 \in Q
    <3>1. ASSUME NEW A \in SUBSET S, Cardinality(A) = n + 1 PROVE A \in P
      <4> DEFINE x == CHOOSE x \in A : TRUE
      <4>1. A # {}
        BY <3>1, FS_EmptySet
      <4>2. x \in A /\ A \ {x} \in SUBSET S /\ t[A] = f[x] + t[A \ {x}]
        BY <1>1, <4>1
      <4>3. h[A] = f[x] + h[A \ {x}]
        BY <1>3, <4>1 DEF Iterates
      <4>4. Cardinality(A \ {x}) = n
        <5> HIDE DEF x
        <5> QED BY <2>0, <3>1, <4>2, FS_RemoveElement
      <4>5. h[A \ {x}] = t[A \ {x}]
        BY <2>3, <4>2, <4>4
      <4> QED BY <4>2, <4>3, <4>5
    <3> QED BY <3>1
  <2>4. Nat \subseteq Q
    <3> HIDE DEF Q
    <3> QED BY <2>2, <2>3, AllNumbers
  <2>5. \A A \in SUBSET S : h[A] = t[A]
    BY <2>0, <2>4
  <2>6. h = [A \in SUBSET S |-> h[A]] /\ t = [A \in SUBSET S |-> t[A]]
    BY <1>3 DEF Iterates, Totals
  <2> QED BY <2>5, <2>6
<1> QED BY <1>2, <1>3

LEMMA SumIsTotal ==
  ASSUME NEW S, IsFiniteSet(S), NEW f, \A x \in S : f[x] \in Int,
         NEW t, Totals(t, f, S)
  PROVE  SumFunctionOnSet(f, S) = t[S]
<1>1. Iterates(t, f, S) /\ \A h : Iterates(h, f, S) => h = t
  BY TotalsIterate
<1> QED BY <1>1 DEF SumFunctionOnSet, FoldFunctionOnSet, MapThenFoldSet, Iterates

(* Totals of a set are those of its subsets.                               *)
LEMMA TotalsOfPart ==
  ASSUME NEW S, NEW f, NEW t, Totals(t, f, S), NEW A \in SUBSET S
  PROVE  Totals([B \in SUBSET A |-> t[B]], f, A)
<1> DEFINE u == [B \in SUBSET A |-> t[B]]
<1>1. \A B \in SUBSET A : B \in SUBSET S /\ u[B] = t[B]
  OBVIOUS
<1>2. u \in [SUBSET A -> Int]
  BY <1>1 DEF Totals
<1>3. u[{}] = 0
  BY <1>1 DEF Totals
<1>4. ASSUME NEW B \in SUBSET A, NEW x \in A, x \notin B
      PROVE  u[B \cup {x}] = u[B] + f[x]
  <2>1. B \cup {x} \in SUBSET A /\ x \in S
    BY <1>4
  <2>2. t[B \cup {x}] = t[B] + f[x]
    BY <1>1, <1>4, <2>1 DEF Totals
  <2> QED BY <1>1, <2>1, <2>2
<1> HIDE DEF u
<1> QED BY <1>2, <1>3, <1>4 DEF Totals, u

(* The facts about sums that the proofs use.                               *)
LEMMA SumFacts ==
  ASSUME NEW S, IsFiniteSet(S), NEW f, \A x \in S : f[x] \in Int
  PROVE  /\ SumFunctionOnSet(f, S) \in Int
         /\ \A x \in S : SumFunctionOnSet(f, S) = SumFunctionOnSet(f, S \ {x}) + f[x]
         /\ S = {} => SumFunctionOnSet(f, S) = 0
<1>1. PICK t : Totals(t, f, S)
  BY TotalsExist
<1>2. \A A \in SUBSET S : SumFunctionOnSet(f, A) = t[A]
  <2> TAKE A \in SUBSET S
  <2> DEFINE u == [B \in SUBSET A |-> t[B]]
  <2>1. Totals(u, f, A)
    BY <1>1, TotalsOfPart
  <2>2. IsFiniteSet(A) /\ \A x \in A : f[x] \in Int
    BY FS_Subset
  <2>3. u[A] = t[A]
    OBVIOUS
  <2> HIDE DEF u
  <2>4. SumFunctionOnSet(f, A) = u[A]
    BY <2>1, <2>2, SumIsTotal
  <2> QED BY <2>3, <2>4
<1>3. SumFunctionOnSet(f, S) = t[S] /\ t[S] \in Int /\ (S = {} => t[S] = 0)
  BY <1>1, <1>2 DEF Totals
<1>4. ASSUME NEW x \in S PROVE SumFunctionOnSet(f, S) = SumFunctionOnSet(f, S \ {x}) + f[x]
  <2> DEFINE A == S \ {x}
  <2>1. A \in SUBSET S /\ x \notin A /\ A \cup {x} = S
    OBVIOUS
  <2> HIDE DEF A
  <2>2. t[A \cup {x}] = t[A] + f[x]
    BY <1>1, <2>1 DEF Totals
  <2>3. t[A \cup {x}] = t[S]
    BY <2>1
  <2>4. SumFunctionOnSet(f, A) = t[A]
    BY <1>2, <2>1
  <2>5. SumFunctionOnSet(f, S) = SumFunctionOnSet(f, A) + f[x]
    BY <1>3, <2>2, <2>3, <2>4
  <2> QED BY <2>5 DEF A
<1> QED BY <1>3, <1>4

LEMMA SumAdded ==
  ASSUME NEW S, IsFiniteSet(S), NEW f, NEW x, x \notin S, \A y \in S \cup {x} : f[y] \in Int
  PROVE  /\ IsFiniteSet(S \cup {x})
         /\ SumFunctionOnSet(f, S \cup {x}) = SumFunctionOnSet(f, S) + f[x]
         /\ SumFunctionOnSet(f, S) \in Int
<1> DEFINE C == S \cup {x}
<1>1. IsFiniteSet(C) /\ x \in C /\ C \ {x} = S
  BY FS_AddElement
<1>2. SumFunctionOnSet(f, C) = SumFunctionOnSet(f, C \ {x}) + f[x]
  <2> HIDE DEF C
  <2> QED BY <1>1, SumFacts DEF C
<1>3. SumFunctionOnSet(f, S) \in Int
  BY SumFacts
<1> QED BY <1>1, <1>2, <1>3

(* Sums of functions that agree on the set, or are ordered on it.          *)
LEMMA SumOrdered ==
  ASSUME NEW S, IsFiniteSet(S), NEW f, NEW h,
         \A x \in S : f[x] \in Int /\ h[x] \in Int /\ f[x] <= h[x]
  PROVE  SumFunctionOnSet(f, S) <= SumFunctionOnSet(h, S)
<1> DEFINE P == {A \in SUBSET S : SumFunctionOnSet(f, A) <= SumFunctionOnSet(h, A)}
<1>1. {} \in P
  <2>1. IsFiniteSet({})
    BY FS_EmptySet
  <2>2. SumFunctionOnSet(f, {}) = 0 /\ SumFunctionOnSet(h, {}) = 0
    BY <2>1, SumFacts
  <2> QED BY <2>2
<1>2. ASSUME NEW A \in SUBSET S, NEW x \in S, A \in P, x \notin A PROVE A \cup {x} \in P
  <2>1. IsFiniteSet(A) /\ \A y \in A \cup {x} : f[y] \in Int /\ h[y] \in Int
    BY FS_Subset
  <2>2. /\ SumFunctionOnSet(f, A \cup {x}) = SumFunctionOnSet(f, A) + f[x]
        /\ SumFunctionOnSet(f, A) \in Int
    BY <1>2, <2>1, SumAdded
  <2>3. /\ SumFunctionOnSet(h, A \cup {x}) = SumFunctionOnSet(h, A) + h[x]
        /\ SumFunctionOnSet(h, A) \in Int
    BY <1>2, <2>1, SumAdded
  <2>4. /\ SumFunctionOnSet(f, A) <= SumFunctionOnSet(h, A)
        /\ f[x] <= h[x] /\ f[x] \in Int /\ h[x] \in Int
    BY <1>2
  <2>5. SumFunctionOnSet(f, A \cup {x}) <= SumFunctionOnSet(h, A \cup {x})
    BY <2>2, <2>3, <2>4
  <2> QED BY <2>5
<1>3. SUBSET S \subseteq P
  <2> HIDE DEF P
  <2> QED BY <1>1, <1>2, AllSubsets
<1> QED BY <1>3

LEMMA SumOfEqual ==
  ASSUME NEW S, IsFiniteSet(S), NEW f, NEW h,
         \A x \in S : f[x] \in Int /\ h[x] = f[x]
  PROVE  SumFunctionOnSet(f, S) = SumFunctionOnSet(h, S)
<1>1. \A x \in S : f[x] \in Int /\ h[x] \in Int /\ f[x] <= h[x] /\ h[x] <= f[x]
  OBVIOUS
<1>2. /\ SumFunctionOnSet(f, S) <= SumFunctionOnSet(h, S)
      /\ SumFunctionOnSet(h, S) <= SumFunctionOnSet(f, S)
  BY <1>1, SumOrdered
<1>3. SumFunctionOnSet(f, S) \in Int /\ SumFunctionOnSet(h, S) \in Int
  BY <1>1, SumFacts
<1> QED BY <1>2, <1>3

(* The sum over two disjoint sets.                                         *)
LEMMA SumOfUnion ==
  ASSUME NEW A, IsFiniteSet(A), NEW B, IsFiniteSet(B), A \cap B = {},
         NEW f, \A x \in A \cup B : f[x] \in Int
  PROVE  SumFunctionOnSet(f, A \cup B) = SumFunctionOnSet(f, A) + SumFunctionOnSet(f, B)
<1> DEFINE Ok(C) == /\ IsFiniteSet(A \cup C)
                    /\ SumFunctionOnSet(f, A \cup C)
                         = SumFunctionOnSet(f, A) + SumFunctionOnSet(f, C)
           P == {C \in SUBSET B : Ok(C)}
<1>1. SumFunctionOnSet(f, A) \in Int
  BY SumFacts
<1>2. {} \in P
  <2>1. SumFunctionOnSet(f, {}) = 0
    BY SumFacts, FS_EmptySet
  <2>2. A \cup {} = A
    OBVIOUS
  <2>3. SumFunctionOnSet(f, A \cup {}) = SumFunctionOnSet(f, A)
    BY <2>2
  <2> QED BY <1>1, <2>1, <2>2, <2>3
<1>3. ASSUME NEW C \in SUBSET B, NEW x \in B, C \in P, x \notin C PROVE C \cup {x} \in P
  <2>1. IsFiniteSet(C) /\ (\A y \in C \cup {x} : f[y] \in Int)
    BY FS_Subset
  <2>2. /\ SumFunctionOnSet(f, C \cup {x}) = SumFunctionOnSet(f, C) + f[x]
        /\ SumFunctionOnSet(f, C) \in Int
    BY <1>3, <2>1, SumAdded
  <2> DEFINE D == A \cup C
  <2>3. /\ IsFiniteSet(D) /\ x \notin D /\ (\A y \in D \cup {x} : f[y] \in Int)
        /\ SumFunctionOnSet(f, D) = SumFunctionOnSet(f, A) + SumFunctionOnSet(f, C)
    BY <1>3
  <2>4. A \cup (C \cup {x}) = D \cup {x}
    OBVIOUS
  <2> HIDE DEF D
  <2>5. /\ SumFunctionOnSet(f, D \cup {x}) = SumFunctionOnSet(f, D) + f[x]
        /\ IsFiniteSet(D \cup {x})
    BY <2>3, SumAdded
  <2>6. f[x] \in Int
    BY <2>1
  <2>7. Ok(C \cup {x})
    <3>1. SumFunctionOnSet(f, A \cup (C \cup {x})) = SumFunctionOnSet(f, D \cup {x})
          /\ IsFiniteSet(A \cup (C \cup {x}))
      BY <2>4, <2>5
    <3> QED BY <1>1, <2>2, <2>3, <2>5, <2>6, <3>1
  <2> QED BY <2>7
<1>4. SUBSET B \subseteq P
  <2> HIDE DEF P, Ok
  <2>1. \A C \in SUBSET B, x \in B : C \in P /\ x \notin C => C \cup {x} \in P
    BY <1>3
  <2>2. IsFiniteSet(B) /\ {} \in P
    BY <1>2
  <2> QED BY ONLY <2>1, <2>2, AllSubsets
<1> QED BY <1>4

(* The sum over the image of an injection, whose values are four times   *)
(* those of what they are images of, as bytes are of elements.             *)
LEMMA SumOfImage ==
  ASSUME NEW S, IsFiniteSet(S), NEW i, \A x, y \in S : i[x] = i[y] => x = y,
         NEW f, \A x \in S : f[x] \in Int,
         NEW h, \A x \in S : h[i[x]] = 4 * f[x]
  PROVE  SumFunctionOnSet(h, {i[x] : x \in S}) = 4 * SumFunctionOnSet(f, S)
<1> DEFINE Image(C) == {i[x] : x \in C}
           Ok(C) == /\ IsFiniteSet(Image(C))
                    /\ SumFunctionOnSet(h, Image(C)) = 4 * SumFunctionOnSet(f, C)
           P == {C \in SUBSET S : Ok(C)}
<1>1. {} \in P
  <2>1. SumFunctionOnSet(f, {}) = 0 /\ SumFunctionOnSet(h, {}) = 0 /\ IsFiniteSet({})
    BY SumFacts, FS_EmptySet
  <2>2. Image({}) = {}
    OBVIOUS
  <2> HIDE DEF Image
  <2>3. Ok({})
    BY <2>1, <2>2
  <2> QED BY <2>3
<1>2. ASSUME NEW C \in SUBSET S, NEW x \in S, C \in P, x \notin C PROVE C \cup {x} \in P
  <2>1. IsFiniteSet(C) /\ (\A y \in C \cup {x} : f[y] \in Int)
    BY FS_Subset
  <2>0. x \notin C
    BY <1>2
  <2>2. /\ SumFunctionOnSet(f, C \cup {x}) = SumFunctionOnSet(f, C) + f[x]
        /\ SumFunctionOnSet(f, C) \in Int
    BY <2>0, <2>1, SumAdded
  <2>3. /\ Image(C \cup {x}) = Image(C) \cup {i[x]} /\ i[x] \notin Image(C)
        /\ (\A y \in Image(C) \cup {i[x]} : h[y] \in Int)
    BY <1>2
  <2>4. /\ IsFiniteSet(Image(C))
        /\ SumFunctionOnSet(h, Image(C)) = 4 * SumFunctionOnSet(f, C)
    BY <1>2
  <2> HIDE DEF Image
  <2>5. /\ SumFunctionOnSet(h, Image(C) \cup {i[x]}) = SumFunctionOnSet(h, Image(C)) + h[i[x]]
        /\ IsFiniteSet(Image(C) \cup {i[x]})
    <3> DEFINE D == Image(C)
               y == i[x]
    <3>1. IsFiniteSet(D) /\ y \notin D /\ (\A z \in D \cup {y} : h[z] \in Int)
      BY <2>3, <2>4
    <3> HIDE DEF D, y
    <3>2. /\ SumFunctionOnSet(h, D \cup {y}) = SumFunctionOnSet(h, D) + h[y]
          /\ IsFiniteSet(D \cup {y})
      BY <3>1, SumAdded
    <3> QED BY <3>2 DEF D, y
  <2>6. h[i[x]] = 4 * f[x] /\ f[x] \in Int
    OBVIOUS
  <2>7. /\ IsFiniteSet(Image(C \cup {x}))
        /\ SumFunctionOnSet(h, Image(C \cup {x})) = 4 * SumFunctionOnSet(f, C) + 4 * f[x]
    BY <2>3, <2>4, <2>5, <2>6
  <2>8. Ok(C \cup {x})
    BY <2>2, <2>6, <2>7
  <2> QED BY <2>8
<1>3. SUBSET S \subseteq P
  <2> HIDE DEF P
  <2> QED BY <1>1, <1>2, AllSubsets
<1> QED BY <1>3

(* A finite set of numbers that is not empty has a largest one.            *)
LEMMA LargestNumber ==
  ASSUME NEW S, IsFiniteSet(S), S \subseteq Int, S # {}
  PROVE  \E m \in S : \A k \in S : k <= m
<1> DEFINE P == {A \in SUBSET S : A # {} => \E m \in A : \A k \in A : k <= m}
<1>1. {} \in P
  OBVIOUS
<1>2. ASSUME NEW A \in SUBSET S, NEW x \in S, A \in P, x \notin A PROVE A \cup {x} \in P
  <2>1. CASE A = {}
    BY <2>1
  <2>2. CASE A # {}
    <3>1. PICK m \in A : \A k \in A : k <= m
      BY <1>2, <2>2
    <3>2. m \in Int /\ x \in Int /\ \A k \in A : k \in Int
      OBVIOUS
    <3>3. CASE x <= m
      BY <3>1, <3>3
    <3>4. CASE ~(x <= m)
      <4>1. \A k \in A \cup {x} : k <= x
        BY <3>1, <3>2, <3>4
      <4> QED BY <4>1
    <3> QED BY <3>3, <3>4
  <2> QED BY <2>1, <2>2
<1>3. SUBSET S \subseteq P
  <2> HIDE DEF P
  <2> QED BY <1>1, <1>2, AllSubsets
<1> QED BY <1>3

-----------------------------------------------------------------------------
(* Facts about graphs.                                                     *)

(* A graph has finitely many uses.                                         *)
LEMMA FiniteUses ==
  ASSUME NEW gr, WellFormed(gr)
  PROVE  /\ IsFiniteSet(AllUses(gr))
         /\ \A e : /\ IsFiniteSet(Uses(gr, e))
                   /\ Cardinality(Uses(gr, e)) \in Nat
                   /\ Cardinality(Uses(gr, e)) = 0 <=> Uses(gr, e) = {}
<1> DEFINE UsesOf(n) == {n} \X (InputPositions(gr, n) \ gr.ignored[n])
           PerNode == {UsesOf(n) : n \in Nodes(gr)}
           f == [n \in Nodes(gr) |-> UsesOf(n)]
<1>1. \A n \in Nodes(gr) : IsFiniteSet(UsesOf(n))
  <2> SUFFICES ASSUME NEW n \in Nodes(gr) PROVE IsFiniteSet(UsesOf(n))
    OBVIOUS
  <2>1. Len(gr.inputs[n]) \in Nat
    BY DEF WellFormed, GraphTypes
  <2>2. IsFiniteSet(InputPositions(gr, n))
    BY <2>1, FS_Interval DEF InputPositions
  <2>3. IsFiniteSet(InputPositions(gr, n) \ gr.ignored[n])
    BY <2>2, FS_Difference
  <2> QED BY <2>3, FS_Singleton, FS_Product
<1>2. IsFiniteSet(PerNode)
  <2>0. gr.num_nodes \in Nat
    BY DEF WellFormed, GraphTypes
  <2>1. IsFiniteSet(Nodes(gr))
    BY <2>0, FS_Interval DEF Nodes
  <2>2. f \in Surjection(Nodes(gr), PerNode)
    BY DEF Surjection
  <2> QED BY <2>1, <2>2, FS_Surjection
<1>3. IsFiniteSet(NodeUses(gr))
  BY <1>1, <1>2, FS_UNION DEF NodeUses
<1>4. IsFiniteSet(HeadUses(gr))
  <2>1. Len(gr.outputs) \in Nat
    BY DEF WellFormed, GraphTypes
  <2>2. IsFiniteSet(1 .. Len(gr.outputs))
    BY <2>1, FS_Interval
  <2> QED BY <2>2, FS_Singleton, FS_Product DEF HeadUses
<1>5. IsFiniteSet(AllUses(gr))
  BY <1>3, <1>4, FS_Union DEF AllUses
<1>6. \A e : IsFiniteSet(Uses(gr, e))
  <2> SUFFICES ASSUME NEW e PROVE IsFiniteSet(Uses(gr, e))
    OBVIOUS
  <2>1. Uses(gr, e) \in SUBSET AllUses(gr)
    BY DEF Uses
  <2> QED BY <1>5, <2>1, FS_Subset
<1> QED BY <1>5, <1>6, FS_CardinalityType, FS_EmptySet

(* A use is of an entry produced by an earlier node: DFS post order.       *)
LEMMA UsesFollowSource ==
  ASSUME NEW gr, WellFormed(gr), NEW u \in AllUses(gr)
  PROVE  /\ UsedEntry(gr, u) \in Entries(gr)
         /\ gr.source[UsedEntry(gr, u)] \in Nodes(gr)
         /\ gr.source[UsedEntry(gr, u)] < u[1]
         /\ u[1] \in 0 .. gr.num_nodes
         /\ u[2] \in Nat \ {0}
         /\ u = <<u[1], u[2]>>
         /\ u[1] < gr.num_nodes => u[2] \in InputPositions(gr, u[1]) \ gr.ignored[u[1]]
<1>1. CASE u \in NodeUses(gr)
  <2>1. PICK n \in Nodes(gr) : u \in {n} \X (InputPositions(gr, n) \ gr.ignored[n])
    BY <1>1 DEF NodeUses
  <2>2. u[1] = n /\ u[2] \in InputPositions(gr, n) \ gr.ignored[n] /\ u = <<u[1], u[2]>>
    BY <2>1
  <2>3. gr.inputs[n] \in Seq(Entries(gr)) /\ gr.num_nodes \in Nat
    BY DEF WellFormed, GraphTypes
  <2>4. u[1] # gr.num_nodes /\ UsedEntry(gr, u) = gr.inputs[n][u[2]]
    BY <2>2, <2>3 DEF UsedEntry, Nodes
  <2>5. gr.source[gr.inputs[n][u[2]]] < n
    BY <2>2 DEF WellFormed, PostOrder
  <2>6. UsedEntry(gr, u) \in Entries(gr)
    BY <2>2, <2>3, <2>4 DEF InputPositions
  <2>7. gr.source[UsedEntry(gr, u)] \in Nodes(gr)
    BY <2>6 DEF WellFormed, GraphTypes
  <2>8. u[2] \in Nat \ {0}
    BY <2>2, <2>3 DEF InputPositions
  <2>9. n \in 0 .. gr.num_nodes /\ n < gr.num_nodes
    BY <2>3 DEF Nodes
  <2> QED BY <2>2, <2>4, <2>5, <2>6, <2>7, <2>8, <2>9
<1>2. CASE u \in HeadUses(gr)
  <2>1. u[1] = gr.num_nodes /\ u[2] \in 1 .. Len(gr.outputs) /\ u = <<u[1], u[2]>>
    BY <1>2 DEF HeadUses
  <2>2. gr.outputs \in Seq(Entries(gr)) /\ gr.num_nodes \in Nat
    BY DEF WellFormed, GraphTypes
  <2>3. UsedEntry(gr, u) = gr.outputs[u[2]]
    BY <2>1 DEF UsedEntry
  <2>4. UsedEntry(gr, u) \in Entries(gr)
    BY <2>1, <2>2, <2>3
  <2>5. gr.source[UsedEntry(gr, u)] \in Nodes(gr)
    BY <2>4 DEF WellFormed, GraphTypes
  <2> QED BY <2>1, <2>2, <2>4, <2>5 DEF Nodes
<1> QED BY <1>1, <1>2 DEF AllUses

(* A node's own reads are uses.                                            *)
LEMMA ReadsAreUses ==
  ASSUME NEW gr, WellFormed(gr), NEW n \in Nodes(gr),
         NEW i \in InputPositions(gr, n) \ gr.ignored[n]
  PROVE  /\ <<n, i>> \in AllUses(gr)
         /\ UsedEntry(gr, <<n, i>>) = gr.inputs[n][i]
         /\ gr.inputs[n][i] \in Entries(gr)
<1>1. <<n, i>> \in NodeUses(gr)
  BY DEF NodeUses
<1>2. n # gr.num_nodes
  BY DEF Nodes, WellFormed, GraphTypes
<1>3. gr.inputs[n] \in Seq(Entries(gr))
  BY DEF WellFormed, GraphTypes
<1> QED BY <1>1, <1>2, <1>3 DEF AllUses, UsedEntry, InputPositions

-----------------------------------------------------------------------------
(* DecorateMemoryPlan.                                                     *)

(* max_id is beyond every storage id of the plan.                          *)
LEMMA MaxIdFacts ==
  ASSUME NEW gr, WellFormed(gr),
         NEW sid \in [Entries(gr) -> -1 .. gr.num_entries - 1]
  PROVE  MaxId(gr, sid) \in Nat /\ \A e \in Entries(gr) : sid[e] < MaxId(gr, sid)
<1> DEFINE Bounds == {m \in Nat : \A e \in Entries(gr) : sid[e] < m}
           IsMax(m) == m >= 0 /\ \A e \in Entries(gr) : sid[e] < m
           Ids == {0} \cup {sid[e] + 1 : e \in Entries(gr)}
<1>1. gr.num_entries \in Nat /\ \A e \in Entries(gr) : sid[e] \in Int /\ sid[e] < gr.num_entries /\ sid[e] + 1 \in Nat
  BY DEF WellFormed, GraphTypes
<1>2. Bounds # {} /\ Bounds \subseteq Nat
  BY <1>1
<1>3. PICK m \in Bounds : \A y \in Bounds : <<y, m>> \notin OpToRel(<, Nat)
  <2> HIDE DEF Bounds
  <2> QED BY <1>2, WFMin, NatLessThanWellFounded
<1>4. m \in Nat /\ \A y \in Bounds : ~(y < m)
  BY <1>3 DEF OpToRel
<1>5. m \in Ids
  <2>1. CASE m = 0
    BY <2>1
  <2>2. CASE m # 0
    <3>1. m - 1 \in Nat /\ m - 1 \notin Bounds
      BY <1>4, <2>2
    <3>2. PICK e \in Entries(gr) : ~(sid[e] < m - 1)
      BY <3>1
    <3>3. sid[e] < m
      BY <1>3
    <3>4. sid[e] + 1 = m
      BY <1>1, <1>4, <3>2, <3>3
    <3> QED BY <3>4
  <2> QED BY <2>1, <2>2
<1>6. IsMax(m)
  <2>1. m >= 0
    BY <1>4
  <2>2. \A e \in Entries(gr) : sid[e] < m
    BY <1>3
  <2> QED BY <2>1, <2>2
<1>7. MaxId(gr, sid) = CHOOSE x \in Ids : IsMax(x)
  BY DEF MaxId
<1>8. Ids \subseteq Nat
  BY <1>1
<1> HIDE DEF Ids, IsMax
<1>9. MaxId(gr, sid) \in Ids /\ IsMax(MaxId(gr, sid))
  BY <1>5, <1>6, <1>7
<1> QED BY <1>8, <1>9 DEF IsMax

(* The ranks that tell the variables apart.                                *)
LEMMA RanksDiffer ==
  ASSUME NEW gr, WellFormed(gr), gr.variables \subseteq Nodes(gr),
         NEW a \in gr.variables, NEW b \in gr.variables
  PROVE  LET Rank(n) == Cardinality({v \in gr.variables : v < n})
         IN Rank(a) \in Nat /\ (a # b => Rank(a) # Rank(b))
<1> DEFINE Below(n) == {v \in gr.variables : v < n}
<1>1. gr.num_nodes \in Nat /\ \A n \in gr.variables : n \in Int
  BY DEF WellFormed, GraphTypes, Nodes
<1>2. IsFiniteSet(Nodes(gr))
  BY <1>1, FS_Interval DEF Nodes
<1>3. \A n : IsFiniteSet(Below(n))
  <2> SUFFICES ASSUME NEW n PROVE IsFiniteSet(Below(n))
    OBVIOUS
  <2>1. Below(n) \in SUBSET Nodes(gr)
    OBVIOUS
  <2> QED BY <1>2, <2>1, FS_Subset
<1>4. ASSUME NEW x \in gr.variables, NEW y \in gr.variables, x < y
      PROVE  Cardinality(Below(x)) # Cardinality(Below(y))
  <2>1. Below(x) \in SUBSET Below(y)
    BY <1>1, <1>4
  <2>2. x \in Below(y) /\ x \notin Below(x)
    BY <1>1, <1>4
  <2>3. Below(x) # Below(y)
    BY <2>2
  <2> HIDE DEF Below
  <2> QED BY <1>3, <2>1, <2>3, FS_Subset
<1>5. Cardinality(Below(a)) \in Nat
  BY <1>3, FS_CardinalityType
<1>6. a # b => a < b \/ b < a
  BY <1>1
<1>7. a # b => Cardinality(Below(a)) # Cardinality(Below(b))
  BY <1>4, <1>6
<1> QED BY <1>5, <1>7

(* Operators keep their storages, variables get fresh ones.                *)
LEMMA DecoratedPlan ==
  ASSUME NEW gr, WellFormed(gr), VariablesHaveOneOutput(gr),
         NEW sid \in [Entries(gr) -> -1 .. gr.num_entries - 1]
  PROVE  LET d == DecorateMemoryPlan(gr, sid)
         IN /\ d \in [Entries(gr) -> Int]
            /\ \A e \in OpEntries(gr) : d[e] = sid[e]
            /\ \A v \in VariableEntries(gr) : d[v] >= 0
            /\ VariablesAlone(gr, d)
<1> DEFINE d == DecorateMemoryPlan(gr, sid)
           max == MaxId(gr, sid)
           Rank(n) == Cardinality({v \in gr.variables : v < n})
<1>1. max \in Nat /\ \A e \in Entries(gr) : sid[e] \in Int /\ sid[e] < max
  BY MaxIdFacts
<1>2. \A e \in VariableEntries(gr) : e \in Entries(gr) /\ gr.source[e] \in gr.variables
  BY DEF VariableEntries
<1>3. \A a, b \in gr.variables : Rank(a) \in Nat /\ (a # b => Rank(a) # Rank(b))
  BY RanksDiffer DEF VariablesHaveOneOutput
<1> HIDE DEF max, Rank
<1>4. \A e \in VariableEntries(gr) : d[e] = max + Rank(gr.source[e])
  BY <1>2 DEF DecorateMemoryPlan, max, Rank
<1>5. \A e \in OpEntries(gr) : e \in Entries(gr) /\ d[e] = sid[e]
  BY DEF DecorateMemoryPlan, OpEntries
<1>6. \A e \in VariableEntries(gr) : d[e] \in Int /\ d[e] >= max /\ d[e] >= 0
  BY <1>1, <1>2, <1>3, <1>4
<1>7. \A e \in Entries(gr) : e \in VariableEntries(gr) \/ e \in OpEntries(gr)
  BY DEF OpEntries
<1>8. d \in [Entries(gr) -> Int]
  <2>1. \A e \in Entries(gr) : d[e] \in Int
    BY <1>1, <1>5, <1>6, <1>7
  <2>2. d = [e \in Entries(gr) |-> d[e]]
    BY DEF DecorateMemoryPlan
  <2> HIDE DEF d
  <2> QED BY <2>1, <2>2
<1>9. ASSUME NEW v \in VariableEntries(gr), NEW e \in Entries(gr), v # e
      PROVE  d[v] # d[e]
  <2>1. CASE e \in OpEntries(gr)
    <3>1. d[e] = sid[e] /\ sid[e] \in Int /\ sid[e] < max
      BY <2>1, <1>1, <1>5
    <3>2. d[v] \in Int /\ d[v] >= max
      BY <1>6
    <3> HIDE DEF d
    <3> QED BY <3>1, <3>2, <1>1
  <2>2. CASE e \in VariableEntries(gr)
    <3>1. gr.source[v] # gr.source[e]
      <4>1. PICK x \in Entries(gr) : OutputsOf(gr, gr.source[v]) = {x}
        BY <1>2 DEF VariablesHaveOneOutput
      <4> QED BY <4>1, <1>2, <1>9 DEF OutputsOf
    <3>2. /\ Rank(gr.source[v]) \in Nat /\ Rank(gr.source[e]) \in Nat
          /\ Rank(gr.source[v]) # Rank(gr.source[e])
      BY <3>1, <2>2, <1>2, <1>3
    <3>3. d[v] = max + Rank(gr.source[v]) /\ d[e] = max + Rank(gr.source[e])
      BY <1>4, <2>2
    <3> HIDE DEF d
    <3> QED BY <3>2, <3>3, <1>1
  <2> QED BY <2>1, <2>2, <1>7
<1>10. VariablesAlone(gr, d)
  BY <1>9 DEF VariablesAlone
<1> QED BY <1>5, <1>6, <1>8, <1>10
=============================================================================
