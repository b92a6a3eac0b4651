----------------------------- MODULE SumLemmas -----------------------------
(***************************************************************************)
(* What a sum of the values of a function over a finite set is: the facts  *)
(* the money identities rest on.  SumFunctionOnSet of the community        *)
(* modules takes the elements out one by one in an order it chooses; these *)
(* lemmas say that the order does not matter.                              *)
(*                                                                         *)
(* The library's induction theorems take an operator, which the provers    *)
(* cannot instantiate.  Induction is stated here for a set of numbers, from *)
(* the theorem that a well-founded order has minimal elements, and each    *)
(* proof defines the set it needs.                                         *)
(***************************************************************************)
EXTENDS Integers, Functions, FiniteSetTheorems, TLAPS

LEMMA LeastNumber ==
    ASSUME NEW T \in SUBSET Nat, T # {}
    PROVE  \E x \in T : \A y \in T : x <= y
<1>. DEFINE R == {p \in Nat \X Nat : p[1] < p[2]}
<1>1. IsWellFoundedOn(R, Nat)
  BY NatLessThanWellFounded DEF OpToRel
<1>2. PICK x \in T : \A y \in T : ~(<<y, x>> \in R)
  <2>. HIDE DEF R
  <2>. QED
    BY <1>1, WFMin
<1>3. ASSUME NEW y \in T PROVE x <= y
  <2>1. ~(<<y, x>> \in R)
    BY <1>2
  <2>2. <<y, x>> \in Nat \X Nat /\ y \in Nat /\ x \in Nat
    OBVIOUS
  <2>. QED
    BY <2>1, <2>2
<1>. QED
  BY <1>3

\* Induction: a set with 0 and with the successor of each of its numbers has all.
LEMMA AllNumbers ==
    ASSUME NEW T, 0 \in T, \A n \in Nat : n \in T => n + 1 \in T
    PROVE  \A n \in Nat : n \in T
<1>. SUFFICES ASSUME NEW n \in Nat, n \notin T PROVE FALSE
  OBVIOUS
<1>. DEFINE Missing == {k \in Nat : k \notin T}
<1>1. PICK x \in Missing : \A y \in Missing : x <= y
  <2>1. Missing \in SUBSET Nat /\ Missing # {}
    OBVIOUS
  <2>. QED
    BY <2>1, LeastNumber
<1>2. x \in Nat \ {0} /\ x \notin T
  OBVIOUS
<1>3. x - 1 \in Nat /\ ~(x <= x - 1)
  BY <1>2
<1>4. x - 1 \in T
  BY <1>1, <1>3
<1>5. (x - 1) + 1 = x
  BY <1>2
<1>. QED
  BY <1>2, <1>3, <1>4, <1>5

-----------------------------------------------------------------------------
(* The recursive function behind a sum.                                    *)

Pick(s) == CHOOSE x \in s : TRUE

\* One unfolding of the recursion.
Unfold(f, h, s) == IF s = {} THEN 0 ELSE f[Pick(s)] + h[s \ {Pick(s)}]

IsSum(h, f, S) == h = [s \in SUBSET S |-> Unfold(f, h, s)]

Values(f, S) == \A x \in S : f[x] \in Int

LEMMA Picked ==
    ASSUME NEW S, IsFiniteSet(S), S # {}
    PROVE  /\ Pick(S) \in S /\ IsFiniteSet(S \ {Pick(S)})
           /\ Cardinality(S) \in Nat \ {0}
           /\ Cardinality(S \ {Pick(S)}) = Cardinality(S) - 1
<1>1. Pick(S) \in S
  BY DEF Pick
<1>2. Cardinality(S) \in Nat
  BY FS_CardinalityType
<1>3. Cardinality(S) # 0
  BY FS_EmptySet
<1>4. IsFiniteSet(S \ {Pick(S)}) /\ Cardinality(S \ {Pick(S)}) = Cardinality(S) - 1
  BY <1>1, FS_RemoveElement
<1>. QED
  BY <1>1, <1>2, <1>3, <1>4

LEMMA SumExists ==
    ASSUME NEW S, IsFiniteSet(S), NEW f, Values(f, S)
    PROVE  \E h \in [SUBSET S -> Int] : IsSum(h, f, S)
<1>. DEFINE T == {n \in Nat : \E h \in [SUBSET S -> Int] :
                     \A s \in SUBSET S :
                        Cardinality(s) <= n => h[s] = Unfold(f, h, s)}
<1>1. \A s \in SUBSET S : IsFiniteSet(s) /\ Cardinality(s) \in Nat
  BY FS_Subset, FS_CardinalityType
<1>2. 0 \in T
  <2>. DEFINE h == [s \in SUBSET S |-> 0]
  <2>1. h \in [SUBSET S -> Int]
    OBVIOUS
  <2>2. ASSUME NEW s \in SUBSET S, Cardinality(s) <= 0
        PROVE  h[s] = Unfold(f, h, s)
    <3>1. s = {}
      BY <1>1, <2>2, FS_EmptySet
    <3>. QED
      BY <3>1 DEF Unfold
  <2>. QED
    BY <2>1, <2>2
<1>3. ASSUME NEW n \in Nat, n \in T PROVE n + 1 \in T
  <2>1. PICK h \in [SUBSET S -> Int] :
               \A s \in SUBSET S : Cardinality(s) <= n => h[s] = Unfold(f, h, s)
    BY <1>3
  <2>. DEFINE g == [s \in SUBSET S |-> Unfold(f, h, s)]
  <2>2. g \in [SUBSET S -> Int]
    <3>. SUFFICES ASSUME NEW s \in SUBSET S PROVE Unfold(f, h, s) \in Int
      OBVIOUS
    <3>1. CASE s = {}
      BY <3>1 DEF Unfold
    <3>2. CASE s # {}
      <4>1. Pick(s) \in S /\ s \ {Pick(s)} \in SUBSET S
        BY <1>1, <3>2, Picked
      <4>. QED
        BY <3>2, <4>1 DEF Unfold, Values
    <3>. QED
      BY <3>1, <3>2
  <2>3. ASSUME NEW s \in SUBSET S, Cardinality(s) <= n + 1
        PROVE  g[s] = Unfold(f, g, s)
    <3>1. CASE s = {}
      BY <3>1 DEF Unfold
    <3>2. CASE s # {}
      <4>. DEFINE r == s \ {Pick(s)}
      <4>1. r \in SUBSET S /\ Cardinality(r) <= n
        <5>1. Cardinality(s) \in Nat /\ Cardinality(r) = Cardinality(s) - 1
          BY <1>1, <3>2, Picked
        <5>. QED
          BY <2>3, <5>1
      <4>2. g[r] = h[r]
        BY <2>1, <4>1
      <4>. QED
        BY <3>2, <4>2 DEF Unfold
    <3>. QED
      BY <3>1, <3>2
  <2>. HIDE DEF g
  <2>. QED
    BY <2>2, <2>3
<1>. HIDE DEF T
<1>4. Cardinality(S) \in T
  BY <1>1, <1>2, <1>3, AllNumbers
<1>5. PICK h \in [SUBSET S -> Int] :
             \A s \in SUBSET S : Cardinality(s) <= Cardinality(S) => h[s] = Unfold(f, h, s)
  BY <1>4 DEF T
<1>6. \A s \in SUBSET S : h[s] = Unfold(f, h, s)
  BY <1>5, FS_Subset
<1>. QED
  BY <1>6 DEF IsSum

\* The function is determined, on each set, by the values on that set.
LEMMA SumUnique ==
    ASSUME NEW S, IsFiniteSet(S), NEW R, NEW T,
           S \subseteq R, S \subseteq T,
           NEW f, NEW g, \A x \in S : f[x] = g[x],
           NEW h, IsSum(h, f, R), NEW k, IsSum(k, g, T)
    PROVE  h[S] = k[S]
<1>. DEFINE N == {n \in Nat : \A s \in SUBSET S : Cardinality(s) = n => h[s] = k[s]}
<1>1. \A s \in SUBSET S : IsFiniteSet(s) /\ Cardinality(s) \in Nat
  BY FS_Subset, FS_CardinalityType
<1>2. \A s \in SUBSET S : h[s] = Unfold(f, h, s) /\ k[s] = Unfold(g, k, s)
  <2>. SUFFICES ASSUME NEW s \in SUBSET S
                PROVE  h[s] = Unfold(f, h, s) /\ k[s] = Unfold(g, k, s)
    OBVIOUS
  <2>1. s \in SUBSET R /\ s \in SUBSET T
    OBVIOUS
  <2>2. h = [t \in SUBSET R |-> Unfold(f, h, t)]
    BY DEF IsSum
  <2>3. k = [t \in SUBSET T |-> Unfold(g, k, t)]
    BY DEF IsSum
  <2>. QED
    BY <2>1, <2>2, <2>3
<1>3. 0 \in N
  <2>. SUFFICES ASSUME NEW s \in SUBSET S, Cardinality(s) = 0 PROVE h[s] = k[s]
    OBVIOUS
  <2>1. s = {}
    BY <1>1, FS_EmptySet
  <2>. QED
    BY <1>2, <2>1 DEF Unfold
<1>4. ASSUME NEW n \in Nat, n \in N PROVE n + 1 \in N
  <2>. SUFFICES ASSUME NEW s \in SUBSET S, Cardinality(s) = n + 1 PROVE h[s] = k[s]
    OBVIOUS
  <2>1. s # {}
    BY FS_EmptySet
  <2>. DEFINE x == Pick(s)
  <2>2. /\ x \in s /\ s \ {x} \in SUBSET S /\ Cardinality(s \ {x}) = n
    BY <1>1, <2>1, Picked
  <2>3. h[s \ {x}] = k[s \ {x}]
    BY <1>4, <2>2
  <2>. QED
    BY <1>2, <2>1, <2>2, <2>3 DEF Unfold
<1>. HIDE DEF N
<1>5. Cardinality(S) \in N
  BY <1>1, <1>3, <1>4, AllNumbers
<1>. QED
  BY <1>5 DEF N

LEMMA SumIs ==
    ASSUME NEW S, IsFiniteSet(S), NEW f, Values(f, S)
    PROVE  \E h \in [SUBSET S -> Int] : IsSum(h, f, S) /\ SumFunctionOnSet(f, S) = h[S]
<1>. DEFINE c == CHOOSE h : IsSum(h, f, S)
<1>1. SumFunctionOnSet(f, S) = c[S]
  BY DEF SumFunctionOnSet, FoldFunctionOnSet, MapThenFoldSet, IsSum, Unfold, Pick
<1>2. PICK h \in [SUBSET S -> Int] : IsSum(h, f, S)
  BY SumExists
<1>3. IsSum(c, f, S)
  BY <1>2
<1>. HIDE DEF c
<1>4. h[S] = c[S]
  BY <1>2, <1>3, SumUnique
<1>. QED
  BY <1>1, <1>2, <1>4

-----------------------------------------------------------------------------
(* Sums.                                                                   *)

LEMMA SumType ==
    ASSUME NEW S, IsFiniteSet(S), NEW f, Values(f, S)
    PROVE  SumFunctionOnSet(f, S) \in Int
<1>1. PICK h \in [SUBSET S -> Int] : SumFunctionOnSet(f, S) = h[S]
  BY SumIs
<1>. QED
  BY <1>1

LEMMA SumOfNone == ASSUME NEW f PROVE SumFunctionOnSet(f, {}) = 0
<1>1. IsFiniteSet({}) /\ Values(f, {})
  BY FS_EmptySet DEF Values
<1>2. PICK h : IsSum(h, f, {}) /\ SumFunctionOnSet(f, {}) = h[{}]
  BY <1>1, SumIs
<1>. QED
  BY <1>2 DEF IsSum, Unfold

\* Only the values on the set matter.
LEMMA SumAgrees ==
    ASSUME NEW S, IsFiniteSet(S), NEW f, Values(f, S),
           NEW g, \A x \in S : f[x] = g[x]
    PROVE  SumFunctionOnSet(f, S) = SumFunctionOnSet(g, S)
<1>1. Values(g, S)
  BY DEF Values
<1>2. PICK h : IsSum(h, f, S) /\ SumFunctionOnSet(f, S) = h[S]
  BY SumIs
<1>3. PICK k : IsSum(k, g, S) /\ SumFunctionOnSet(g, S) = k[S]
  BY <1>1, SumIs
<1>4. h[S] = k[S]
  BY <1>2, <1>3, SumUnique
<1>. QED
  BY <1>2, <1>3, <1>4

LEMMA SumPicked ==
    ASSUME NEW S, IsFiniteSet(S), S # {}, NEW f, Values(f, S)
    PROVE  SumFunctionOnSet(f, S)
             = f[Pick(S)] + SumFunctionOnSet(f, S \ {Pick(S)})
<1>. DEFINE r == S \ {Pick(S)}
<1>1. Pick(S) \in S /\ IsFiniteSet(r)
  BY Picked
<1>2. Values(f, r)
  BY DEF Values
<1>3. PICK h : IsSum(h, f, S) /\ SumFunctionOnSet(f, S) = h[S]
  BY SumIs
<1>4. PICK k : IsSum(k, f, r) /\ SumFunctionOnSet(f, r) = k[r]
  BY <1>1, <1>2, SumIs
<1>5. h[r] = k[r]
  <2>1. r \subseteq S
    OBVIOUS
  <2>. QED
    BY <1>1, <1>3, <1>4, <2>1, SumUnique
<1>6. h[S] = Unfold(f, h, S)
  BY <1>3 DEF IsSum
<1>. QED
  BY <1>3, <1>4, <1>5, <1>6 DEF Unfold

\* A set without one of its elements has one element less.
LEMMA OneRemoved ==
    ASSUME NEW s, IsFiniteSet(s), NEW n \in Nat, Cardinality(s) = n + 1, NEW y \in s
    PROVE  Cardinality(s \ {y}) = n
<1>1. Cardinality(s \ {y}) = Cardinality(s) - 1
  BY FS_RemoveElement, Zenon
<1>2. (n + 1) - 1 = n
  OBVIOUS
<1>. QED
  BY <1>1, <1>2

\* Any element can be taken out.
LEMMA SumTaken ==
    ASSUME NEW S, IsFiniteSet(S), NEW f, Values(f, S), NEW x \in S
    PROVE  SumFunctionOnSet(f, S) = f[x] + SumFunctionOnSet(f, S \ {x})
<1>. DEFINE N == {n \in Nat : \A s \in SUBSET S : \A y \in s : Cardinality(s) = n
                     => SumFunctionOnSet(f, s) = f[y] + SumFunctionOnSet(f, s \ {y})}
<1>1. \A s \in SUBSET S : /\ IsFiniteSet(s) /\ Cardinality(s) \in Nat
                          /\ Values(f, s) /\ SumFunctionOnSet(f, s) \in Int
  <2>1. \A s \in SUBSET S : /\ IsFiniteSet(s) /\ Cardinality(s) \in Nat /\ Values(f, s)
    BY FS_Subset, FS_CardinalityType DEF Values
  <2>. QED
    BY <2>1, SumType
<1>2. 0 \in N
  BY <1>1, FS_EmptySet
<1>3. ASSUME NEW n \in Nat, n \in N PROVE n + 1 \in N
  <2>. SUFFICES ASSUME NEW s \in SUBSET S, NEW y \in s, Cardinality(s) = n + 1
                PROVE  SumFunctionOnSet(f, s) = f[y] + SumFunctionOnSet(f, s \ {y})
    OBVIOUS
  <2>. DEFINE p == Pick(s)
  <2>1. p \in s /\ Cardinality(s \ {p}) = n
    BY <1>1, Picked
  <2>2. SumFunctionOnSet(f, s) = f[p] + SumFunctionOnSet(f, s \ {p})
    BY <1>1, SumPicked
  <2>3. CASE y = p
    BY <2>2, <2>3
  <2>4. CASE y # p
    <3>. DEFINE q == s \ {p, y}
    <3>1. SumFunctionOnSet(f, s \ {p}) = f[y] + SumFunctionOnSet(f, q)
      <4>1. y \in s \ {p} /\ (s \ {p}) \ {y} = q /\ s \ {p} \in SUBSET S
        BY <2>4
      <4>. HIDE DEF q, p
      <4>. QED
        BY <1>3, <2>1, <4>1
    <3>2. SumFunctionOnSet(f, s \ {y}) = f[p] + SumFunctionOnSet(f, q)
      <4>1. p \in s \ {y} /\ (s \ {y}) \ {p} = q /\ s \ {y} \in SUBSET S
        BY <2>1, <2>4
      <4>2. Cardinality(s \ {y}) = n
        <5>1. IsFiniteSet(s)
          BY <1>1
        <5>. HIDE DEF N, q, p
        <5>. QED
          BY <5>1, OneRemoved
      <4>. HIDE DEF q, p
      <4>. QED
        BY <1>3, <4>1, <4>2
    <3>3. f[y] \in Int /\ f[p] \in Int /\ SumFunctionOnSet(f, q) \in Int
      <4>1. q \in SUBSET S /\ y \in S /\ p \in S
        BY <2>1
      <4>. QED
        BY <1>1, <4>1 DEF Values
    <3>. HIDE DEF q, p
    <3>. QED
      BY <2>2, <3>1, <3>2, <3>3
  <2>. QED
    BY <2>3, <2>4
<1>. HIDE DEF N
<1>4. Cardinality(S) \in N
  BY <1>1, <1>2, <1>3, AllNumbers
<1>. QED
  BY <1>4 DEF N

LEMMA SumAdded ==
    ASSUME NEW S, IsFiniteSet(S), NEW x, x \notin S, NEW f, Values(f, S \cup {x})
    PROVE  SumFunctionOnSet(f, S \cup {x}) = SumFunctionOnSet(f, S) + f[x]
<1>1. IsFiniteSet(S \cup {x}) /\ (S \cup {x}) \ {x} = S
  BY FS_AddElement
<1>2. SumFunctionOnSet(f, S \cup {x}) = f[x] + SumFunctionOnSet(f, S)
  BY <1>1, SumTaken
<1>3. Values(f, S) /\ f[x] \in Int
  BY DEF Values
<1>4. SumFunctionOnSet(f, S) \in Int
  BY <1>3, SumType
<1>. QED
  BY <1>2, <1>3, <1>4

\* Where one value changes, the sum changes by as much.
LEMMA SumChanged ==
    ASSUME NEW S, IsFiniteSet(S), NEW x \in S, NEW f, Values(f, S),
           NEW g, g[x] \in Int, \A y \in S \ {x} : g[y] = f[y]
    PROVE  SumFunctionOnSet(g, S) = SumFunctionOnSet(f, S) + (g[x] - f[x])
<1>. DEFINE r == S \ {x}
<1>1. IsFiniteSet(r) /\ Values(f, r) /\ Values(g, S) /\ f[x] \in Int
  BY FS_RemoveElement DEF Values
<1>2. SumFunctionOnSet(f, S) = f[x] + SumFunctionOnSet(f, r)
  BY SumTaken
<1>3. SumFunctionOnSet(g, S) = g[x] + SumFunctionOnSet(g, r)
  BY <1>1, SumTaken
<1>4. SumFunctionOnSet(f, r) = SumFunctionOnSet(g, r)
  BY <1>1, SumAgrees
<1>5. SumFunctionOnSet(f, r) \in Int
  BY <1>1, SumType
<1>. HIDE DEF r
<1>. QED
  BY <1>1, <1>2, <1>3, <1>4, <1>5

\* A sum of sums is the sum of the sums.
LEMMA SumOfSums ==
    ASSUME NEW S, IsFiniteSet(S), NEW f, Values(f, S), NEW g, Values(g, S),
           NEW h, \A x \in S : h[x] = f[x] + g[x]
    PROVE  SumFunctionOnSet(h, S) = SumFunctionOnSet(f, S) + SumFunctionOnSet(g, S)
<1>. DEFINE N == {n \in Nat : \A s \in SUBSET S : Cardinality(s) = n =>
                     SumFunctionOnSet(h, s)
                       = SumFunctionOnSet(f, s) + SumFunctionOnSet(g, s)}
<1>1. \A s \in SUBSET S :
          /\ IsFiniteSet(s) /\ Cardinality(s) \in Nat
          /\ Values(f, s) /\ Values(g, s) /\ Values(h, s)
  <2>1. \A x \in S : f[x] \in Int /\ g[x] \in Int /\ h[x] \in Int
    BY DEF Values
  <2>. QED
    BY <2>1, FS_Subset, FS_CardinalityType DEF Values
<1>2. 0 \in N
  <2>1. \A s \in SUBSET S : Cardinality(s) = 0 => s = {}
    BY <1>1, FS_EmptySet
  <2>2. /\ SumFunctionOnSet(f, {}) = 0 /\ SumFunctionOnSet(g, {}) = 0
        /\ SumFunctionOnSet(h, {}) = 0
    BY SumOfNone
  <2>. QED
    BY <2>1, <2>2
<1>3. ASSUME NEW n \in Nat, n \in N PROVE n + 1 \in N
  <2>. SUFFICES ASSUME NEW s \in SUBSET S, Cardinality(s) = n + 1
                PROVE  SumFunctionOnSet(h, s)
                         = SumFunctionOnSet(f, s) + SumFunctionOnSet(g, s)
    OBVIOUS
  <2>. DEFINE x == Pick(s)
              r == s \ {x}
  <2>1. s # {}
    BY FS_EmptySet
  <2>2. x \in s /\ r \in SUBSET S /\ Cardinality(r) = n
    BY <1>1, <2>1, Picked
  <2>3. /\ SumFunctionOnSet(f, s) = f[x] + SumFunctionOnSet(f, r)
        /\ SumFunctionOnSet(g, s) = g[x] + SumFunctionOnSet(g, r)
        /\ SumFunctionOnSet(h, s) = h[x] + SumFunctionOnSet(h, r)
    BY <1>1, <2>1, SumPicked
  <2>4. SumFunctionOnSet(h, r) = SumFunctionOnSet(f, r) + SumFunctionOnSet(g, r)
    BY <1>3, <2>2
  <2>5. SumFunctionOnSet(f, r) \in Int /\ SumFunctionOnSet(g, r) \in Int
    BY <1>1, <2>2, SumType
  <2>6. f[x] \in Int /\ g[x] \in Int /\ h[x] = f[x] + g[x]
    BY <2>2 DEF Values
  <2>. HIDE DEF x, r
  <2>. QED
    BY <2>3, <2>4, <2>5, <2>6
<1>. HIDE DEF N
<1>4. Cardinality(S) \in N
  BY <1>1, <1>2, <1>3, AllNumbers
<1>. QED
  BY <1>4 DEF N
=============================================================================
