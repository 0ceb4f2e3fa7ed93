----------------------------- MODULE Induction -----------------------------
(***************************************************************************)
(* Induction without a predicate as a parameter: over sets of naturals,    *)
(* over finite sets ordered by a relation, and the existence of functions  *)
(* defined by recursion on a prefix of the naturals.  The proofs about the *)
(* components use these lemmas for what is chosen from a finite set (the   *)
(* newest of some rows) and for what is computed along a sequence.         *)
(***************************************************************************)
EXTENDS Integers, FiniteSets, FiniteSetTheorems, WellFoundedInduction, TLAPS

\* A set of naturals that is not empty has a least element.
LEMMA LeastNat ==
    ASSUME NEW S \in SUBSET Nat, S # {}
    PROVE  \E n \in S : \A m \in S : n <= m
<1> DEFINE R == OpToRel(<, Nat)
<1>1. IsWellFoundedOn(R, Nat)
  BY NatLessThanWellFounded
<1>2. \A x, y \in Nat : x < y => <<x, y>> \in R
  BY DEF OpToRel
<1> HIDE DEF R
<1>3. PICK n \in S : \A y \in S : ~(<<y, n>> \in R)
  BY <1>1, WFMin
<1>4. ASSUME NEW m \in S PROVE n <= m
  <2>1. ~(m < n) /\ m \in Nat /\ n \in Nat
    BY <1>2, <1>3, <1>4
  <2> QED BY <2>1
<1> QED BY <1>4

\* A set of naturals that has 0 and every successor has them all.
LEMMA NatsFrom ==
    ASSUME NEW S \in SUBSET Nat, 0 \in S, \A n \in S : n + 1 \in S
    PROVE  S = Nat
<1> SUFFICES ASSUME Nat \ S # {} PROVE FALSE
  OBVIOUS
<1>1. PICK n \in Nat \ S : \A m \in Nat \ S : n <= m
  <2> DEFINE T == Nat \ S
  <2>1. T \in SUBSET Nat /\ T # {}
    OBVIOUS
  <2> HIDE DEF T
  <2>2. \E n \in T : \A m \in T : n <= m
    BY <2>1, LeastNat
  <2> QED BY <2>2 DEF T
<1>2. n # 0 /\ n - 1 \in Nat /\ ~(n <= n - 1)
  OBVIOUS
<1>3. n - 1 \in S
  BY <1>1, <1>2
<1>4. (n - 1) + 1 = n
  OBVIOUS
<1> QED BY <1>1, <1>3, <1>4

\* A set that has 0 and, up to n, every successor has every number up to n.
LEMMA NatsUpTo ==
    ASSUME NEW n \in Nat, NEW S, 0 \in S, \A i \in 1..n : i - 1 \in S => i \in S
    PROVE  0..n \subseteq S
<1> DEFINE T == {i \in Nat : i <= n => i \in S}
<1>1. 0 \in T /\ T \in SUBSET Nat
  OBVIOUS
<1>2. ASSUME NEW i \in T PROVE i + 1 \in T
  <2>1. i + 1 \in Nat /\ (i + 1) - 1 = i
    OBVIOUS
  <2>2. CASE i + 1 <= n
    BY <2>1, <2>2
  <2>3. CASE ~(i + 1 <= n)
    BY <2>1, <2>3
  <2> QED BY <2>2, <2>3
<1> HIDE DEF T
<1>3. T = Nat
  BY <1>1, <1>2, NatsFrom
<1> QED BY <1>3 DEF T

-----------------------------------------------------------------------------
\* A finite set on which R orders any two elements has a greatest one.
LEMMA GreatestBy ==
    ASSUME NEW S, IsFiniteSet(S), S # {}, NEW R,
           \A x, y \in S : <<x, y>> \in R \/ <<y, x>> \in R,
           \A x, y, z \in S : <<x, y>> \in R /\ <<y, z>> \in R => <<x, z>> \in R
    PROVE  \E m \in S : \A n \in S : <<n, m>> \in R
<1> DEFINE Without(T) == T # {} /\ ~\E m \in T : \A n \in T : <<n, m>> \in R
           Sizes == {Cardinality(T) : T \in {U \in SUBSET S : Without(U)}}
<1> SUFFICES ASSUME Without(S) PROVE FALSE
  OBVIOUS
<1>1. \A T \in SUBSET S : IsFiniteSet(T) /\ Cardinality(T) \in Nat
  BY FS_Subset, FS_CardinalityType
<1>2. Sizes \in SUBSET Nat /\ Sizes # {}
  BY <1>1, SMTT(30)
<1> HIDE DEF Sizes
<1>3. PICK k \in Sizes : \A j \in Sizes : k <= j
  BY <1>2, LeastNat
<1>4. PICK T \in SUBSET S : Without(T) /\ Cardinality(T) = k
  BY DEF Sizes
<1>5. PICK x \in T : TRUE
  BY <1>4
<1> DEFINE U == T \ {x}
<1>6. U \in SUBSET S /\ Cardinality(U) = k - 1 /\ k \in Nat
  BY <1>1, <1>4, <1>5, FS_RemoveElement
<1>7. ~Without(U)
  <2>1. ASSUME Without(U) PROVE k <= k - 1
    <3>1. Cardinality(U) \in Sizes
      BY <1>6, <2>1 DEF Sizes
    <3> QED BY <1>3, <1>6, <3>1
  <2>2. ~(k <= k - 1)
    BY <1>6
  <2> QED BY <2>1, <2>2
<1>8. CASE U = {}
  <2>1. T = {x} /\ <<x, x>> \in R
    BY <1>5, <1>8
  <2> QED BY <1>4, <2>1
<1>9. CASE \E m \in U : \A n \in U : <<n, m>> \in R
  <2>1. PICK m \in U : \A n \in U : <<n, m>> \in R
    BY <1>9
  <2>2. \A n \in T : n \in S /\ (n = x \/ n \in U)
    BY <1>5
  <2>3. CASE <<x, m>> \in R
    BY <1>4, <2>1, <2>2, <2>3
  <2>4. CASE <<m, x>> \in R
    <3>1. \A n \in T : <<n, x>> \in R
      BY <2>1, <2>2, <2>4
    <3> QED BY <1>4, <1>5, <3>1
  <2> QED BY <2>1, <2>2, <2>3, <2>4
<1> QED BY <1>7, <1>8, <1>9

\* Of a finite set of integers one is better than all others or, of equals, the least: B
\* is a strict order in which being equal is transitive.
LEMMA FirstBy ==
    ASSUME NEW S \in SUBSET Int, IsFiniteSet(S), S # {}, NEW B,
           \A i \in S : <<i, i>> \notin B,
           \A i, j, k \in S : <<i, j>> \in B /\ <<j, k>> \in B => <<i, k>> \in B,
           \A i, j, k \in S : <<i, k>> \in B => <<i, j>> \in B \/ <<j, k>> \in B
    PROVE  \E i \in S : \A j \in S \ {i} : <<i, j>> \in B \/ (<<j, i>> \notin B /\ i < j)
<1> DEFINE Over(i, j) == <<i, j>> \in B \/ (<<j, i>> \notin B /\ i < j)
           R == {p \in S \X S : p[1] = p[2] \/ Over(p[2], p[1])}
<1>1. \A i, j \in S : <<i, j>> \in R <=> i = j \/ Over(j, i)
  OBVIOUS
<1>2. \A i, j \in S : i = j \/ Over(i, j) \/ Over(j, i)
  <2>1. \A i, j \in S : i = j \/ i < j \/ j < i
    OBVIOUS
  <2> QED BY <2>1
<1>3. \A i, j, k \in S : Over(i, j) /\ Over(j, k) => Over(i, k)
  <2>1. \A i, j, k \in S : i < j /\ j < k => i < k
    OBVIOUS
  <2> QED BY <2>1
<1> HIDE DEF Over, R
<1>4. /\ \A i, j \in S : <<i, j>> \in R \/ <<j, i>> \in R
      /\ \A i, j, k \in S : <<i, j>> \in R /\ <<j, k>> \in R => <<i, k>> \in R
  BY <1>1, <1>2, <1>3
<1>5. \E i \in S : \A j \in S : <<j, i>> \in R
  BY <1>4, GreatestBy
<1>6. \E i \in S : \A j \in S \ {i} : Over(i, j)
  BY <1>1, <1>5
<1> QED BY <1>6 DEF Over

\* A finite set of integers that is not empty has a greatest element.
LEMMA Greatest ==
    ASSUME NEW S \in SUBSET Int, IsFiniteSet(S), S # {}
    PROVE  \E m \in S : \A n \in S : n <= m
<1> DEFINE R == {p \in Int \X Int : p[1] <= p[2]}
<1>1. \A x, y \in Int : <<x, y>> \in R <=> x <= y
  OBVIOUS
<1> HIDE DEF R
<1>2. /\ \A x, y \in S : <<x, y>> \in R \/ <<y, x>> \in R
      /\ \A x, y, z \in S : <<x, y>> \in R /\ <<y, z>> \in R => <<x, z>> \in R
  <2>1. \A x, y, z \in Int : (x <= y \/ y <= x) /\ (x <= y /\ y <= z => x <= z)
    OBVIOUS
  <2> QED BY <1>1, <2>1
<1>3. \E m \in S : \A n \in S : <<n, m>> \in R
  BY <1>2, GreatestBy
<1> QED BY <1>1, <1>3

\* What a function takes on a finite set is a finite set.
LEMMA FiniteImage ==
    ASSUME NEW S, IsFiniteSet(S), NEW f, f = [x \in S |-> f[x]]
    PROVE  IsFiniteSet({f[x] : x \in S})
<1> DEFINE T == {f[x] : x \in S}
<1>1. f \in Surjection(S, T)
  BY DEF Surjection
<1> HIDE DEF T
<1>2. IsFiniteSet(T)
  BY <1>1, FS_Surjection
<1> QED BY <1>2 DEF T

\* Sets one to one with each other have the same size.
LEMMA OneToOne ==
    ASSUME NEW S, IsFiniteSet(S), NEW T, NEW f, f = [x \in S |-> f[x]],
           \A x \in S : f[x] \in T,
           \A x, y \in S : f[x] = f[y] => x = y,
           \A y \in T : \E x \in S : f[x] = y
    PROVE  IsFiniteSet(T) /\ Cardinality(T) = Cardinality(S) /\ f \in Bijection(S, T)
<1>1. f \in [S -> T]
  OBVIOUS
<1>2. f \in Bijection(S, T)
  BY <1>1 DEF Bijection, Injection, IsInjective, Surjection
<1> QED BY <1>2, FS_Bijection DEF ExistsBijection

-----------------------------------------------------------------------------
\* A finite set in the order of R, f, whose k-th is the one with k - 1 before it: it
\* has all of the set, each once, in that order.
LEMMA RankFacts ==
    ASSUME NEW S, IsFiniteSet(S), NEW R,
           \A x \in S : <<x, x>> \notin R,
           \A x, y \in S : x = y \/ <<x, y>> \in R \/ <<y, x>> \in R,
           \A x, y, z \in S : <<x, y>> \in R /\ <<y, z>> \in R => <<x, z>> \in R,
           NEW f, f = [k \in 1..Cardinality(S) |-> f[k]],
           \A k \in 1..Cardinality(S) : \A x \in S :
              Cardinality({y \in S : <<y, x>> \in R}) = k - 1 =>
                 f[k] \in S /\ Cardinality({y \in S : <<y, f[k]>> \in R}) = k - 1
    PROVE  /\ Cardinality(S) \in Nat
           /\ f \in [1..Cardinality(S) -> S]
           /\ \A x \in S : \E k \in 1..Cardinality(S) : f[k] = x
           /\ \A i, j \in 1..Cardinality(S) : i < j => <<f[i], f[j]>> \in R
<1> DEFINE n == Cardinality(S)
           Before(x) == {y \in S : <<y, x>> \in R}
           rank == [x \in S |-> Cardinality(Before(x))]
<1>1. n \in Nat
  BY FS_CardinalityType
<1>2. ASSUME NEW x \in S PROVE IsFiniteSet(Before(x)) /\ rank[x] \in 0..(n - 1)
  <2>1. Before(x) \in SUBSET (S \ {x})
    OBVIOUS
  <2>2. IsFiniteSet(S \ {x}) /\ Cardinality(S \ {x}) = n - 1
    BY FS_RemoveElement
  <2> HIDE DEF Before
  <2>3. IsFiniteSet(Before(x)) /\ Cardinality(Before(x)) <= n - 1 /\ Cardinality(Before(x)) \in Nat
    BY <2>1, <2>2, FS_Subset, FS_CardinalityType
  <2> QED BY <1>1, <2>3
<1>3. /\ \A x \in S : rank[x] \in 0..(n - 1) /\ rank[x] \in Int
      /\ \A x \in S : IsFiniteSet(Before(x)) /\ rank[x] = Cardinality(Before(x))
  <2>1. 0..(n - 1) \subseteq Int
    BY <1>1
  <2> QED BY <1>2, <2>1
<1> HIDE DEF rank
<1>4. ASSUME NEW x \in S, NEW y \in S, <<x, y>> \in R PROVE rank[x] < rank[y]
  <2>1. Before(x) \cup {x} \in SUBSET Before(y) /\ x \notin Before(x)
    BY <1>4
  <2> HIDE DEF Before
  <2>2. Cardinality(Before(x) \cup {x}) = Cardinality(Before(x)) + 1
    BY <1>3, <2>1, FS_AddElement
  <2>3. Cardinality(Before(x) \cup {x}) <= Cardinality(Before(y))
    BY <1>3, <2>1, FS_Subset
  <2> QED BY <1>3, <2>2, <2>3
<1>5. \A x, y \in S : rank[x] = rank[y] => x = y
  <2>1. \A x, y \in S : x = y \/ rank[x] < rank[y] \/ rank[y] < rank[x]
    BY <1>4
  <2> QED BY <1>3, <2>1
<1>6. rank \in [S -> 0..(n - 1)] /\ \A x \in S : rank[x] = Cardinality(Before(x))
  <2>1. rank = [x \in S |-> rank[x]]
    BY DEF rank
  <2> QED BY <1>3, <2>1
<1>7. rank \in Injection(S, 0..(n - 1))
  BY <1>6, <1>5 DEF Injection, IsInjective
<1>8. IsFiniteSet(0..(n - 1)) /\ Cardinality(0..(n - 1)) = n
  <2>1. 0 \in Int /\ n - 1 \in Int
    BY <1>1
  <2>2. /\ IsFiniteSet(0..(n - 1))
        /\ Cardinality(0..(n - 1)) = IF 0 > n - 1 THEN 0 ELSE (n - 1) - 0 + 1
    BY <2>1, FS_Interval
  <2> QED BY <1>1, <2>2
<1>9. rank \in Surjection(S, 0..(n - 1))
  <2> HIDE DEF n
  <2>1. Cardinality(S) = n
    BY DEF n
  <2> QED BY <1>7, <1>8, <2>1, FS_Injection
<1>10. \A k \in 1..n : \E x \in S : rank[x] = k - 1
  <2>1. \A j \in 0..(n - 1) : \E x \in S : rank[x] = j
    BY <1>9 DEF Surjection
  <2>2. \A k \in 1..n : k - 1 \in 0..(n - 1)
    BY <1>1
  <2> QED BY <2>1, <2>2
<1>11. /\ f = [k \in 1..n |-> f[k]]
       /\ \A k \in 1..n : \A x \in S : Cardinality(Before(x)) = k - 1 =>
             f[k] \in S /\ Cardinality(Before(f[k])) = k - 1
  OBVIOUS
<1>12. ASSUME NEW k \in 1..n PROVE f[k] \in S /\ rank[f[k]] = k - 1
  <2> HIDE DEF Before
  <2>1. \E x \in S : Cardinality(Before(x)) = k - 1
    BY <1>6, <1>10
  <2>2. f[k] \in S /\ Cardinality(Before(f[k])) = k - 1
    BY <1>11, <2>1
  <2> QED BY <1>6, <2>2
<1> HIDE DEF Before
<1>13. f \in [1..n -> S]
  BY <1>11, <1>12
<1>14. ASSUME NEW x \in S PROVE \E k \in 1..n : f[k] = x
  <2>1. rank[x] + 1 \in 1..n /\ (rank[x] + 1) - 1 = rank[x]
    <3>1. rank[x] \in 0..(n - 1) /\ n \in Nat
      BY <1>1, <1>3
    <3> QED BY <3>1
  <2>2. f[rank[x] + 1] \in S /\ rank[f[rank[x] + 1]] = rank[x]
    BY <1>12, <2>1
  <2>3. f[rank[x] + 1] = x
    BY <1>5, <2>2
  <2> QED BY <2>1, <2>3
<1>15. ASSUME NEW i \in 1..n, NEW j \in 1..n, i < j PROVE <<f[i], f[j]>> \in R
  <2>1. f[i] \in S /\ f[j] \in S /\ rank[f[i]] = i - 1 /\ rank[f[j]] = j - 1
    BY <1>12
  <2>2. rank[f[i]] # rank[f[j]] /\ ~(rank[f[j]] < rank[f[i]])
    BY <1>15, <2>1
  <2> QED BY <1>4, <2>1, <2>2
<1> QED BY <1>1, <1>13, <1>14, <1>15

-----------------------------------------------------------------------------
\* f is defined by recursion along 1..n, each value in T from its index and the one
\* before it.
RecursionOf(f, T, b, n, G) ==
    f \in [0..n -> T] /\ f[0] = b /\ \A i \in 1..n : f[i] = G[<<i, f[i - 1]>>]

\* There is such a function.
LEMMA RecursionExists ==
    ASSUME NEW T, NEW b \in T, NEW n \in Nat, NEW G \in [(1..n) \X T -> T]
    PROVE  \E f : RecursionOf(f, T, b, n, G)
<1> DEFINE Solves(f, k) ==
              f \in [0..k -> T] /\ f = [i \in 0..k |-> IF i = 0 THEN b ELSE G[<<i, f[i - 1]>>]]
           S == {k \in 0..n : \E f : Solves(f, k)}
<1>1. 0 \in S
  <2> DEFINE f == [i \in 0..0 |-> b]
  <2>1. Solves(f, 0)
    OBVIOUS
  <2>2. 0 \in 0..n
    OBVIOUS
  <2> HIDE DEF Solves, f
  <2> QED BY <2>1, <2>2
<1>2. ASSUME NEW k \in 1..n, k - 1 \in S PROVE k \in S
  <2>1. PICK f : Solves(f, k - 1)
    BY <1>2
  <2> DEFINE g == [i \in 0..k |-> IF i = k THEN G[<<k, f[k - 1]>>] ELSE f[i]]
  <2>2. k - 1 \in 0..(k - 1) /\ k # 0 /\ k - 1 # k
    OBVIOUS
  <2>3. G[<<k, f[k - 1]>>] \in T
    BY <2>1, <2>2
  <2>4. \A i \in 0..k : i = k \/ i \in 0..(k - 1)
    OBVIOUS
  <2>5. g \in [0..k -> T]
    BY <2>1, <2>3, <2>4
  <2>6. ASSUME NEW i \in 0..k PROVE g[i] = IF i = 0 THEN b ELSE G[<<i, g[i - 1]>>]
    <3>1. CASE i = k
      <4>1. g[k] = G[<<k, f[k - 1]>>] /\ g[k - 1] = f[k - 1]
        BY <2>2
      <4> HIDE DEF g
      <4> QED BY <2>2, <3>1, <4>1
    <3>2. CASE i = 0
      BY <2>1, <2>2, <3>2
    <3>3. CASE i # k /\ i # 0
      <4>1. i \in 0..(k - 1) /\ i - 1 \in 0..k /\ i - 1 # k
        BY <3>3
      <4>2. g[i] = f[i] /\ g[i - 1] = f[i - 1]
        BY <3>3, <4>1
      <4> QED BY <2>1, <3>3, <4>1, <4>2
    <3> QED BY <3>1, <3>2, <3>3
  <2>7. g = [i \in 0..k |-> IF i = 0 THEN b ELSE G[<<i, g[i - 1]>>]]
    BY <2>6
  <2> HIDE DEF g
  <2>8. Solves(g, k) /\ k \in 0..n
    BY <2>5, <2>7
  <2> HIDE DEF Solves
  <2> QED BY <2>8
<1> HIDE DEF S
<1>3. n \in S
  BY <1>1, <1>2, NatsUpTo
<1>4. PICK f : Solves(f, n)
  BY <1>3 DEF S
<1>5. 0 \in 0..n /\ \A i \in 1..n : i \in 0..n /\ i # 0
  OBVIOUS
<1>6. f \in [0..n -> T] /\ f[0] = b /\ \A i \in 1..n : f[i] = G[<<i, f[i - 1]>>]
  BY <1>4, <1>5
<1> QED BY <1>6 DEF RecursionOf

\* The same, where what is computed after i steps is in T[i].
StepsWithin(f, n, T, b, F) ==
    /\ f = [i \in 0..n |-> f[i]] /\ f[0] = b
    /\ \A i \in 0..n : f[i] \in T[i]
    /\ \A i \in 1..n : f[i] = F[<<i, f[i - 1]>>]

\* There is one if each step, on what may come before it, leads to what may come next.
LEMMA RecursionWithin ==
    ASSUME NEW n \in Nat, NEW T, NEW b \in T[0], NEW F,
           \A i \in 1..n : \A x \in T[i - 1] : F[<<i, x>>] \in T[i]
    PROVE  \E f : StepsWithin(f, n, T, b, F)
<1> DEFINE U == UNION {T[i] : i \in 0..n}
           G == [q \in (1..n) \X U |-> IF q[2] \in T[q[1] - 1] THEN F[q] ELSE b]
<1>1. \A i \in 1..n : i - 1 \in 0..n /\ i \in 0..n
  OBVIOUS
<1>2. \A i \in 1..n, x \in U : G[<<i, x>>] = IF x \in T[i - 1] THEN F[<<i, x>>] ELSE b
  OBVIOUS
<1>3. b \in U /\ G \in [(1..n) \X U -> U]
  OBVIOUS
<1> HIDE DEF G, U
<1>4. PICK f : RecursionOf(f, U, b, n, G)
  BY <1>3, RecursionExists
<1>5. /\ f \in [0..n -> U] /\ f[0] = b
      /\ \A i \in 1..n : f[i] = G[<<i, f[i - 1]>>] /\ f[i - 1] \in U
  BY <1>1, <1>4 DEF RecursionOf
<1>6. \A i \in 0..n : f[i] \in T[i]
  <2> DEFINE S == {i \in 0..n : f[i] \in T[i]}
  <2>1. 0 \in S
    BY <1>5
  <2>2. ASSUME NEW i \in 1..n, i - 1 \in S PROVE i \in S
    BY <1>1, <1>2, <1>5, <2>2
  <2> HIDE DEF S
  <2>3. 0..n \subseteq S
    BY <2>1, <2>2, NatsUpTo
  <2> QED BY <2>3 DEF S
<1>7. \A i \in 1..n : f[i] = F[<<i, f[i - 1]>>]
  BY <1>1, <1>2, <1>5, <1>6
<1> QED BY <1>5, <1>6, <1>7 DEF StepsWithin
=============================================================================
