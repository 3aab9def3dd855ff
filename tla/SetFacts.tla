------------------------------ MODULE SetFacts ------------------------------
(***************************************************************************)
(* Induction over natural numbers and finite sets, and sums over finite    *)
(* sets.  A property is given as the set of what has it.                   *)
(***************************************************************************)
EXTENDS Integers, FiniteSets, FiniteSetsExt, FiniteSetTheorems, WellFoundedInduction, TLAPS

\* A set that holds zero and the successor of what it holds, holds every number.
LEMMA NatSetInduction ==
  ASSUME NEW S, 0 \in S, \A n \in Nat : n \in S => n + 1 \in S
  PROVE  \A n \in Nat : n \in S
<1> DEFINE T == {n \in Nat : n \notin S}
<1> SUFFICES ASSUME T # {} PROVE FALSE
  OBVIOUS
<1>1. \E x \in T : \A y \in T : ~(<<y, x>> \in OpToRel(<, Nat))
  <2> T \subseteq Nat
    OBVIOUS
  <2> HIDE DEF T
  <2> QED
    BY NatLessThanWellFounded, WFMin
<1>2. PICK x \in T : \A y \in T : ~(<<y, x>> \in OpToRel(<, Nat))
  BY <1>1
<1>3. x # 0 /\ x \in Nat
  OBVIOUS
<1>4. x - 1 \in Nat /\ x - 1 < x
  BY <1>3
<1>5. <<x - 1, x>> \in OpToRel(<, Nat)
  BY <1>3, <1>4 DEF OpToRel
<1>6. x - 1 \in S
  BY <1>2, <1>4, <1>5
<1>7. (x - 1) + 1 \in S
  BY <1>4, <1>6
<1> QED
  BY <1>3, <1>7

\* What holds of the empty set, and of a set if it holds of the set without any
\* one of its elements, holds of every subset of a finite set.
LEMMA SizeInduction ==
  ASSUME NEW S, IsFiniteSet(S), NEW F, {} \in F,
         \A s \in SUBSET S : s # {} /\ (\A x \in s : s \ {x} \in F) => s \in F
  PROVE  SUBSET S \subseteq F
<1> DEFINE N == {n \in Nat : \A s \in SUBSET S : Cardinality(s) = n => s \in F}
<1>1. \A s \in SUBSET S : IsFiniteSet(s) /\ Cardinality(s) \in Nat
  BY FS_Subset, FS_CardinalityType
<1>2. 0 \in N
  BY <1>1, FS_EmptySet
<1>3. ASSUME NEW n \in Nat, n \in N PROVE n + 1 \in N
  <2> SUFFICES ASSUME NEW s \in SUBSET S, Cardinality(s) = n + 1 PROVE s \in F
    BY <1>3
  <2>1. s # {}
    <3>1. Cardinality(s) # 0
      <4> HIDE DEF N
      <4> QED
        OBVIOUS
    <3> QED
      BY <3>1, FS_EmptySet
  <2>2. ASSUME NEW x \in s PROVE s \ {x} \in F
    <3>1. Cardinality(s \ {x}) = n
      BY <1>1, FS_RemoveElement
    <3> QED
      BY <1>3, <3>1
  <2> QED
    BY <2>1, <2>2
<1> HIDE DEF N
<1>4. \A n \in Nat : n \in N
  BY <1>2, <1>3, NatSetInduction
<1> QED
  BY <1>1, <1>4 DEF N

-----------------------------------------------------------------------------

\* h gives the sum of the weights of every subset of S.
Sums(h, G, S) ==
  /\ h \in [SUBSET S -> Int]
  /\ h[{}] = 0
  /\ \A s \in SUBSET S : \A x \in s : h[s] = G[x] + h[s \ {x}]

\* The recursion by which MapThenSumSet is defined: one element at a time, in an
\* order that is not known.
Folds(h, G, S) ==
  h = [s \in SUBSET S |->
         IF s = {} THEN 0
         ELSE G[CHOOSE x \in s : TRUE] + h[s \ {CHOOSE x \in s : TRUE}]]

\* Sums satisfy the recursion,
LEMMA SumsFold ==
  ASSUME NEW S, NEW G, NEW h, Sums(h, G, S)
  PROVE  Folds(h, G, S)
<1> SUFFICES ASSUME NEW s \in SUBSET S
             PROVE  h[s] = IF s = {} THEN 0
                           ELSE G[CHOOSE x \in s : TRUE] + h[s \ {CHOOSE x \in s : TRUE}]
  BY DEF Sums, Folds
<1>1. s # {} => (CHOOSE x \in s : TRUE) \in s
  OBVIOUS
<1> QED
  BY <1>1 DEF Sums

\* and nothing else does.
LEMMA FoldSums ==
  ASSUME NEW S, IsFiniteSet(S), NEW G, NEW h, Sums(h, G, S), NEW f, Folds(f, G, S)
  PROVE  f = h
<1> DEFINE F == {s \in SUBSET S : f[s] = h[s]}
<1>1. {} \in F
  BY DEF Sums, Folds
<1>2. ASSUME NEW s \in SUBSET S, s # {}, \A x \in s : s \ {x} \in F
      PROVE  s \in F
  <2> DEFINE p == CHOOSE x \in s : TRUE
  <2>1. p \in s
    BY <1>2
  <2>2. f[s] = G[p] + f[s \ {p}]
    BY <1>2 DEF Folds
  <2> HIDE DEF p
  <2>3. h[s] = G[p] + h[s \ {p}]
    BY <2>1 DEF Sums
  <2>4. s \ {p} \in F
    BY <1>2, <2>1
  <2> QED
    BY <2>2, <2>3, <2>4
<1>3. SUBSET S \subseteq F
  <2> HIDE DEF F
  <2> QED
    BY <1>1, <1>2, SizeInduction
<1>4. \A s \in SUBSET S : f[s] = h[s]
  BY <1>3
<1>5. f = [s \in SUBSET S |-> f[s]]
  BY DEF Folds
<1>6. h = [s \in SUBSET S |-> h[s]]
  BY DEF Sums
<1> QED
  BY <1>4, <1>5, <1>6

\* The sums over a set give those over the set with one element more.
LEMMA SumsExtend ==
  ASSUME NEW S, NEW x, x \notin S, NEW G, \A y \in S \cup {x} : G[y] \in Int,
         NEW h, Sums(h, G, S)
  PROVE  \E k : Sums(k, G, S \cup {x}) /\ k[S] = h[S]
<1> DEFINE T == S \cup {x}
           k == [s \in SUBSET T |-> IF x \in s THEN G[x] + h[s \ {x}] ELSE h[s]]
<1>1. \A s \in SUBSET T : s \ {x} \in SUBSET S
  OBVIOUS
<1>2. \A s \in SUBSET T : k[s] = IF x \in s THEN G[x] + h[s \ {x}] ELSE h[s]
  OBVIOUS
<1>3. \A s \in SUBSET S : h[s] \in Int
  BY DEF Sums
<1>4. k = [s \in SUBSET T |-> k[s]]
  BY <1>2
<1> HIDE DEF k
<1>5. k \in [SUBSET T -> Int]
  <2>1. \A s \in SUBSET T : k[s] \in Int
    <3> SUFFICES ASSUME NEW s \in SUBSET T PROVE k[s] \in Int
      OBVIOUS
    <3>1. CASE x \in s
      <4>1. k[s] = G[x] + h[s \ {x}]
        BY <1>2, <3>1
      <4>2. G[x] \in Int /\ h[s \ {x}] \in Int
        BY <1>1, <1>3
      <4> QED
        BY <4>1, <4>2
    <3>2. CASE x \notin s
      <4>1. s \in SUBSET S
        BY <3>2
      <4> QED
        BY <1>2, <1>3, <3>2, <4>1
    <3> QED
      BY <3>1, <3>2
  <2> QED
    BY <1>4, <2>1
<1>6. k[{}] = 0
  BY <1>2 DEF Sums
<1>7. ASSUME NEW s \in SUBSET T, NEW y \in s PROVE k[s] = G[y] + k[s \ {y}]
  <2> s \ {y} \in SUBSET T
    OBVIOUS
  <2>1. CASE y = x
    BY <1>2, <2>1
  <2>2. CASE x \notin s
    <3>1. s \in SUBSET S
      BY <2>2
    <3>2. k[s] = h[s] /\ k[s \ {y}] = h[s \ {y}]
      BY <1>2, <2>2
    <3> QED
      BY <3>1, <3>2 DEF Sums
  <2>3. CASE y # x /\ x \in s
    <3> y \in s \ {x}
      BY <2>3
    <3>1. h[s \ {x}] = G[y] + h[(s \ {x}) \ {y}]
      BY <1>1 DEF Sums
    <3>2. (s \ {x}) \ {y} = (s \ {y}) \ {x}
      OBVIOUS
    <3>3. k[s] = G[x] + h[s \ {x}] /\ k[s \ {y}] = G[x] + h[(s \ {y}) \ {x}]
      BY <1>2, <2>3
    <3>4. h[s \ {x}] \in Int /\ h[(s \ {y}) \ {x}] \in Int
      BY <1>1, <1>3
    <3>5. G[x] \in Int /\ G[y] \in Int
      OBVIOUS
    <3>6. \A a, b, c \in Int : a + (b + c) = b + (a + c)
      OBVIOUS
    <3>7. G[x] + (G[y] + h[(s \ {y}) \ {x}]) = G[y] + (G[x] + h[(s \ {y}) \ {x}])
      BY <3>4, <3>5, <3>6
    <3> QED
      BY <3>1, <3>2, <3>3, <3>7
  <2> QED
    BY <2>1, <2>2, <2>3
<1> HIDE DEF T
<1>8. Sums(k, G, T)
  BY <1>5, <1>6, <1>7 DEF Sums
<1>9. k[S] = h[S]
  BY <1>2 DEF T
<1> QED
  BY <1>8, <1>9 DEF T

\* Every finite set has sums.
LEMMA SumsExist ==
  ASSUME NEW S, IsFiniteSet(S), NEW G, \A x \in S : G[x] \in Int
  PROVE  \E h : Sums(h, G, S)
<1> DEFINE F == {s \in SUBSET S : \E h : Sums(h, G, s)}
<1>1. {} \in F
  <2> DEFINE h == [s \in {{}} |-> 0]
  <2>1. Sums(h, G, {})
    BY DEF Sums
  <2> QED
    BY <2>1
<1>2. ASSUME NEW s \in SUBSET S, s # {}, \A x \in s : s \ {x} \in F
      PROVE  s \in F
  <2>1. PICK x \in s : TRUE
    BY <1>2
  <2>2. PICK h : Sums(h, G, s \ {x})
    BY <1>2, <2>1
  <2>3. PICK k : Sums(k, G, (s \ {x}) \cup {x})
    <3>1. x \notin s \ {x} /\ \A y \in (s \ {x}) \cup {x} : G[y] \in Int
      BY <2>1
    <3> QED
      BY <2>2, <3>1, SumsExtend
  <2>4. (s \ {x}) \cup {x} = s
    BY <2>1
  <2> QED
    BY <2>3, <2>4
<1> HIDE DEF F
<1>3. S \in F
  BY <1>1, <1>2, SizeInduction
<1> QED
  BY <1>3 DEF F

-----------------------------------------------------------------------------
(* The members of a finite set of numbers in their order *)

Lower(S, s) == {t \in S : t <= s}

\* The rank of a member grows with it, and every rank is taken.
LEMMA Ranks ==
  ASSUME NEW S, S \subseteq Int, IsFiniteSet(S)
  PROVE  /\ Cardinality(S) \in Nat
         /\ \A s \in S : Cardinality(Lower(S, s)) \in 1..Cardinality(S)
         /\ \A s, u \in S : s < u => Cardinality(Lower(S, s)) < Cardinality(Lower(S, u))
         /\ \A i \in 1..Cardinality(S) : \E s \in S : Cardinality(Lower(S, s)) = i
<1> DEFINE n == Cardinality(S)
<1>1. n \in Nat
  BY FS_CardinalityType
<1>2. ASSUME NEW s \in S
      PROVE  /\ IsFiniteSet(Lower(S, s)) /\ Cardinality(Lower(S, s)) \in Nat
             /\ Cardinality(Lower(S, s)) <= n /\ Cardinality(Lower(S, s)) # 0
  <2>1. Lower(S, s) \in SUBSET S /\ s \in Lower(S, s)
    BY DEF Lower
  <2>2. IsFiniteSet(Lower(S, s)) /\ Cardinality(Lower(S, s)) <= n
    BY <2>1, FS_Subset
  <2>3. Cardinality(Lower(S, s)) \in Nat
    BY <2>2, FS_CardinalityType
  <2>4. Cardinality(Lower(S, s)) # 0
    BY <2>1, <2>2, FS_EmptySet
  <2> QED
    BY <2>2, <2>3, <2>4
<1>3. ASSUME NEW s \in S, NEW u \in S, s < u
      PROVE  Cardinality(Lower(S, s)) < Cardinality(Lower(S, u))
  <2>1. Lower(S, s) \in SUBSET Lower(S, u)
    <3>1. ASSUME NEW t \in S, t <= s PROVE t <= u
      <4>1. t \in Int /\ s \in Int /\ u \in Int
        OBVIOUS
      <4> QED
        BY <1>3, <3>1, <4>1
    <3> QED
      BY <3>1 DEF Lower
  <2>2. u \in Lower(S, u) /\ u \notin Lower(S, s)
    BY <1>3 DEF Lower
  <2>3. /\ Cardinality(Lower(S, s)) <= Cardinality(Lower(S, u))
        /\ Cardinality(Lower(S, u)) # Cardinality(Lower(S, s))
    BY <1>2, <2>1, <2>2, FS_Subset
  <2> QED
    BY <1>2, <2>3
<1> DEFINE rank == [s \in S |-> Cardinality(Lower(S, s))]
<1>4. \A s \in S : Cardinality(Lower(S, s)) \in 1..n
  BY <1>1, <1>2
<1>5. rank \in Injection(S, 1..n)
  <2>1. rank \in [S -> 1..n]
    BY <1>4
  <2>2. ASSUME NEW s \in S, NEW u \in S, rank[s] = rank[u] PROVE s = u
    <3>1. Cardinality(Lower(S, s)) = Cardinality(Lower(S, u))
      BY <2>2
    <3>2. ~(s < u) /\ ~(u < s)
      BY <1>2, <1>3, <3>1
    <3> QED
      BY <3>2
  <2> HIDE DEF rank
  <2> QED
    BY <2>1, <2>2 DEF Injection, IsInjective
<1>6. IsFiniteSet(1..n) /\ Cardinality(1..n) = n
  BY <1>1, FS_Interval
<1>7. rank \in Surjection(S, 1..n)
  <2> HIDE DEF rank, n
  <2>1. Cardinality(S) = Cardinality(1..n) <=> rank \in Surjection(S, 1..n)
    BY <1>5, <1>6, FS_Injection
  <2> QED
    BY <1>6, <2>1 DEF n
<1>8. ASSUME NEW i \in 1..n PROVE \E s \in S : Cardinality(Lower(S, s)) = i
  <2>1. \E s \in S : rank[s] = i
    <3> HIDE DEF rank
    <3> QED
      BY <1>7 DEF Surjection
  <2> QED
    BY <2>1
<1> QED
  BY <1>1, <1>3, <1>4, <1>8

\* A finite set of numbers has a least and a greatest member.
LEMMA LeastExists ==
  ASSUME NEW S, S \subseteq Int, IsFiniteSet(S), S # {}
  PROVE  \E s \in S : \A t \in S : s <= t
<1>1. Cardinality(S) \in Nat /\ Cardinality(S) # 0
  BY FS_CardinalityType, FS_EmptySet
<1>2. PICK s \in S : Cardinality(Lower(S, s)) = 1
  <2>1. 1 \in 1..Cardinality(S)
    BY <1>1
  <2>2. \A i \in 1..Cardinality(S) : \E s \in S : Cardinality(Lower(S, s)) = i
    BY Ranks
  <2> QED
    BY <2>1, <2>2
<1>3. ASSUME NEW t \in S, t < s PROVE FALSE
  <2>1. Cardinality(Lower(S, t)) < 1 /\ Cardinality(Lower(S, t)) \in 1..Cardinality(S)
    BY <1>2, <1>3, Ranks
  <2> QED
    BY <1>1, <2>1
<1> QED
  BY <1>3

\* The members that at most n - 1 others exceed are n.
LEMMA TopSize ==
  ASSUME NEW S, S \subseteq Int, IsFiniteSet(S), NEW n \in Nat, n <= Cardinality(S)
  PROVE  LET top == {x \in S : Cardinality({y \in S : y > x}) < n}
         IN IsFiniteSet(top) /\ Cardinality(top) = n
<1> DEFINE size == Cardinality(S)
           top == {x \in S : Cardinality({y \in S : y > x}) < n}
           ranks == (size - n + 1)..size
           rank == [x \in top |-> Cardinality(Lower(S, x))]
<1>1. size \in Nat
  BY FS_CardinalityType
<1>2. ASSUME NEW x \in S
      PROVE  Cardinality({y \in S : y > x}) = size - Cardinality(Lower(S, x))
  <2> DEFINE upper == {y \in S : y > x}
             lower == Lower(S, x)
  <2>1. upper \in SUBSET S /\ lower \in SUBSET S
    BY DEF Lower
  <2>2. IsFiniteSet(upper) /\ IsFiniteSet(lower)
    BY <2>1, FS_Subset
  <2>3. upper \cap lower = {} /\ upper \cup lower = S
    <3>1. ASSUME NEW y \in S PROVE (y > x) <=> ~(y <= x)
      <4>1. x \in Int /\ y \in Int
        OBVIOUS
      <4> QED
        BY <4>1
    <3> QED
      BY <3>1 DEF Lower
  <2>4. Cardinality(upper) \in Nat /\ Cardinality(lower) \in Nat
    BY <2>2, FS_CardinalityType
  <2> HIDE DEF upper, lower
  <2>5. Cardinality(upper \cup lower) =
          Cardinality(upper) + Cardinality(lower) - Cardinality(upper \cap lower)
    BY <2>2, FS_Union
  <2>6. size = Cardinality(upper) + Cardinality(lower)
    <3>1. Cardinality(upper \cup lower) = size /\ Cardinality(upper \cap lower) = 0
      BY <2>3, FS_EmptySet
    <3> QED
      BY <2>4, <2>5, <3>1
  <2>7. Cardinality(upper) = size - Cardinality(lower)
    BY <1>1, <2>4, <2>6
  <2> QED
    BY <2>7 DEF upper, lower
<1>3. ASSUME NEW x \in S
      PROVE  /\ Cardinality(Lower(S, x)) \in 1..size
             /\ x \in top <=> Cardinality(Lower(S, x)) \in ranks
  <2>1. Cardinality(Lower(S, x)) \in 1..size
    BY Ranks
  <2>2. Cardinality({y \in S : y > x}) < n <=> Cardinality(Lower(S, x)) >= size - n + 1
    BY <1>1, <1>2, <2>1
  <2> QED
    BY <1>1, <2>1, <2>2
<1> HIDE DEF ranks
<1>4. top \subseteq S
  OBVIOUS
<1> HIDE DEF top
<1>5. rank \in Injection(top, ranks)
  <2>1. rank \in [top -> ranks]
    BY <1>3, <1>4
  <2>2. ASSUME NEW s \in top, NEW u \in top, rank[s] = rank[u] PROVE s = u
    <3>1. Cardinality(Lower(S, s)) = Cardinality(Lower(S, u))
      BY <2>2
    <3>2. s \in S /\ u \in S /\ Cardinality(Lower(S, s)) \in Int
      BY <1>1, <1>3, <1>4
    <3>3. ~(s < u) /\ ~(u < s)
      <4>1. \A v, w \in S : v < w => Cardinality(Lower(S, v)) < Cardinality(Lower(S, w))
        BY Ranks
      <4> QED
        BY <3>1, <3>2, <4>1
    <3> QED
      BY <3>2, <3>3
  <2> HIDE DEF rank
  <2> QED
    BY <2>1, <2>2 DEF Injection, IsInjective
<1>6. rank \in Surjection(top, ranks)
  <2>1. ASSUME NEW i \in ranks PROVE \E s \in top : rank[s] = i
    <3>1. i \in 1..size
      BY <1>1 DEF ranks
    <3>2. PICK s \in S : Cardinality(Lower(S, s)) = i
      BY <3>1, Ranks
    <3>3. s \in top
      BY <1>3, <3>2
    <3> QED
      BY <3>2, <3>3
  <2>2. rank \in [top -> ranks]
    BY <1>3, <1>4
  <2> HIDE DEF rank
  <2> QED
    BY <2>1, <2>2 DEF Surjection
<1>7. IsFiniteSet(ranks) /\ Cardinality(ranks) = n
  <2>1. size - n + 1 \in Int /\ size \in Int
    BY <1>1
  <2>2. /\ IsFiniteSet(ranks)
        /\ Cardinality(ranks) = IF size - n + 1 > size THEN 0 ELSE size - (size - n + 1) + 1
    BY <2>1, FS_Interval DEF ranks
  <2>3. (IF size - n + 1 > size THEN 0 ELSE size - (size - n + 1) + 1) = n
    BY <1>1
  <2> QED
    BY <2>2, <2>3
<1> HIDE DEF rank
<1>8. IsFiniteSet(top) /\ Cardinality(top) = Cardinality(ranks)
  BY <1>5, <1>6, <1>7, FS_Injection
<1> QED
  BY <1>7, <1>8 DEF top


-----------------------------------------------------------------------------
(* Folds of sequences *)

LEMMA MaxIs ==
  ASSUME NEW S, S \subseteq Int, NEW x \in S, \A y \in S : x >= y
  PROVE  Max(S) = x
<1>1. \A z \in S : (\A y \in S : z >= y) => z = x
  OBVIOUS
<1> QED
  BY <1>1 DEF Max

LEMMA MinIs ==
  ASSUME NEW S, S \subseteq Int, NEW x \in S, \A y \in S : x <= y
  PROVE  Min(S) = x
<1>1. \A z \in S : (\A y \in S : z <= y) => z = x
  OBVIOUS
<1> QED
  BY <1>1 DEF Min

LEMMA MaxOfPair ==
  ASSUME NEW x \in Int, NEW y \in Int
  PROVE  Max({x, y}) = IF x >= y THEN x ELSE y
BY DEF Max

LEMMA MinOfPair ==
  ASSUME NEW x \in Int, NEW y \in Int
  PROVE  Min({x, y}) = IF x <= y THEN x ELSE y
BY DEF Min

LEMMA MinWithin ==
  ASSUME NEW S, S \subseteq Int, IsFiniteSet(S), S # {}
  PROVE  Min(S) \in S /\ \A y \in S : Min(S) <= y
<1>1. \E x \in S : \A y \in S : x <= y
  BY LeastExists
<1> QED
  BY <1>1 DEF Min

LEMMA MaxWithin ==
  ASSUME NEW n \in Nat, NEW s \in SUBSET (1..n), s # {}
  PROVE  Max(s) \in s /\ \A y \in s : Max(s) >= y
<1>1. \E x \in s : \A y \in s : x >= y
  <2> DEFINE T == {n - x : x \in s}
  <2>0. \A x \in s : x \in Int /\ n - x \in 0..n
    OBVIOUS
  <2>1. T \subseteq 0..n /\ T \subseteq Int /\ T # {}
    <3>1. \A t \in T : t \in 0..n
      BY <2>0
    <3>2. \E x \in s : n - x \in T
      OBVIOUS
    <3> HIDE DEF T
    <3> QED
      BY <3>1, <3>2
  <2>2. T \in SUBSET (0..n)
    BY <2>1
  <2>3. IsFiniteSet(T)
    <3> HIDE DEF T
    <3>1. IsFiniteSet(0..n)
      BY FS_Interval
    <3> QED
      BY <2>2, <3>1, FS_Subset
  <2>4. PICK t \in T : \A u \in T : t <= u
    <3> HIDE DEF T
    <3> QED
      BY <2>1, <2>3, LeastExists
  <2>5. PICK x \in s : t = n - x
    OBVIOUS
  <2>6. \A y \in s : n - y \in T /\ n - x <= n - y
    BY <2>4, <2>5
  <2>7. \A y \in s : y \in Int /\ x \in Int
    BY <2>0
  <2> HIDE DEF T
  <2>8. \A y \in s : x >= y
    BY <2>6, <2>7
  <2> QED
    BY <2>8
<1> QED
  BY <1>1 DEF Max

\* The recursion by which FoldLeft is defined over n steps, step[i] being the
\* function that takes the value before i to the value after it.
FoldsLeft(h, base, step, n) ==
  h = [s \in SUBSET (1..n) |->
         IF s = {} THEN base ELSE step[Max(s)][h[s \ {Max(s)}]]]

\* It has a solution if the steps stay in a set,
LEMMA FoldsLeftExist ==
  ASSUME NEW A, NEW base \in A, NEW n \in Nat, NEW step,
         \A i \in 1..n : \A a \in A : step[i][a] \in A
  PROVE  \E h \in [SUBSET (1..n) -> A] : FoldsLeft(h, base, step, n)
<1> DEFINE Has(m) == \E h \in [SUBSET (1..m) -> A] : FoldsLeft(h, base, step, m)
           S == {m \in Nat : m <= n => Has(m)}
<1>1. 0 \in S
  <2> DEFINE h == [s \in SUBSET (1..0) |-> base]
  <2>1. \A s \in SUBSET (1..0) : s = {}
    OBVIOUS
  <2>2. h \in [SUBSET (1..0) -> A]
    OBVIOUS
  <2>3. h = [s \in SUBSET (1..0) |->
               IF s = {} THEN base ELSE step[Max(s)][h[s \ {Max(s)}]]]
    BY <2>1
  <2> HIDE DEF h
  <2> QED
    BY <2>2, <2>3 DEF FoldsLeft
<1>2. ASSUME NEW m \in Nat, m \in S PROVE m + 1 \in S
  <2> SUFFICES ASSUME m + 1 <= n PROVE Has(m + 1)
    <3> HIDE DEF Has
    <3> QED
      OBVIOUS
  <2>0. Has(m)
    <3> HIDE DEF Has
    <3> QED
      BY <1>2
  <2>1. PICK g \in [SUBSET (1..m) -> A] : FoldsLeft(g, base, step, m)
    BY <2>0
  <2> DEFINE T == SUBSET (1..m + 1)
             h == [s \in T |-> IF m + 1 \in s THEN step[m + 1][g[s \ {m + 1}]] ELSE g[s]]
  <2>2. \A s \in T : /\ s \ {m + 1} \in SUBSET (1..m)
                     /\ m + 1 \notin s => s \in SUBSET (1..m)
    OBVIOUS
  <2>3. m + 1 \in 1..n
    OBVIOUS
  <2>4. h \in [T -> A]
    <3>1. ASSUME NEW s \in T
          PROVE  (IF m + 1 \in s THEN step[m + 1][g[s \ {m + 1}]] ELSE g[s]) \in A
      BY <2>1, <2>2, <2>3
    <3> QED
      BY <3>1
  <2>5. ASSUME NEW s \in T
        PROVE  h[s] = IF s = {} THEN base ELSE step[Max(s)][h[s \ {Max(s)}]]
    <3>1. CASE m + 1 \in s
      <4>1. Max(s) = m + 1
        <5>1. s \subseteq Int /\ \A y \in s : m + 1 >= y
          OBVIOUS
        <5> QED
          BY <3>1, <5>1, MaxIs
      <4>2. h[s \ {m + 1}] = g[s \ {m + 1}]
        BY <2>2
      <4>3. h[s] = step[m + 1][g[s \ {m + 1}]]
        BY <3>1
      <4> HIDE DEF h, T
      <4> QED
        BY <3>1, <4>1, <4>2, <4>3
    <3>2. CASE m + 1 \notin s
      <4>1. s \in SUBSET (1..m) /\ s \ {Max(s)} \in SUBSET (1..m)
        BY <2>2, <3>2
      <4>2. g[s] = IF s = {} THEN base ELSE step[Max(s)][g[s \ {Max(s)}]]
        BY <2>1, <4>1 DEF FoldsLeft
      <4>3. s \ {Max(s)} \in T /\ m + 1 \notin s \ {Max(s)}
        BY <3>2
      <4>4. h[s] = g[s] /\ h[s \ {Max(s)}] = g[s \ {Max(s)}]
        BY <3>2, <4>3
      <4> HIDE DEF h, T
      <4> QED
        BY <4>2, <4>4
    <3> QED
      BY <3>1, <3>2
  <2>6. h = [s \in T |-> h[s]]
    OBVIOUS
  <2>7. h = [s \in T |-> IF s = {} THEN base ELSE step[Max(s)][h[s \ {Max(s)}]]]
    <3> HIDE DEF h
    <3> QED
      BY <2>5, <2>6
  <2>8. FoldsLeft(h, base, step, m + 1)
    <3> HIDE DEF h
    <3> QED
      BY <2>7 DEF FoldsLeft
  <2> HIDE DEF h
  <2> QED
    BY <2>4, <2>8
<1> HIDE DEF S
<1>3. \A m \in Nat : m \in S
  BY <1>1, <1>2, NatSetInduction
<1>4. n \in S
  BY <1>3
<1> HIDE DEF Has
<1>5. Has(n)
  BY <1>4 DEF S
<1> QED
  BY <1>5 DEF Has

\* and takes one step after the other.
LEMMA LastStep ==
  ASSUME NEW n \in Nat, NEW k \in 1..n
  PROVE  /\ 1..k \in SUBSET (1..n) /\ 1..k # {}
         /\ Max(1..k) = k /\ (1..k) \ {Max(1..k)} = 1..k - 1
<1>1. 1..k \in SUBSET (1..n) /\ 1..k # {} /\ k \in 1..k /\ 1..k \subseteq Int
  OBVIOUS
<1>2. \A y \in 1..k : k >= y
  OBVIOUS
<1>3. Max(1..k) = k
  BY <1>1, <1>2, MaxIs
<1>4. (1..k) \ {k} = 1..k - 1
  OBVIOUS
<1> QED
  BY <1>1, <1>3, <1>4

=============================================================================
