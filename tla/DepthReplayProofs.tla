------------------------- MODULE DepthReplayProofs -------------------------
(***************************************************************************)
(* Proofs about the replay of orders on a recorded archive: an order meets *)
(* the first book at or after its due time that the archive leads up to    *)
(* without a gap, and takes from it what a sweep of the depth may take.    *)
(***************************************************************************)
EXTENDS DepthReplay, SetFacts

-----------------------------------------------------------------------------
(* What the recorder leaves *)

Envelope ==
  [ordinal : Nat \ {0}, connection : Nat, at : Int, kind : Kind,
   shown : [buy : Levels, sell : Levels], gap : BOOLEAN, regressed : BOOLEAN]

\* An envelope and the one recorded after it.
Follows(r, q) ==
  /\ q.ordinal \in {r.ordinal + 1, r.ordinal + 2}
  /\ q.connection = r.connection \/ q.gap
  /\ q.at >= r.at \/ q.regressed

\* An archive whose envelopes follow each other.
Recorded(a) ==
  /\ a \in Seq(Envelope)
  /\ \A i \in 1..Len(a) : i > 1 => Follows(a[i - 1], a[i])

\* What ends a run at envelope i of an archive.
Marked(r) == r.gap \/ r.regressed
Bad(a, i) == Marked(a[i]) \/ a[i].ordinal # a[i - 1].ordinal + 1

LEMMA Kinds ==
  ASSUME NEW a, Recorded(a), NEW i \in 1..Len(a)
  PROVE  /\ a[i] \in Envelope /\ a[i].ordinal \in Nat \ {0} /\ a[i].connection \in Nat
         /\ a[i].at \in Int /\ a[i].gap \in BOOLEAN /\ a[i].regressed \in BOOLEAN
<1>1. a[i] \in Envelope
  BY DEF Recorded
<1> QED
  BY <1>1 DEF Envelope

\* Ordinals go up,
LEMMA Ascends ==
  ASSUME NEW a, Recorded(a), NEW i \in 1..Len(a), NEW j \in 1..Len(a), i < j
  PROVE  a[i].ordinal < a[j].ordinal
<1> DEFINE S == {n \in Nat : i + 1 + n \in 1..Len(a) => a[i].ordinal < a[i + 1 + n].ordinal}
<1>0. /\ Len(a) \in Nat /\ i \in Nat
      /\ \A n \in 1..Len(a) : a[n].ordinal \in Nat
      /\ \A n \in 1..Len(a) : n > 1 => a[n - 1].ordinal < a[n].ordinal
  <2>1. Len(a) \in Nat
    BY DEF Recorded
  <2>2. \A n \in 1..Len(a) : a[n].ordinal \in Nat
    BY Kinds
  <2>3. ASSUME NEW n \in 1..Len(a), n > 1 PROVE a[n - 1].ordinal < a[n].ordinal
    <3>1. n - 1 \in 1..Len(a)
      BY <2>1, <2>3
    <3>2. Follows(a[n - 1], a[n])
      BY <2>3 DEF Recorded
    <3>3. a[n].ordinal \in {a[n - 1].ordinal + 1, a[n - 1].ordinal + 2}
      BY <3>2 DEF Follows
    <3>4. a[n - 1].ordinal \in Nat
      BY <2>2, <3>1
    <3> QED
      BY <3>3, <3>4
  <2> QED
    BY <2>1, <2>2, <2>3
<1>1. 0 \in S
  BY <1>0
<1>2. ASSUME NEW n \in Nat, n \in S PROVE n + 1 \in S
  <2> SUFFICES ASSUME i + 1 + (n + 1) \in 1..Len(a)
               PROVE  a[i].ordinal < a[i + 1 + (n + 1)].ordinal
    OBVIOUS
  <2>1. i + 1 + n \in 1..Len(a) /\ (i + 1 + (n + 1)) - 1 = i + 1 + n /\ i + 1 + (n + 1) > 1
    BY <1>0
  <2>2. a[i].ordinal < a[i + 1 + n].ordinal
    BY <1>2, <2>1
  <2>3. a[i + 1 + n].ordinal < a[i + 1 + (n + 1)].ordinal
    BY <1>0, <2>1
  <2>4. a[i].ordinal \in Nat /\ a[i + 1 + n].ordinal \in Nat /\ a[i + 1 + (n + 1)].ordinal \in Nat
    BY <1>0, <2>1
  <2> QED
    BY <2>2, <2>3, <2>4
<1> HIDE DEF S
<1>3. \A n \in Nat : n \in S
  BY <1>1, <1>2, NatSetInduction
<1>4. j - (i + 1) \in Nat /\ i + 1 + (j - (i + 1)) = j
  BY <1>0
<1>5. j - (i + 1) \in S
  BY <1>3, <1>4
<1> QED
  BY <1>4, <1>5 DEF S

\* so that they tell the envelopes apart and order them.
LEMMA Apart ==
  ASSUME NEW a, Recorded(a), NEW i \in 1..Len(a), NEW j \in 1..Len(a)
  PROVE  /\ a[i].ordinal = a[j].ordinal <=> i = j
         /\ a[i].ordinal < a[j].ordinal <=> i < j
         /\ a[i].ordinal <= a[j].ordinal <=> i <= j
         /\ a[i] = a[j] <=> i = j
<1>1. a[i].ordinal \in Nat /\ a[j].ordinal \in Nat /\ i \in Int /\ j \in Int
  BY Kinds
<1>2. i < j => a[i].ordinal < a[j].ordinal
  BY Ascends
<1>3. j < i => a[j].ordinal < a[i].ordinal
  BY Ascends
<1>4. i = j => a[i].ordinal = a[j].ordinal /\ a[i] = a[j]
  OBVIOUS
<1>5. a[i] = a[j] => a[i].ordinal = a[j].ordinal
  OBVIOUS
<1>6. i < j \/ i = j \/ j < i
  BY <1>1
<1> QED
  BY <1>1, <1>2, <1>3, <1>4, <1>5, <1>6

\* Without an end in between, ordinals count the envelopes, the connection stays
\* and time does not go back.
LEMMA CleanStretch ==
  ASSUME NEW a, Recorded(a), NEW i \in 1..Len(a), NEW j \in i..Len(a),
         \A n \in i + 1..j : ~Bad(a, n)
  PROVE  /\ a[j].ordinal = a[i].ordinal + (j - i)
         /\ a[j].connection = a[i].connection
         /\ a[j].at >= a[i].at
<1> DEFINE Good(n) == /\ a[n].ordinal = a[i].ordinal + (n - i)
                      /\ a[n].connection = a[i].connection
                      /\ a[n].at >= a[i].at
           S == {n \in Nat : i + n <= j => Good(i + n)}
<1>0. Len(a) \in Nat /\ i \in Nat /\ j \in Nat /\ j <= Len(a) /\ i <= j /\ i >= 1
  BY DEF Recorded
<1>1. 0 \in S
  <2>1. i + 0 = i /\ a[i].ordinal \in Nat /\ a[i].at \in Int
    BY <1>0, Kinds
  <2> QED
    BY <2>1
<1>2. ASSUME NEW n \in Nat, n \in S PROVE n + 1 \in S
  <2> SUFFICES ASSUME i + (n + 1) <= j PROVE Good(i + (n + 1))
    OBVIOUS
  <2> DEFINE k == i + (n + 1)
  <2>1. k - 1 = i + n /\ k \in 1..Len(a) /\ k - 1 \in 1..Len(a) /\ k > 1
        /\ k \in i + 1..j /\ i + n <= j /\ k - i = (k - 1 - i) + 1 /\ k \in Nat
    BY <1>0
  <2> HIDE DEF k
  <2>2. Good(k - 1)
    BY <1>2, <2>1
  <2>3. Follows(a[k - 1], a[k]) /\ ~Bad(a, k)
    BY <2>1 DEF Recorded
  <2>4. /\ a[k].ordinal = a[k - 1].ordinal + 1 /\ ~a[k].gap /\ ~a[k].regressed
    BY <2>3 DEF Bad, Marked
  <2>5. a[k].connection = a[k - 1].connection /\ a[k].at >= a[k - 1].at
    BY <2>3, <2>4 DEF Follows
  <2>6. /\ a[i].ordinal \in Nat /\ a[k - 1].ordinal \in Nat /\ a[k].ordinal \in Nat
        /\ a[i].at \in Int /\ a[k - 1].at \in Int /\ a[k].at \in Int
    BY <2>1, Kinds
  <2>7. Good(k)
    <3>1. a[k].ordinal = a[i].ordinal + (k - i)
      <4>1. a[k - 1].ordinal = a[i].ordinal + (k - 1 - i)
        BY <2>2
      <4>2. k \in Int /\ i \in Int
        BY <1>0, <2>1
      <4> HIDE DEF Good
      <4> QED
        BY <2>4, <2>6, <4>1, <4>2
    <3>2. a[k].connection = a[i].connection /\ a[k].at >= a[i].at
      BY <2>2, <2>5, <2>6
    <3> QED
      BY <3>1, <3>2
  <2> QED
    BY <2>7 DEF k
<1> HIDE DEF S
<1>3. \A n \in Nat : n \in S
  BY <1>1, <1>2, NatSetInduction
<1>4. j - i \in Nat /\ i + (j - i) = j
  BY <1>0
<1>5. j - i \in S
  BY <1>3, <1>4
<1> QED
  BY <1>0, <1>4, <1>5 DEF S


-----------------------------------------------------------------------------
(* The order in which the loader takes the records *)

\* The first k envelopes of an archive are k.
LEMMA FirstAre ==
  ASSUME NEW a, Recorded(a), NEW k \in 0..Len(a)
  PROVE  Cardinality({a[j] : j \in 1..k}) = k
<1> DEFINE T == {a[j] : j \in 1..k}
           f == [j \in 1..k |-> a[j]]
<1>1. Len(a) \in Nat /\ k \in Nat /\ k <= Len(a)
  BY DEF Recorded
<1>2. \A x, y \in 1..k : a[x] = a[y] => x = y
  <2> SUFFICES ASSUME NEW x \in 1..k, NEW y \in 1..k PROVE a[x] = a[y] => x = y
    OBVIOUS
  <2>1. x \in 1..Len(a) /\ y \in 1..Len(a)
    BY <1>1
  <2> QED
    BY <2>1, Apart
<1>3. f \in Bijection(1..k, T)
  <2>1. f \in [1..k -> T]
    OBVIOUS
  <2>2. IsInjective(f)
    BY <1>2 DEF IsInjective
  <2>3. \A t \in T : \E j \in 1..k : f[j] = t
    OBVIOUS
  <2> QED
    BY <2>1, <2>2, <2>3 DEF Bijection, Injection, Surjection
<1>4. IsFiniteSet(1..k) /\ Cardinality(1..k) = k
  <2>1. IsFiniteSet(1..k) /\ Cardinality(1..k) = IF 1 > k THEN 0 ELSE k - 1 + 1
    BY <1>1, FS_Interval
  <2> QED
    BY <1>1, <2>1
<1> HIDE DEF T, f
<1>5. ExistsBijection(1..k, T)
  BY <1>3 DEF ExistsBijection
<1>6. Cardinality(T) = k
  BY <1>4, <1>5, FS_Bijection
<1> QED
  BY <1>6 DEF T

\* Whatever the order of a file and however often it repeats its records, they
\* are taken in the order in which they were recorded.
LEMMA TakenInOrder ==
  ASSUME NEW a, Recorded(a), NEW file, Range(file) = Range(a)
  PROVE  InOrdinalOrder(file) = a
<1> DEFINE u == Range(file)
           Upto(r) == {q \in u : q.ordinal <= r.ordinal}
<1>1. Len(a) \in Nat /\ a \in Seq(Envelope)
  BY DEF Recorded
<1>2. u = {a[j] : j \in 1..Len(a)}
  <2>1. Range(a) = {a[j] : j \in 1..Len(a)}
    BY <1>1 DEF Range
  <2> QED
    BY <2>1
<1>3. Cardinality(u) = Len(a)
  <2>1. Len(a) \in 0..Len(a)
    BY <1>1
  <2> QED
    BY <1>2, <2>1, FirstAre
<1> HIDE DEF u
<1>4. ASSUME NEW i \in 1..Len(a) PROVE Cardinality(Upto(a[i])) = i
  <2>1. Upto(a[i]) = {a[j] : j \in 1..i}
    <3>1. \A j \in 1..Len(a) : a[j].ordinal <= a[i].ordinal <=> j <= i
      BY Apart
    <3>2. ASSUME NEW q \in Upto(a[i]) PROVE q \in {a[j] : j \in 1..i}
      <4>1. PICK j \in 1..Len(a) : q = a[j]
        BY <1>2
      <4>2. j \in 1..i
        BY <1>1, <3>1, <4>1
      <4> QED
        BY <4>1, <4>2
    <3>3. ASSUME NEW j \in 1..i PROVE a[j] \in Upto(a[i])
      <4>1. j \in 1..Len(a) /\ j <= i
        BY <1>1
      <4> QED
        BY <1>2, <3>1, <4>1
    <3> QED
      BY <3>2, <3>3
  <2>2. i \in 0..Len(a)
    BY <1>1
  <2> QED
    BY <2>1, <2>2, FirstAre
<1>5. ASSUME NEW i \in 1..Len(a)
      PROVE  (CHOOSE r \in u : Cardinality(Upto(r)) = i) = a[i]
  <2>1. a[i] \in u /\ Cardinality(Upto(a[i])) = i
    BY <1>2, <1>4
  <2>2. ASSUME NEW r \in u, Cardinality(Upto(r)) = i PROVE r = a[i]
    <3>1. PICK j \in 1..Len(a) : r = a[j]
      BY <1>2
    <3>2. Cardinality(Upto(a[j])) = j
      BY <1>4
    <3> QED
      BY <2>2, <3>1, <3>2
  <2> HIDE DEF Upto
  <2> QED
    BY <2>1, <2>2
<1>6. InOrdinalOrder(file) = [i \in 1..Cardinality(u) |-> CHOOSE r \in u : Cardinality(Upto(r)) = i]
  BY DEF InOrdinalOrder, u
<1> HIDE DEF Upto
<1>7. InOrdinalOrder(file) = [i \in 1..Len(a) |-> a[i]]
  BY <1>3, <1>5, <1>6
<1> QED
  BY <1>1, <1>7

LEMMA FilesRange ==
  ASSUME NEW a, Recorded(a), NEW file \in {a, Reverse(a) \o a}
  PROVE  Range(file) = Range(a)
<1>1. a \in Seq(Envelope) /\ Len(a) \in Nat
  BY DEF Recorded
<1> DEFINE r == Reverse(a)
           b == r \o a
<1>2. r \in Seq(Envelope) /\ Len(r) = Len(a) /\ \A i \in 1..Len(a) : r[i] = a[Len(a) - i + 1]
  <2>1. r = [i \in 1..Len(a) |-> a[Len(a) - i + 1]]
    BY DEF Reverse
  <2>2. \A i \in 1..Len(a) : Len(a) - i + 1 \in 1..Len(a)
    BY <1>1
  <2>3. \A i \in 1..Len(a) : a[Len(a) - i + 1] \in Envelope
    BY <1>1, <2>2
  <2> HIDE DEF r
  <2> QED
    BY <1>1, <2>1, <2>3
<1>3. Range(b) = Range(a)
  <2> HIDE DEF r
  <2>1. /\ b \in Seq(Envelope) /\ Len(b) = Len(a) + Len(a)
        /\ \A i \in 1..Len(b) : b[i] = IF i <= Len(a) THEN r[i] ELSE a[i - Len(a)]
    BY <1>1, <1>2
  <2> HIDE DEF b
  <2>2. ASSUME NEW i \in 1..Len(b) PROVE \E j \in 1..Len(a) : b[i] = a[j]
    <3>1. CASE i <= Len(a)
      <4>1. i \in 1..Len(a) /\ Len(a) - i + 1 \in 1..Len(a)
        BY <1>1, <2>1, <3>1
      <4>2. b[i] = a[Len(a) - i + 1]
        BY <1>2, <2>1, <3>1, <4>1
      <4> QED
        BY <4>1, <4>2
    <3>2. CASE i > Len(a)
      <4>1. i - Len(a) \in 1..Len(a) /\ ~(i <= Len(a))
        BY <1>1, <2>1, <3>2
      <4>2. b[i] = a[i - Len(a)]
        BY <2>1, <4>1
      <4> QED
        BY <4>1, <4>2
    <3> QED
      BY <1>1, <2>1, <3>1, <3>2
  <2>3. ASSUME NEW j \in 1..Len(a) PROVE \E i \in 1..Len(b) : b[i] = a[j]
    <3>1. Len(a) + j \in 1..Len(b) /\ ~(Len(a) + j <= Len(a)) /\ (Len(a) + j) - Len(a) = j
      BY <1>1, <2>1
    <3>2. b[Len(a) + j] = a[j]
      BY <2>1, <3>1
    <3> QED
      BY <3>1, <3>2
  <2>4. DOMAIN a = 1..Len(a) /\ DOMAIN b = 1..Len(b)
    BY <1>1, <2>1
  <2>5. /\ Range(a) = {a[j] : j \in 1..Len(a)}
        /\ Range(b) = {b[i] : i \in 1..Len(b)}
    BY <2>4 DEF Range
  <2>6. \A x : x \in Range(a) <=> x \in Range(b)
    BY <2>2, <2>3, <2>5
  <2> QED
    BY <2>6
<1> QED
  BY <1>3


-----------------------------------------------------------------------------
(* What the loader keeps *)

Kept == [books : Seq(Envelope), gap : BOOLEAN, regressed : BOOLEAN, prior : Nat]

LEMMA LoadType ==
  ASSUME NEW acc \in Kept, NEW r \in Envelope
  PROVE  LoadRecord(acc, r) \in Kept
<1> DEFINE gap == acc.gap \/ r.gap \/ (acc.prior # 0 /\ r.ordinal # acc.prior + 1)
           regressed == acc.regressed \/ r.regressed
           book == [r EXCEPT !.gap = gap, !.regressed = regressed]
<1>1. gap \in BOOLEAN /\ regressed \in BOOLEAN
  OBVIOUS
<1>2. book \in Envelope
  <2> HIDE DEF gap, regressed
  <2> QED
    BY <1>1 DEF Envelope
<1>3. r.ordinal \in Nat /\ acc.books \in Seq(Envelope) /\ Nothing \in Kept
  BY DEF Envelope, Kept, Nothing
<1> HIDE DEF gap, regressed, book
<1>4. LoadRecord(acc, r) =
        IF r.kind = "orderbook"
        THEN [books |-> Append(acc.books, book), gap |-> FALSE, regressed |-> FALSE,
              prior |-> r.ordinal]
        ELSE [books |-> acc.books, gap |-> gap, regressed |-> regressed, prior |-> r.ordinal]
  BY DEF LoadRecord, gap, regressed, book
<1>5. Append(acc.books, book) \in Seq(Envelope)
  BY <1>2, <1>3
<1> QED
  BY <1>1, <1>3, <1>4, <1>5 DEF Kept

\* The loader takes one record after the other.
LEMMA LoadSteps ==
  ASSUME NEW a, Recorded(a)
  PROVE  \E L : /\ L[0] = Nothing
                /\ \A k \in 1..Len(a) : L[k] = LoadRecord(L[k - 1], a[k])
                /\ FoldLeft(LoadRecord, Nothing, a) = L[Len(a)]
<1> DEFINE n == Len(a)
           step == [i \in 1..n |-> [acc \in Kept |-> LoadRecord(acc, a[i])]]
           Body(g) == [s \in SUBSET DOMAIN a |->
                        IF s = {} THEN Nothing
                        ELSE LET x == Max(s) IN LoadRecord(g[s \ {x}], a[x])]
           iter == CHOOSE g : g = Body(g)
           L == [k \in 0..n |-> iter[1..k]]
<1>1. n \in Nat /\ DOMAIN a = 1..n /\ \A i \in 1..n : a[i] \in Envelope
  BY DEF Recorded
<1>2. FoldLeft(LoadRecord, Nothing, a) = iter[DOMAIN a]
  BY DEF FoldLeft, MapThenFoldSet
<1> HIDE DEF n
<1>3. Nothing \in Kept
  BY DEF Nothing, Kept
<1>4. ASSUME NEW i \in 1..n, NEW acc \in Kept
      PROVE  step[i][acc] = LoadRecord(acc, a[i]) /\ step[i][acc] \in Kept
  BY <1>1, LoadType
<1>5. PICK h \in [SUBSET (1..n) -> Kept] : FoldsLeft(h, Nothing, step, n)
  <2> HIDE DEF step
  <2> QED
    BY <1>1, <1>3, <1>4, FoldsLeftExist
<1>6. h = Body(h)
  <2>1. ASSUME NEW s \in SUBSET (1..n), s # {}
        PROVE  step[Max(s)][h[s \ {Max(s)}]] = LoadRecord(h[s \ {Max(s)}], a[Max(s)])
    <3>1. Max(s) \in 1..n
      BY <1>1, <2>1, MaxWithin
    <3>2. h[s \ {Max(s)}] \in Kept
      OBVIOUS
    <3> HIDE DEF step
    <3> QED
      BY <1>4, <3>1, <3>2
  <2>2. h = [s \in SUBSET (1..n) |->
               IF s = {} THEN Nothing ELSE step[Max(s)][h[s \ {Max(s)}]]]
    BY <1>5 DEF FoldsLeft
  <2> HIDE DEF step
  <2>3. h = [s \in SUBSET (1..n) |->
               IF s = {} THEN Nothing ELSE LoadRecord(h[s \ {Max(s)}], a[Max(s)])]
    BY <2>1, <2>2
  <2> QED
    BY <1>1, <2>3
<1> HIDE DEF Body
<1>7. iter = Body(iter)
  BY <1>6
<1> HIDE DEF iter
<1>8. iter[1..0] = Nothing
  <2>1. 1..0 = {} /\ {} \in SUBSET DOMAIN a
    OBVIOUS
  <2> QED
    BY <1>7, <2>1 DEF Body
<1>9. ASSUME NEW k \in 1..n PROVE iter[1..k] = LoadRecord(iter[1..k - 1], a[k])
  <2>1. /\ 1..k \in SUBSET DOMAIN a /\ 1..k # {}
        /\ Max(1..k) = k /\ (1..k) \ {Max(1..k)} = 1..k - 1
    BY <1>1, LastStep
  <2>2. iter[1..k] = LoadRecord(iter[(1..k) \ {Max(1..k)}], a[Max(1..k)])
    BY <1>7, <2>1 DEF Body
  <2> QED
    BY <2>1, <2>2
<1>10. L[0] = Nothing /\ L[n] = iter[DOMAIN a]
  BY <1>1, <1>8
<1>11. ASSUME NEW k \in 1..n PROVE L[k] = LoadRecord(L[k - 1], a[k])
  <2>1. k \in 0..n /\ k - 1 \in 0..n
    BY <1>1
  <2> QED
    BY <1>9, <2>1
<1> HIDE DEF L
<1> QED
  BY <1>2, <1>10, <1>11 DEF n


\* A book is a record of the archive, marked by what ends a run on the way to it.
Copies(b, r) ==
  /\ b.ordinal = r.ordinal /\ b.connection = r.connection /\ b.at = r.at
  /\ b.shown = r.shown /\ b.kind = r.kind /\ r.kind = "orderbook"

\* A run ends after envelope i and no later than at j.
BadWithin(a, i, j) == \E n \in i + 1..j : Bad(a, n)

\* p gives the places of the books among the first k envelopes.
Holds(p, books, a, k) ==
  /\ p \in Seq(Nat) /\ books \in Seq(Envelope) /\ Len(p) = Len(books)
  /\ \A j \in 1..Len(p) : p[j] \in 1..k /\ Copies(books[j], a[p[j]])
  /\ \A j \in 1..Len(p) : j > 1 =>
       p[j - 1] < p[j] /\ (Marked(books[j]) <=> BadWithin(a, p[j - 1], p[j]))
  /\ \A i \in 1..k : a[i].kind = "orderbook" => \E j \in 1..Len(p) : p[j] = i

\* After k envelopes the loader holds the marks that wait for the next book.
Pends(p, acc, a, k) ==
  /\ Len(p) > 0 => (Marked(acc) <=> BadWithin(a, p[Len(p)], k))
  /\ acc.prior = IF k = 0 THEN 0 ELSE a[k].ordinal

LEMMA WithinGrows ==
  ASSUME NEW a, NEW i \in Nat, NEW k \in Nat, i < k
  PROVE  BadWithin(a, i, k) <=> BadWithin(a, i, k - 1) \/ Bad(a, k)
<1>1. i + 1..k = (i + 1..k - 1) \cup {k}
  OBVIOUS
<1> QED
  BY <1>1 DEF BadWithin

LEMMA HoldsBook ==
  ASSUME NEW a, NEW k \in Nat \ {0}, NEW p, NEW books, Holds(p, books, a, k - 1),
         NEW b \in Envelope, Copies(b, a[k]),
         Len(p) > 0 => (Marked(b) <=> BadWithin(a, p[Len(p)], k))
  PROVE  Holds(Append(p, k), Append(books, b), a, k)
<1> DEFINE q == Append(p, k)
           c == Append(books, b)
           n == Len(p)
<1>1. /\ p \in Seq(Nat) /\ books \in Seq(Envelope) /\ n = Len(books) /\ n \in Nat
      /\ \A j \in 1..n : p[j] \in 1..k - 1 /\ Copies(books[j], a[p[j]])
      /\ \A j \in 1..n : j > 1 =>
           p[j - 1] < p[j] /\ (Marked(books[j]) <=> BadWithin(a, p[j - 1], p[j]))
      /\ \A i \in 1..k - 1 : a[i].kind = "orderbook" => \E j \in 1..n : p[j] = i
  BY DEF Holds
<1>2. /\ q \in Seq(Nat) /\ c \in Seq(Envelope) /\ Len(q) = n + 1 /\ Len(c) = n + 1
      /\ q[n + 1] = k /\ c[n + 1] = b
      /\ \A j \in 1..n : q[j] = p[j] /\ c[j] = books[j]
  BY <1>1
<1>0. n > 0 => (Marked(b) <=> BadWithin(a, p[n], k))
  OBVIOUS
<1> HIDE DEF q, c, n
<1>3. ASSUME NEW j \in 1..n + 1 PROVE q[j] \in 1..k /\ Copies(c[j], a[q[j]])
  <2>1. CASE j = n + 1
    BY <1>2, <2>1
  <2>2. CASE j \in 1..n
    <3>1. p[j] \in 1..k - 1 /\ Copies(books[j], a[p[j]]) /\ q[j] = p[j] /\ c[j] = books[j]
      BY <1>1, <1>2, <2>2
    <3>2. q[j] \in 1..k
      BY <3>1
    <3> QED
      BY <3>1, <3>2
  <2> QED
    BY <1>1, <2>1, <2>2
<1>4. ASSUME NEW j \in 1..n + 1, j > 1
      PROVE  q[j - 1] < q[j] /\ (Marked(c[j]) <=> BadWithin(a, q[j - 1], q[j]))
  <2>0. j - 1 \in 1..n /\ q[j - 1] = p[j - 1] /\ p[j - 1] \in 1..k - 1
    <3>1. j - 1 \in 1..n
      BY <1>1, <1>4
    <3> QED
      BY <1>1, <1>2, <3>1
  <2>1. CASE j = n + 1
    <3>1. j - 1 = n /\ n > 0 /\ c[j] = b /\ q[j] = k
      BY <1>1, <1>2, <2>0, <2>1
    <3>2. p[j - 1] < k
      BY <2>0
    <3>3. Marked(b) <=> BadWithin(a, p[n], k)
      BY <1>0, <3>1
    <3> QED
      BY <2>0, <3>1, <3>2, <3>3
  <2>2. CASE j \in 1..n
    <3>1. q[j] = p[j] /\ c[j] = books[j]
      BY <1>2, <2>2
    <3>2. p[j - 1] < p[j] /\ (Marked(books[j]) <=> BadWithin(a, p[j - 1], p[j]))
      BY <1>1, <1>4, <2>2
    <3> QED
      BY <2>0, <3>1, <3>2
  <2> QED
    BY <1>1, <2>1, <2>2
<1>5. ASSUME NEW i \in 1..k, a[i].kind = "orderbook" PROVE \E j \in 1..n + 1 : q[j] = i
  <2>1. CASE i = k
    <3>1. n + 1 \in 1..n + 1
      BY <1>1
    <3> QED
      BY <1>2, <2>1, <3>1
  <2>2. CASE i # k
    <3>1. i \in 1..k - 1
      BY <2>2
    <3>2. PICK j \in 1..n : p[j] = i
      BY <1>1, <1>5, <3>1
    <3>3. j \in 1..n + 1 /\ q[j] = i
      BY <1>1, <1>2, <3>2
    <3> QED
      BY <3>3
  <2> QED
    BY <2>1, <2>2
<1>6. Holds(q, c, a, k)
  BY <1>2, <1>3, <1>4, <1>5 DEF Holds
<1> QED
  BY <1>6 DEF q, c

LEMMA HoldsOther ==
  ASSUME NEW a, NEW k \in Nat \ {0}, NEW p, NEW books, Holds(p, books, a, k - 1),
         a[k].kind # "orderbook"
  PROVE  Holds(p, books, a, k)
<1>1. \A j \in 1..k - 1 : j \in 1..k
  OBVIOUS
<1>2. \A i \in 1..k : i # k => i \in 1..k - 1
  OBVIOUS
<1>3. \A j \in 1..Len(p) : p[j] \in 1..k /\ Copies(books[j], a[p[j]])
  BY <1>1 DEF Holds
<1>4. \A i \in 1..k : a[i].kind = "orderbook" => \E j \in 1..Len(p) : p[j] = i
  BY <1>2 DEF Holds
<1> QED
  BY <1>3, <1>4 DEF Holds

LEMMA LoadKeeps ==
  ASSUME NEW a, Recorded(a), NEW k \in 1..Len(a), NEW acc \in Kept,
         NEW p, Holds(p, acc.books, a, k - 1), Pends(p, acc, a, k - 1),
         NEW after, after = LoadRecord(acc, a[k])
  PROVE  \E q : Holds(q, after.books, a, k) /\ Pends(q, after, a, k)
<1> DEFINE r == a[k]
           gap == acc.gap \/ r.gap \/ (acc.prior # 0 /\ r.ordinal # acc.prior + 1)
           regressed == acc.regressed \/ r.regressed
           book == [r EXCEPT !.gap = gap, !.regressed = regressed]
<1>1. /\ r \in Envelope /\ k \in Nat \ {0} /\ Len(a) \in Nat
  BY Kinds DEF Recorded
<1>2. /\ book \in Envelope /\ book.gap = gap /\ book.regressed = regressed
      /\ book.ordinal = r.ordinal /\ book.connection = r.connection /\ book.at = r.at
      /\ book.shown = r.shown /\ book.kind = r.kind
  <2>1. gap \in BOOLEAN /\ regressed \in BOOLEAN
    OBVIOUS
  <2> HIDE DEF gap, regressed
  <2> QED
    BY <1>1, <2>1 DEF Envelope
<1>3. after = IF r.kind = "orderbook"
              THEN [books |-> Append(acc.books, book), gap |-> FALSE, regressed |-> FALSE,
                    prior |-> r.ordinal]
              ELSE [books |-> acc.books, gap |-> gap, regressed |-> regressed,
                    prior |-> r.ordinal]
  BY DEF LoadRecord
<1>4. Len(p) > 0 => (gap \/ regressed <=> BadWithin(a, p[Len(p)], k))
  <2> SUFFICES ASSUME Len(p) > 0 PROVE gap \/ regressed <=> BadWithin(a, p[Len(p)], k)
    OBVIOUS
  <2>1. Len(p) \in 1..Len(p)
    BY DEF Holds
  <2>2. p[Len(p)] \in 1..k - 1
    BY <2>1 DEF Holds
  <2>3. p[Len(p)] \in Nat /\ p[Len(p)] < k /\ k - 1 # 0 /\ k - 1 \in 1..Len(a)
    BY <1>1, <2>2
  <2>4. acc.prior = a[k - 1].ordinal /\ acc.prior # 0
    BY <2>3, Kinds DEF Pends
  <2>5. gap \/ regressed <=> Marked(acc) \/ Bad(a, k)
    BY <2>4 DEF Marked, Bad
  <2> HIDE DEF gap, regressed
  <2>6. Marked(acc) <=> BadWithin(a, p[Len(p)], k - 1)
    BY DEF Pends
  <2>7. k \in Nat
    BY <1>1
  <2> QED
    BY <2>3, <2>5, <2>6, <2>7, WithinGrows
<1>5. Marked(book) <=> gap \/ regressed
  BY <1>2 DEF Marked
<1> HIDE DEF gap, regressed, book
<1>6. CASE r.kind = "orderbook"
  <2>1. after.books = Append(acc.books, book) /\ ~Marked(after) /\ after.prior = a[k].ordinal
    BY <1>3, <1>6 DEF Marked
  <2>2. Copies(book, a[k])
    BY <1>2, <1>6 DEF Copies
  <2>3. Holds(Append(p, k), Append(acc.books, book), a, k)
    BY <1>1, <1>2, <1>4, <1>5, <2>2, HoldsBook
  <2>4. Pends(Append(p, k), after, a, k)
    <3>1. p \in Seq(Nat) /\ k # 0
      BY <1>1 DEF Holds
    <3>2. Append(p, k)[Len(Append(p, k))] = k
      BY <1>1, <3>1
    <3>3. ~BadWithin(a, k, k)
      BY <1>1 DEF BadWithin
    <3> QED
      BY <2>1, <3>1, <3>2, <3>3 DEF Pends
  <2> QED
    BY <2>1, <2>3, <2>4
<1>7. CASE r.kind # "orderbook"
  <2>1. /\ after.books = acc.books /\ after.prior = a[k].ordinal
        /\ Marked(after) <=> gap \/ regressed
    BY <1>3, <1>7 DEF Marked
  <2>2. Holds(p, acc.books, a, k)
    BY <1>1, <1>7, HoldsOther
  <2>3. Pends(p, after, a, k)
    BY <1>1, <1>4, <2>1 DEF Pends
  <2> QED
    BY <2>1, <2>2, <2>3
<1> QED
  BY <1>6, <1>7


\* The books of an archive.
LEMMA BooksHold ==
  ASSUME NEW a, Recorded(a)
  PROVE  \E p : Holds(p, FoldLeft(LoadRecord, Nothing, a).books, a, Len(a))
<1>1. PICK L : /\ L[0] = Nothing
               /\ \A k \in 1..Len(a) : L[k] = LoadRecord(L[k - 1], a[k])
               /\ FoldLeft(LoadRecord, Nothing, a) = L[Len(a)]
  BY LoadSteps
<1>2. Len(a) \in Nat
  BY DEF Recorded
<1> DEFINE Fine(k) == /\ L[k] \in Kept
                      /\ \E p : Holds(p, L[k].books, a, k) /\ Pends(p, L[k], a, k)
           S == {k \in Nat : k <= Len(a) => Fine(k)}
<1>3. 0 \in S
  <2>1. Nothing \in Kept /\ Nothing.books = <<>> /\ Nothing.prior = 0
    BY DEF Nothing, Kept
  <2>2. Holds(<<>>, <<>>, a, 0)
    BY DEF Holds
  <2>3. Pends(<<>>, Nothing, a, 0)
    BY <2>1 DEF Pends
  <2>4. Fine(0)
    BY <1>1, <2>1, <2>2, <2>3
  <2> QED
    BY <2>4
<1>4. ASSUME NEW k \in Nat, k \in S PROVE k + 1 \in S
  <2> SUFFICES ASSUME k + 1 <= Len(a) PROVE Fine(k + 1)
    <3> HIDE DEF Fine
    <3> QED
      OBVIOUS
  <2>1. Fine(k)
    <3> HIDE DEF Fine
    <3> QED
      BY <1>2, <1>4
  <2>2. PICK p : Holds(p, L[k].books, a, k) /\ Pends(p, L[k], a, k)
    BY <2>1
  <2>3. k + 1 \in 1..Len(a) /\ (k + 1) - 1 = k
    BY <1>2
  <2>4. L[k + 1] = LoadRecord(L[k], a[k + 1])
    BY <1>1, <2>3
  <2>5. \E q : Holds(q, L[k + 1].books, a, k + 1) /\ Pends(q, L[k + 1], a, k + 1)
    BY <2>1, <2>2, <2>3, <2>4, LoadKeeps
  <2>6. L[k + 1] \in Kept
    BY <2>1, <2>3, <2>4, LoadType, Kinds
  <2> QED
    BY <2>5, <2>6
<1> HIDE DEF S
<1>5. \A k \in Nat : k \in S
  BY <1>3, <1>4, NatSetInduction
<1>6. Fine(Len(a))
  <2> HIDE DEF Fine
  <2> QED
    BY <1>2, <1>5 DEF S
<1> QED
  BY <1>1, <1>6


-----------------------------------------------------------------------------
(* Runs of books, and the book an order meets *)

LEMMA LapseSize == LongestLapse \in Nat
BY DepthAssumption

\* The books of the first envelopes are books of the archive.
LEMMA HoldsLonger ==
  ASSUME NEW a, Recorded(a), NEW m \in 1..Len(a), NEW b, b = SubSeq(a, 1, m),
         NEW p, NEW books, Holds(p, books, b, m)
  PROVE  Holds(p, books, a, m)
<1>1. Len(a) \in Nat /\ m \in Nat /\ a \in Seq(Envelope) /\ \A i \in 1..m : b[i] = a[i]
  BY DEF Recorded
<1>2. ASSUME NEW i \in 1..m, NEW j \in 1..m PROVE BadWithin(b, i, j) <=> BadWithin(a, i, j)
  <2>1. \A n \in i + 1..j : n \in 1..m /\ n - 1 \in 1..m
    BY <1>1
  <2>2. \A n \in i + 1..j : b[n] = a[n] /\ b[n - 1] = a[n - 1]
    BY <1>1, <2>1
  <2>3. \A n \in i + 1..j : Bad(b, n) <=> Bad(a, n)
    BY <2>2 DEF Bad
  <2> QED
    BY <2>3 DEF BadWithin
<1>3. \A j \in 1..Len(p) : p[j] \in 1..m /\ Copies(books[j], a[p[j]])
  BY <1>1 DEF Holds
<1>4. ASSUME NEW j \in 1..Len(p), j > 1
      PROVE  p[j - 1] < p[j] /\ (Marked(books[j]) <=> BadWithin(a, p[j - 1], p[j]))
  <2>1. j - 1 \in 1..Len(p)
    BY <1>4 DEF Holds
  <2>2. p[j - 1] \in 1..m /\ p[j] \in 1..m
    BY <1>3, <2>1
  <2>3. p[j - 1] < p[j] /\ (Marked(books[j]) <=> BadWithin(b, p[j - 1], p[j]))
    BY <1>4 DEF Holds
  <2> QED
    BY <1>2, <2>2, <2>3
<1>5. \A i \in 1..m : a[i].kind = "orderbook" => \E j \in 1..Len(p) : p[j] = i
  BY <1>1 DEF Holds
<1> QED
  BY <1>3, <1>4, <1>5 DEF Holds

\* A run ends between two books where the archive does not lead from the one to
\* the other, or where they lie too far apart.
LEMMA BreaksAre ==
  ASSUME NEW a, Recorded(a), NEW m \in 1..Len(a), NEW p, NEW books, Holds(p, books, a, m),
         NEW j \in 2..Len(books)
  PROVE  Breaks(books[j - 1], books[j]) <=>
           \/ BadWithin(a, p[j - 1], p[j])
           \/ books[j].at - books[j - 1].at > LongestLapse
<1> DEFINE x == p[j - 1]
           y == p[j]
<1>1. /\ j \in 1..Len(p) /\ j - 1 \in 1..Len(p) /\ j > 1 /\ Len(a) \in Nat
  BY DEF Holds, Recorded
<1>2. /\ x \in 1..m /\ y \in 1..m /\ x < y
      /\ Copies(books[j - 1], a[x]) /\ Copies(books[j], a[y])
      /\ Marked(books[j]) <=> BadWithin(a, x, y)
  BY <1>1 DEF Holds
<1> HIDE DEF x, y
<1>3. x \in 1..Len(a) /\ y \in 1..Len(a) /\ y \in x..Len(a)
  BY <1>1, <1>2
<1>4. ~BadWithin(a, x, y) => a[y].connection = a[x].connection /\ a[y].at >= a[x].at
  BY <1>3, CleanStretch DEF BadWithin
<1>5. /\ books[j - 1].connection = a[x].connection /\ books[j - 1].at = a[x].at
      /\ books[j].connection = a[y].connection /\ books[j].at = a[y].at
  BY <1>2 DEF Copies
<1>6. a[x].at \in Int /\ a[y].at \in Int
  BY <1>3, Kinds
<1>7. ~BadWithin(a, x, y) => books[j].connection = books[j - 1].connection
                             /\ ~(books[j].at < books[j - 1].at)
  BY <1>4, <1>5, <1>6
<1>8. books[j].regressed \/ books[j].gap <=> BadWithin(a, x, y)
  BY <1>2 DEF Marked
<1> QED
  BY <1>7, <1>8 DEF Breaks, x, y

LEMMA RunBounds ==
  ASSUME NEW books \in Seq(Envelope), NEW i \in 1..Len(books),
         NEW s, s = RunStart(books, i), NEW e, e = RunEnd(books, i)
  PROVE  /\ s \in 1..i /\ e \in i + 1..Len(books) + 1
         /\ \A j \in s + 1..e - 1 : ~Breaks(books[j - 1], books[j])
         /\ e <= Len(books) => Breaks(books[e - 1], books[e])
<1> DEFINE n == Len(books)
           B(j) == Breaks(books[j - 1], books[j])
           back == {j \in 2..i : B(j)} \cup {1}
           ahead == {j \in i + 1..n : B(j)} \cup {n + 1}
<1>1. n \in Nat /\ i \in Nat /\ 1 <= i /\ i <= n
  OBVIOUS
<1>2. s = Max(back) /\ e = Min(ahead)
  BY DEF RunStart, RunEnd
<1> HIDE DEF n
<1>3. s \in back /\ \A j \in back : s >= j
  <2>1. back \in SUBSET (1..i) /\ back # {}
    BY <1>1
  <2> HIDE DEF back
  <2> QED
    BY <1>1, <1>2, <2>1, MaxWithin
<1>4. e \in ahead /\ \A j \in ahead : e <= j
  <2>1. ahead \in SUBSET (i + 1..n + 1) /\ ahead # {}
    BY <1>1
  <2>2. IsFiniteSet(i + 1..n + 1) /\ i + 1..n + 1 \subseteq Int
    BY <1>1, FS_Interval
  <2> HIDE DEF ahead, back, B
  <2>3. IsFiniteSet(ahead) /\ ahead \subseteq Int
    BY <2>1, <2>2, FS_Subset
  <2>4. Min(ahead) \in ahead /\ \A j \in ahead : Min(ahead) <= j
    BY <2>1, <2>3, MinWithin
  <2> QED
    BY <1>2, <2>4
<1>5. s \in 1..i /\ e \in i + 1..n + 1
  BY <1>1, <1>3, <1>4
<1>6. ASSUME NEW j \in s + 1..e - 1 PROVE ~B(j)
  <2>1. j \notin back /\ j \notin ahead
    BY <1>1, <1>3, <1>4, <1>5
  <2>2. j \in 2..i \/ j \in i + 1..n
    BY <1>1, <1>5
  <2> HIDE DEF B
  <2> QED
    BY <2>1, <2>2
<1>7. e <= n => B(e)
  <2> HIDE DEF B
  <2> QED
    BY <1>1, <1>4, <1>5
<1> QED
  BY <1>5, <1>6, <1>7 DEF n

LEMMA BookTimes ==
  ASSUME NEW books \in Seq(Envelope)
  PROVE  Len(books) \in Nat /\ \A j \in 1..Len(books) : books[j].at \in Int
<1>1. \A j \in 1..Len(books) : books[j] \in Envelope
  OBVIOUS
<1> QED
  BY <1>1 DEF Envelope

\* Times do not go back within a run.
LEMMA RunTimes ==
  ASSUME NEW books \in Seq(Envelope), NEW s \in Nat \ {0}, NEW e \in 1..Len(books) + 1,
         \A j \in s + 1..e - 1 : ~Breaks(books[j - 1], books[j]),
         NEW x \in s..e - 1, NEW y \in x..e - 1
  PROVE  books[x].at <= books[y].at
<1> DEFINE S == {n \in Nat : x + n <= y => books[x].at <= books[x + n].at}
<1>0. /\ Len(books) \in Nat /\ x \in Nat /\ y \in Nat /\ x <= y /\ s <= x /\ y <= e - 1
      /\ e <= Len(books) + 1 /\ e \in Nat /\ 1 <= s
      /\ \A j \in 1..Len(books) : books[j].at \in Int
  <2>1. Len(books) \in Nat /\ \A j \in 1..Len(books) : books[j].at \in Int
    BY BookTimes
  <2>2. e \in Nat /\ s \in Nat
    BY <2>1
  <2> QED
    BY <2>1, <2>2
<1>1. 0 \in S
  <2>1. x \in 1..Len(books) /\ x + 0 = x
    BY <1>0
  <2> QED
    BY <1>0, <2>1
<1>2. ASSUME NEW n \in Nat, n \in S PROVE n + 1 \in S
  <2> SUFFICES ASSUME x + (n + 1) <= y PROVE books[x].at <= books[x + (n + 1)].at
    OBVIOUS
  <2> DEFINE j == x + (n + 1)
  <2>1. /\ j - 1 = x + n /\ x + n <= y /\ j \in s + 1..e - 1
        /\ j \in 1..Len(books) /\ j - 1 \in 1..Len(books) /\ x \in 1..Len(books)
    BY <1>0
  <2> HIDE DEF j
  <2>2. books[x].at <= books[j - 1].at
    BY <1>2, <2>1
  <2>3. ~(books[j].at < books[j - 1].at)
    BY <2>1 DEF Breaks
  <2>4. books[x].at <= books[j].at
    BY <1>0, <2>1, <2>2, <2>3
  <2> QED
    BY <2>4 DEF j
<1> HIDE DEF S
<1>3. \A n \in Nat : n \in S
  BY <1>1, <1>2, NatSetInduction
<1>4. y - x \in Nat /\ x + (y - x) = y /\ y - x \in S
  BY <1>0, <1>3
<1> QED
  BY <1>0, <1>4 DEF S

\* A set of numbers from s on that holds what is below its members counts up.
LEMMA CountsUp ==
  ASSUME NEW s \in Int, NEW e \in Int, s <= e, NEW E \in SUBSET (s..e - 1),
         \A x \in E : \A y \in s..x : y \in E
  PROVE  Cardinality(E) \in Nat /\ \A x \in s..e - 1 : x \in E <=> x < s + Cardinality(E)
<1> DEFINE out == {x \in s..e : x \notin E}
<1>1. out \subseteq Int /\ e \in out
  OBVIOUS
<1>2. IsFiniteSet(out)
  <2>1. IsFiniteSet(s..e) /\ out \in SUBSET (s..e)
    BY FS_Interval
  <2> HIDE DEF out
  <2> QED
    BY <2>1, FS_Subset
<1>3. PICK t \in out : \A x \in out : t <= x
  <2> HIDE DEF out
  <2> QED
    BY <1>1, <1>2, LeastExists
<1>4. t \in s..e /\ t \notin E /\ \A x \in s..t - 1 : x \in E
  BY <1>3
<1>5. ASSUME NEW x \in E PROVE x < t
  <2>1. x \in s..e - 1 /\ \A y \in s..x : y \in E
    OBVIOUS
  <2> QED
    BY <1>4, <2>1
<1>6. E = s..t - 1
  <2>1. \A x \in E : x \in Int /\ s <= x
    OBVIOUS
  <2>2. \A x \in E : x \in s..t - 1
    BY <1>4, <1>5, <2>1
  <2> QED
    BY <1>4, <2>2
<1>7. Cardinality(E) = t - s
  <2>1. Cardinality(s..t - 1) = IF s > t - 1 THEN 0 ELSE (t - 1) - s + 1
    BY <1>4, FS_Interval
  <2> QED
    BY <1>4, <1>6, <2>1
<1> QED
  BY <1>4, <1>6, <1>7

\* The book an order meets is the first of its run that is not too early.
LEMMA CandidateIs ==
  ASSUME NEW books \in Seq(Envelope), NEW i \in 1..Len(books), NEW due \in Int,
         NEW k, k = Candidate(books, i, due), NEW e, e = RunEnd(books, i)
  PROVE  k \in Nat /\ k >= i /\ \A j \in i..e - 1 : j < k <=> books[j].at < due
<1> DEFINE s == RunStart(books, i)
           E == {j \in s..e - 1 : books[j].at < due}
           c == Cardinality(E)
<1>1. k = Max({i, s + c})
  BY DEF Candidate
<1>2. /\ s \in 1..i /\ e \in i + 1..Len(books) + 1
      /\ \A j \in s + 1..e - 1 : ~Breaks(books[j - 1], books[j])
  <2> HIDE DEF s
  <2> QED
    BY RunBounds DEF s
<1>3. Len(books) \in Nat /\ \A j \in 1..Len(books) : books[j].at \in Int
  BY BookTimes
<1> HIDE DEF s
<1>4. E \in SUBSET (s..e - 1) /\ s \in Int /\ e \in Int /\ s <= e
  BY <1>2, <1>3
<1>5. ASSUME NEW x \in E, NEW y \in s..x PROVE y \in E
  <2>1. /\ s \in Nat \ {0} /\ e \in 1..Len(books) + 1
        /\ y \in s..e - 1 /\ x \in y..e - 1 /\ books[x].at < due
        /\ x \in 1..Len(books) /\ y \in 1..Len(books)
    BY <1>2, <1>3
  <2>2. books[y].at <= books[x].at
    BY <1>2, <2>1, RunTimes
  <2>3. books[y].at < due
    BY <1>3, <2>1, <2>2
  <2> QED
    BY <2>1, <2>3
<1>6. c \in Nat /\ \A x \in s..e - 1 : x \in E <=> x < s + c
  <2> HIDE DEF E
  <2> QED
    BY <1>4, <1>5, CountsUp
<1> HIDE DEF c
<1>7. k \in Nat /\ k >= i /\ k >= s + c /\ (k = i \/ k = s + c)
  <2>1. i \in Nat /\ s + c \in Nat
    BY <1>2, <1>6
  <2>2. Max({i, s + c}) = IF i >= s + c THEN i ELSE s + c
    BY <2>1, MaxOfPair
  <2> QED
    BY <1>1, <2>1, <2>2
<1>8. ASSUME NEW j \in i..e - 1 PROVE j < k <=> books[j].at < due
  <2>1. j \in s..e - 1 /\ j >= i
    BY <1>2, <1>3
  <2>2. j < k <=> j < s + c
    BY <1>2, <1>4, <1>6, <1>7, <2>1
  <2>3. j \in E <=> books[j].at < due
    BY <2>1
  <2> HIDE DEF E
  <2> QED
    BY <1>6, <2>1, <2>2, <2>3
<1> QED
  BY <1>7, <1>8


-----------------------------------------------------------------------------
(* What the properties say of an archive *)

LEMMA RecordIs ==
  ASSUME Recorded(archive), NEW x \in 1..Len(archive)
  PROVE  RecordOf(archive[x].ordinal) = archive[x]
<1>1. archive[x] \in Range(archive)
  BY DEF Recorded, Range
<1>2. ASSUME NEW r \in Range(archive), r.ordinal = archive[x].ordinal PROVE r = archive[x]
  <2>1. PICK y \in 1..Len(archive) : r = archive[y]
    BY DEF Recorded, Range
  <2> QED
    BY <1>2, <2>1, Apart
<1> QED
  BY <1>1, <1>2 DEF RecordOf

LEMMA RangeIs ==
  ASSUME Recorded(archive)
  PROVE  \A r : r \in Range(archive) <=> \E x \in 1..Len(archive) : r = archive[x]
BY DEF Recorded, Range

LEMMA ObservedAre ==
  ASSUME Recorded(archive)
  PROVE  \A r : r \in Observed <=>
           \E x \in 1..Len(archive) : r = archive[x] /\ archive[x].kind = "orderbook"
BY RangeIs DEF Observed

\* The two halves of Continuous: nothing is missing or marked on the way,
Whole(from, to) ==
  \A n \in from.ordinal + 1..to.ordinal :
    \E r \in Range(archive) : r.ordinal = n /\ ~r.gap /\ ~r.regressed

Neighbours(u, v) ==
  \A c \in Observed : c.ordinal <= u.ordinal \/ c.ordinal >= v.ordinal

\* and no two neighbouring books lie too far apart.
Near(from, to) ==
  \A u, v \in Observed :
    /\ from.ordinal <= u.ordinal /\ u.ordinal < v.ordinal /\ v.ordinal <= to.ordinal
    /\ Neighbours(u, v)
    => v.at - u.at <= LongestLapse

LEMMA ContinuousIs ==
  ASSUME NEW from, NEW to
  PROVE  Continuous(from, to) <=> Whole(from, to) /\ Near(from, to)
BY DEF Continuous, Whole, Near, Neighbours

\* Every event from one envelope to another is there and follows the one before
\* just if no run ends in between.
LEMMA WholeIs ==
  ASSUME Recorded(archive), NEW x \in 1..Len(archive), NEW y \in 1..Len(archive), x <= y
  PROVE  Whole(archive[x], archive[y]) <=> ~BadWithin(archive, x, y)
<1>0. Len(archive) \in Nat /\ x \in Nat /\ y \in Nat
  BY DEF Recorded
<1>1. ASSUME Whole(archive[x], archive[y]), NEW n \in x + 1..y PROVE ~Bad(archive, n)
  <2>1. n \in 1..Len(archive) /\ n - 1 \in 1..Len(archive) /\ x <= n - 1 /\ x < n /\ n <= y /\ n > 1
    BY <1>0
  <2>2. /\ archive[n].ordinal \in Nat /\ archive[n - 1].ordinal \in Nat
        /\ archive[x].ordinal \in Nat /\ archive[y].ordinal \in Nat
    BY <2>1, Kinds
  <2>3. /\ archive[x].ordinal <= archive[n - 1].ordinal
        /\ archive[x].ordinal < archive[n].ordinal
        /\ archive[n].ordinal <= archive[y].ordinal
    BY <2>1, Apart
  <2>4. ~Marked(archive[n])
    <3>1. archive[n].ordinal \in archive[x].ordinal + 1..archive[y].ordinal
      BY <2>2, <2>3
    <3>2. PICK r \in Range(archive) : r.ordinal = archive[n].ordinal /\ ~r.gap /\ ~r.regressed
      BY <1>1, <3>1 DEF Whole
    <3>3. PICK z \in 1..Len(archive) : r = archive[z]
      BY RangeIs
    <3>4. z = n
      BY <2>1, <3>2, <3>3, Apart
    <3> QED
      BY <3>2, <3>3, <3>4 DEF Marked
  <2>5. archive[n].ordinal = archive[n - 1].ordinal + 1
    <3>1. SUFFICES ASSUME archive[n].ordinal # archive[n - 1].ordinal + 1 PROVE FALSE
      OBVIOUS
    <3>2. archive[n].ordinal \in {archive[n - 1].ordinal + 1, archive[n - 1].ordinal + 2}
      BY <2>1 DEF Recorded, Follows
    <3>3. archive[n].ordinal = archive[n - 1].ordinal + 2
      BY <3>1, <3>2
    <3>4. archive[n - 1].ordinal + 1 \in archive[x].ordinal + 1..archive[y].ordinal
      <4>1. \A u, v, w, z \in Nat : u <= v /\ w = v + 2 /\ w <= z => v + 1 \in u + 1..z
        OBVIOUS
      <4> QED
        BY <2>2, <2>3, <3>3, <4>1
    <3>5. PICK r \in Range(archive) : r.ordinal = archive[n - 1].ordinal + 1
      BY <1>1, <3>4 DEF Whole
    <3>6. PICK z \in 1..Len(archive) : r = archive[z]
      BY RangeIs
    <3>7. archive[z].ordinal \in Nat /\ archive[n - 1].ordinal < archive[z].ordinal
          /\ archive[z].ordinal < archive[n].ordinal
      BY <2>2, <3>3, <3>5, <3>6
    <3>8. n - 1 < z /\ z < n
      BY <2>1, <3>7, Apart
    <3> QED
      BY <1>0, <3>8
  <2> QED
    BY <2>4, <2>5 DEF Bad
<1>2. ASSUME ~BadWithin(archive, x, y),
             NEW n \in archive[x].ordinal + 1..archive[y].ordinal
      PROVE  \E r \in Range(archive) : r.ordinal = n /\ ~r.gap /\ ~r.regressed
  <2>1. archive[x].ordinal \in Nat /\ n \in Nat
    BY Kinds
  <2>2. \A m \in x + 1..y : ~Bad(archive, m)
    BY <1>2 DEF BadWithin
  <2>3. archive[y].ordinal = archive[x].ordinal + (y - x)
    <3>1. y \in x..Len(archive)
      BY <1>0
    <3> QED
      BY <2>2, <3>1, CleanStretch
  <2> DEFINE d == n - archive[x].ordinal
  <2>4. d \in 1..y - x /\ n = archive[x].ordinal + d
    BY <1>0, <2>1, <2>3
  <2> HIDE DEF d
  <2>5. x + d \in 1..Len(archive) /\ x + d \in x..Len(archive) /\ x + d \in x + 1..y
        /\ (x + d) - x = d /\ x + d <= y
    BY <1>0, <2>4
  <2>6. \A m \in x + 1..x + d : ~Bad(archive, m)
    BY <1>0, <2>2, <2>4, <2>5
  <2>7. archive[x + d].ordinal = archive[x].ordinal + ((x + d) - x)
    BY <2>5, <2>6, CleanStretch
  <2>8. ~Bad(archive, x + d)
    BY <2>2, <2>5
  <2>9. archive[x + d].ordinal = n /\ ~archive[x + d].gap /\ ~archive[x + d].regressed
    BY <2>4, <2>5, <2>7, <2>8 DEF Bad, Marked
  <2> QED
    BY <2>5, <2>9, RangeIs
<1> QED
  BY <1>1, <1>2 DEF Whole, BadWithin

\* Books are in the order of their places.
LEMMA PlacesUp ==
  ASSUME NEW a, NEW m \in Nat, NEW p, NEW books, Holds(p, books, a, m),
         NEW i \in 1..Len(p), NEW j \in 1..Len(p)
  PROVE  i < j <=> p[i] < p[j]
<1>1. p \in Seq(Nat) /\ Len(p) \in Nat /\ \A n \in 1..Len(p) : p[n] \in Nat
  BY DEF Holds
<1>2. \A n \in 1..Len(p) : n > 1 => p[n - 1] < p[n]
  BY DEF Holds
<1>3. ASSUME NEW x \in 1..Len(p), NEW y \in 1..Len(p), x < y PROVE p[x] < p[y]
  <2> DEFINE S == {n \in Nat : x + 1 + n <= y => p[x] < p[x + 1 + n]}
  <2>1. 0 \in S
    <3>1. x + 1 + 0 \in 1..Len(p) /\ x + 1 + 0 > 1 /\ (x + 1 + 0) - 1 = x
      BY <1>1, <1>3
    <3>2. p[x] < p[x + 1 + 0]
      BY <1>2, <3>1
    <3> QED
      BY <3>2
  <2>2. ASSUME NEW n \in Nat, n \in S PROVE n + 1 \in S
    <3> SUFFICES ASSUME x + 1 + (n + 1) <= y PROVE p[x] < p[x + 1 + (n + 1)]
      OBVIOUS
    <3>1. /\ x + 1 + (n + 1) \in 1..Len(p) /\ x + 1 + (n + 1) > 1
          /\ (x + 1 + (n + 1)) - 1 = x + 1 + n /\ x + 1 + n \in 1..Len(p) /\ x + 1 + n <= y
      BY <1>1
    <3>2. p[x + 1 + n] < p[x + 1 + (n + 1)] /\ p[x] < p[x + 1 + n]
      BY <1>2, <2>2, <3>1
    <3>3. p[x] \in Nat /\ p[x + 1 + n] \in Nat /\ p[x + 1 + (n + 1)] \in Nat
      BY <1>1, <3>1
    <3> QED
      BY <3>2, <3>3
  <2> HIDE DEF S
  <2>3. \A n \in Nat : n \in S
    BY <2>1, <2>2, NatSetInduction
  <2>4. y - (x + 1) \in Nat /\ x + 1 + (y - (x + 1)) = y /\ y - (x + 1) \in S
    BY <1>1, <1>3, <2>3
  <2> QED
    BY <1>1, <2>4 DEF S
<1>4. i < j => p[i] < p[j]
  BY <1>3
<1>5. j < i => p[j] < p[i]
  BY <1>3
<1>6. p[i] \in Nat /\ p[j] \in Nat /\ (i < j \/ i = j \/ j < i)
  BY <1>1
<1> QED
  BY <1>4, <1>5, <1>6


\* The books of a run lie near each other,
LEMMA NearRun ==
  ASSUME Recorded(archive), NEW m \in 1..Len(archive), NEW p, NEW books,
         Holds(p, books, archive, m),
         NEW i \in 1..Len(books), NEW k \in 1..Len(books),
         \A j \in i + 1..k : books[j].at - books[j - 1].at <= LongestLapse
  PROVE  Near(archive[p[i]], archive[p[k]])
<1>0. /\ Len(p) = Len(books) /\ Len(p) \in Nat /\ Len(archive) \in Nat /\ m \in Nat
      /\ \A j \in 1..Len(p) : p[j] \in 1..Len(archive) /\ p[j] \in 1..m
      /\ \A j \in 1..Len(p) : Copies(books[j], archive[p[j]])
  <2>1. Len(p) = Len(books) /\ Len(p) \in Nat /\ Len(archive) \in Nat /\ m <= Len(archive)
    BY DEF Holds, Recorded
  <2>2. \A j \in 1..Len(p) : p[j] \in 1..m /\ Copies(books[j], archive[p[j]])
    BY DEF Holds
  <2> QED
    BY <2>1, <2>2
<1> SUFFICES ASSUME NEW u \in Observed, NEW v \in Observed,
                    archive[p[i]].ordinal <= u.ordinal, u.ordinal < v.ordinal,
                    v.ordinal <= archive[p[k]].ordinal, Neighbours(u, v)
             PROVE  v.at - u.at <= LongestLapse
  BY DEF Near
<1>1. PICK x \in 1..Len(archive) : u = archive[x] /\ archive[x].kind = "orderbook"
  BY ObservedAre
<1>2. PICK y \in 1..Len(archive) : v = archive[y] /\ archive[y].kind = "orderbook"
  BY ObservedAre
<1>3. p[i] <= x /\ x < y /\ y <= p[k]
  <2>1. p[i] \in 1..Len(archive) /\ p[k] \in 1..Len(archive)
    BY <1>0
  <2> QED
    BY <1>1, <1>2, <2>1, Apart
<1>4. x \in 1..m /\ y \in 1..m
  <2>1. p[k] \in 1..m
    BY <1>0
  <2> QED
    BY <1>0, <1>3, <2>1
<1>5. PICK s \in 1..Len(p) : p[s] = x
  BY <1>1, <1>4 DEF Holds
<1>6. PICK t \in 1..Len(p) : p[t] = y
  BY <1>2, <1>4 DEF Holds
<1>7. i <= s /\ s < t /\ t <= k
  <2>1. i \in 1..Len(p) /\ k \in 1..Len(p) /\ p[i] \in Nat /\ p[k] \in Nat /\ x \in Nat /\ y \in Nat
    BY <1>0
  <2>2. /\ s < i <=> p[s] < p[i]
        /\ s < t <=> p[s] < p[t]
        /\ k < t <=> p[k] < p[t]
    BY <1>0, <2>1, PlacesUp
  <2> QED
    BY <1>0, <1>3, <1>5, <1>6, <2>1, <2>2
<1>8. s + 1 \in 1..Len(p) /\ s + 1 \in i + 1..k /\ (s + 1) - 1 = s
  BY <1>0, <1>7
<1>9. s + 1 = t
  <2> DEFINE z == p[s + 1]
  <2>1. z \in 1..Len(archive) /\ archive[z].kind = "orderbook"
    BY <1>0, <1>8 DEF Copies
  <2>2. archive[z] \in Observed
    BY <2>1, ObservedAre
  <2> HIDE DEF z
  <2>3. archive[z].ordinal <= archive[x].ordinal \/ archive[z].ordinal >= archive[y].ordinal
    BY <1>1, <1>2, <2>2 DEF Neighbours
  <2>4. archive[z].ordinal \in Nat /\ archive[y].ordinal \in Nat
    BY <2>1, Kinds
  <2>5. z <= x \/ y <= z
    BY <2>1, <2>3, <2>4, Apart
  <2>6. /\ s < s + 1 <=> p[s] < p[s + 1]
        /\ s + 1 < t <=> p[s + 1] < p[t]
    BY <1>0, <1>8, PlacesUp
  <2>7. p[s] < z /\ (s + 1 < t => z < p[t])
    BY <1>8, <2>6 DEF z
  <2>8. ~(s + 1 < t)
    BY <1>5, <1>6, <2>1, <2>5, <2>7
  <2> QED
    BY <1>7, <1>8, <2>8
<1>10. books[t].at - books[s].at <= LongestLapse
  BY <1>8, <1>9
<1>11. books[t].at = v.at /\ books[s].at = u.at
  BY <1>0, <1>1, <1>2, <1>5, <1>6 DEF Copies
<1> QED
  BY <1>10, <1>11

\* and so do the books up to an envelope that is reached.
LEMMA NearLapse ==
  ASSUME Recorded(archive), NEW m \in 1..Len(archive), NEW p, NEW books,
         Holds(p, books, archive, m),
         NEW i \in 1..Len(books), NEW e \in i + 1..Len(books),
         NEW x \in 1..Len(archive), p[e] <= x, Near(archive[p[i]], archive[x])
  PROVE  books[e].at - books[e - 1].at <= LongestLapse
<1> DEFINE u == p[e - 1]
           v == p[e]
<1>0. /\ Len(p) = Len(books) /\ Len(p) \in Nat /\ Len(archive) \in Nat /\ m \in Nat
      /\ m <= Len(archive) /\ \A j \in 1..Len(p) : p[j] \in 1..m
      /\ \A j \in 1..Len(p) : Copies(books[j], archive[p[j]])
  BY DEF Holds, Recorded
<1>1. e \in 1..Len(p) /\ e - 1 \in 1..Len(p) /\ i \in 1..Len(p) /\ i <= e - 1 /\ e - 1 < e
  BY <1>0
<1>2. p[i] \in 1..m /\ u \in 1..m /\ v \in 1..m
  BY <1>0, <1>1
<1>3. /\ e - 1 < i <=> p[e - 1] < p[i]
      /\ e - 1 < e <=> p[e - 1] < p[e]
  BY <1>0, <1>1, PlacesUp
<1>4. p[i] <= u /\ u < v
  BY <1>1, <1>2, <1>3
<1>5. u \in 1..Len(archive) /\ v \in 1..Len(archive) /\ p[i] \in 1..Len(archive)
  BY <1>0, <1>2
<1>6. /\ archive[p[i]].ordinal <= archive[u].ordinal
      /\ archive[u].ordinal < archive[v].ordinal
      /\ archive[v].ordinal <= archive[x].ordinal
  BY <1>4, <1>5, Apart
<1>7. archive[u] \in Observed /\ archive[v] \in Observed
  <2>1. archive[u].kind = "orderbook" /\ archive[v].kind = "orderbook"
    BY <1>0, <1>1 DEF Copies
  <2> QED
    BY <1>5, <2>1, ObservedAre
<1>8. Neighbours(archive[u], archive[v])
  <2> SUFFICES ASSUME NEW c \in Observed,
                      ~(c.ordinal <= archive[u].ordinal), ~(c.ordinal >= archive[v].ordinal)
               PROVE  FALSE
    BY DEF Neighbours
  <2>1. PICK y \in 1..Len(archive) : c = archive[y] /\ archive[y].kind = "orderbook"
    BY ObservedAre
  <2>2. /\ archive[y].ordinal \in Nat /\ archive[u].ordinal \in Nat /\ archive[v].ordinal \in Nat
    BY <1>5, <2>1, Kinds
  <2>3. archive[u].ordinal < archive[y].ordinal /\ archive[y].ordinal < archive[v].ordinal
    <3>1. \A g, h \in Nat : (~(g <= h) => h < g) /\ (~(g >= h) => g < h)
      OBVIOUS
    <3> HIDE DEF u, v
    <3> QED
      BY <2>1, <2>2, <3>1
  <2>4. u < y /\ y < v
    BY <1>5, <2>1, <2>3, Apart
  <2>5. y \in 1..m
    BY <1>0, <1>2, <2>4
  <2>6. PICK j \in 1..Len(p) : p[j] = y
    BY <2>1, <2>5 DEF Holds
  <2>7. /\ e - 1 < j <=> p[e - 1] < p[j]
        /\ j < e <=> p[j] < p[e]
    BY <1>0, <1>1, PlacesUp
  <2>8. e - 1 < j /\ j < e
    BY <2>4, <2>6, <2>7
  <2> QED
    BY <1>0, <1>1, <2>8
<1>9. archive[v].at - archive[u].at <= LongestLapse
  BY <1>6, <1>7, <1>8 DEF Near
<1>10. books[e].at = archive[v].at /\ books[e - 1].at = archive[u].at
  BY <1>0, <1>1 DEF Copies
<1> QED
  BY <1>9, <1>10


-----------------------------------------------------------------------------
(* An order meets the first book it may *)

LEMMA HoldsFacts ==
  ASSUME Recorded(archive), NEW m \in 1..Len(archive), NEW p, NEW books,
         Holds(p, books, archive, m)
  PROVE  /\ Len(p) = Len(books) /\ Len(p) \in Nat /\ Len(archive) \in Nat /\ m \in Nat
         /\ m <= Len(archive) /\ books \in Seq(Envelope)
         /\ \A j \in 1..Len(p) : p[j] \in 1..m /\ p[j] \in 1..Len(archive) /\ p[j] \in Nat
         /\ \A j \in 1..Len(p) : Copies(books[j], archive[p[j]])
<1>1. /\ Len(p) = Len(books) /\ Len(p) \in Nat /\ Len(archive) \in Nat /\ m <= Len(archive)
      /\ books \in Seq(Envelope)
  BY DEF Holds, Recorded
<1>2. \A j \in 1..Len(p) : p[j] \in 1..m /\ Copies(books[j], archive[p[j]])
  BY DEF Holds
<1> QED
  BY <1>1, <1>2

LEMMA WithinSplits ==
  ASSUME NEW a, NEW x \in Nat, NEW y \in Nat, NEW z \in Nat, x <= y, y <= z
  PROVE  BadWithin(a, x, z) <=> BadWithin(a, x, y) \/ BadWithin(a, y, z)
<1>1. x + 1..z = (x + 1..y) \cup (y + 1..z)
  OBVIOUS
<1> QED
  BY <1>1 DEF BadWithin

\* The archive is whole from a book to every later one of its run.
LEMMA RunReaches ==
  ASSUME Recorded(archive), NEW m \in 1..Len(archive), NEW p, NEW books,
         Holds(p, books, archive, m), NEW i \in 1..Len(books),
         NEW k \in i..RunEnd(books, i) - 1
  PROVE  k \in 1..Len(books) /\ Continuous(archive[p[i]], archive[p[k]])
<1> DEFINE s == RunStart(books, i)
           e == RunEnd(books, i)
<1>0. /\ Len(p) = Len(books) /\ Len(p) \in Nat /\ Len(archive) \in Nat
      /\ books \in Seq(Envelope)
      /\ \A j \in 1..Len(p) : p[j] \in 1..Len(archive) /\ p[j] \in Nat
      /\ \A j \in 1..Len(p) : Copies(books[j], archive[p[j]])
  BY HoldsFacts
<1>1. /\ s \in 1..i /\ e \in i + 1..Len(books) + 1
      /\ \A j \in s + 1..e - 1 : ~Breaks(books[j - 1], books[j])
  <2> HIDE DEF s, e
  <2> QED
    BY <1>0, RunBounds DEF s, e
<1>2. k \in i..e - 1
  OBVIOUS
<1> HIDE DEF s, e
<1>3. k \in 1..Len(books) /\ i \in Nat /\ k \in Nat /\ i <= k
  BY <1>0, <1>1, <1>2
<1>4. ASSUME NEW j \in i + 1..k
      PROVE  /\ ~BadWithin(archive, p[j - 1], p[j])
             /\ books[j].at - books[j - 1].at <= LongestLapse
  <2>1. j \in 2..Len(books) /\ j \in s + 1..e - 1
    BY <1>0, <1>1, <1>2, <1>3
  <2>2. ~Breaks(books[j - 1], books[j])
    BY <1>1, <2>1
  <2>3. ~BadWithin(archive, p[j - 1], p[j]) /\ ~(books[j].at - books[j - 1].at > LongestLapse)
    BY <2>1, <2>2, BreaksAre
  <2>4. books[j].at \in Int /\ books[j - 1].at \in Int
    <3>1. j \in 1..Len(books) /\ j - 1 \in 1..Len(books)
      BY <1>0, <2>1
    <3> QED
      BY <1>0, <3>1, BookTimes
  <2> QED
    BY <2>3, <2>4, LapseSize
<1>5. ~BadWithin(archive, p[i], p[k])
  <2> DEFINE S == {n \in Nat : i + n <= k => ~BadWithin(archive, p[i], p[i + n])}
  <2>1. 0 \in S
    <3>1. i + 0 = i /\ p[i] \in Nat
      BY <1>0
    <3>2. ~BadWithin(archive, p[i], p[i])
      BY <3>1 DEF BadWithin
    <3> QED
      BY <3>1, <3>2
  <2>2. ASSUME NEW n \in Nat, n \in S PROVE n + 1 \in S
    <3> SUFFICES ASSUME i + (n + 1) <= k PROVE ~BadWithin(archive, p[i], p[i + (n + 1)])
      OBVIOUS
    <3>1. /\ i + (n + 1) \in i + 1..k /\ (i + (n + 1)) - 1 = i + n /\ i + n <= k
          /\ i + n \in 1..Len(p) /\ i + (n + 1) \in 1..Len(p) /\ i \in 1..Len(p) /\ i <= i + n
      BY <1>0, <1>3
    <3>2. ~BadWithin(archive, p[i + n], p[i + (n + 1)]) /\ ~BadWithin(archive, p[i], p[i + n])
      BY <1>4, <2>2, <3>1
    <3>3. p[i] \in Nat /\ p[i + n] \in Nat /\ p[i + (n + 1)] \in Nat
      BY <1>0, <3>1
    <3>4. /\ i + n < i <=> p[i + n] < p[i]
          /\ i + (n + 1) < i + n <=> p[i + (n + 1)] < p[i + n]
      <4>1. m \in Nat
        BY HoldsFacts
      <4> QED
        BY <3>1, <4>1, PlacesUp
    <3>5. p[i] <= p[i + n] /\ p[i + n] <= p[i + (n + 1)]
      <4>1. ~(i + n < i) /\ ~(i + (n + 1) < i + n)
        BY <1>3
      <4> QED
        BY <3>3, <3>4, <4>1
    <3> QED
      BY <3>2, <3>3, <3>5, WithinSplits
  <2> HIDE DEF S
  <2>3. \A n \in Nat : n \in S
    BY <2>1, <2>2, NatSetInduction
  <2>4. k - i \in Nat /\ i + (k - i) = k /\ k - i \in S
    BY <1>3, <2>3
  <2> QED
    BY <1>3, <2>4 DEF S
<1>6. p[i] \in 1..Len(archive) /\ p[k] \in 1..Len(archive) /\ p[i] <= p[k]
  <2>1. i \in 1..Len(p) /\ k \in 1..Len(p) /\ m \in Nat
    BY <1>0, <1>3
  <2>2. k < i <=> p[k] < p[i]
    BY <2>1, PlacesUp
  <2>3. p[i] \in 1..Len(archive) /\ p[k] \in 1..Len(archive) /\ p[i] \in Nat /\ p[k] \in Nat
    BY <1>0, <2>1
  <2> QED
    BY <1>3, <2>2, <2>3
<1>7. Whole(archive[p[i]], archive[p[k]])
  BY <1>5, <1>6, WholeIs
<1>8. Near(archive[p[i]], archive[p[k]])
  BY <1>3, <1>4, NearRun
<1> QED
  BY <1>3, <1>7, <1>8, ContinuousIs

\* Nothing beyond the end of its run is reached from a book.
LEMMA NotBeyond ==
  ASSUME Recorded(archive), NEW m \in 1..Len(archive), NEW p, NEW books,
         Holds(p, books, archive, m), NEW i \in 1..Len(books),
         RunEnd(books, i) <= Len(books), NEW x \in 1..Len(archive),
         Continuous(archive[p[i]], archive[x])
  PROVE  RunEnd(books, i) \in 1..Len(books) /\ x < p[RunEnd(books, i)]
<1> DEFINE e == RunEnd(books, i)
<1>0. /\ Len(p) = Len(books) /\ Len(p) \in Nat /\ Len(archive) \in Nat /\ m \in Nat
      /\ books \in Seq(Envelope)
      /\ \A j \in 1..Len(p) : p[j] \in 1..Len(archive) /\ p[j] \in Nat
  BY HoldsFacts
<1>1. e \in i + 1..Len(books) + 1 /\ (e <= Len(books) => Breaks(books[e - 1], books[e]))
  <2> HIDE DEF e
  <2> QED
    BY <1>0, RunBounds DEF e
<1>2. e <= Len(books)
  OBVIOUS
<1> HIDE DEF e
<1>3. /\ e \in i + 1..Len(books) /\ e \in 2..Len(books) /\ e \in 1..Len(p)
      /\ e - 1 \in 1..Len(p) /\ i \in 1..Len(p) /\ i <= e - 1 /\ e - 1 < e
  BY <1>0, <1>1, <1>2
<1>4. BadWithin(archive, p[e - 1], p[e]) \/ books[e].at - books[e - 1].at > LongestLapse
  BY <1>1, <1>2, <1>3, BreaksAre
<1>5. /\ p[i] \in Nat /\ p[e - 1] \in Nat /\ p[e] \in Nat
      /\ p[i] \in 1..Len(archive) /\ p[e] \in 1..Len(archive)
  BY <1>0, <1>3
<1>6. p[i] <= p[e - 1] /\ p[e - 1] <= p[e]
  <2>1. /\ e - 1 < i <=> p[e - 1] < p[i]
        /\ e < e - 1 <=> p[e] < p[e - 1]
    BY <1>0, <1>3, PlacesUp
  <2>2. ~(e - 1 < i) /\ ~(e < e - 1)
    BY <1>3
  <2> QED
    BY <1>5, <2>1, <2>2
<1>7. ASSUME p[e] <= x PROVE FALSE
  <2>1. x \in Nat /\ p[i] <= x
    BY <1>0, <1>5, <1>6, <1>7
  <2>2. ~BadWithin(archive, p[i], x)
    BY <1>5, <2>1, WholeIs, ContinuousIs
  <2>3. ~BadWithin(archive, p[e - 1], p[e])
    <3>1. ~BadWithin(archive, p[e - 1], x)
      <4>1. p[e - 1] <= x
        BY <1>5, <1>6, <1>7, <2>1
      <4> QED
        BY <1>5, <1>6, <2>1, <2>2, <4>1, WithinSplits
    <3> QED
      BY <1>5, <1>6, <1>7, <2>1, <3>1, WithinSplits
  <2>4. books[e].at - books[e - 1].at <= LongestLapse
    BY <1>3, <1>7, NearLapse, ContinuousIs
  <2>5. books[e].at \in Int /\ books[e - 1].at \in Int
    BY <1>0, <1>3, BookTimes
  <2> QED
    BY <1>4, <2>3, <2>4, <2>5, LapseSize
<1>8. e \in 1..Len(books) /\ x < p[e]
  BY <1>0, <1>3, <1>5, <1>7
<1> QED
  BY <1>8 DEF e


\* Every book of the archive that the archive leads up to from book i and that
\* is not before the due time is of its run and at or after the candidate, or it
\* was recorded later than the books.
LEMMA ReachedLate ==
  ASSUME Recorded(archive), NEW m \in 1..Len(archive), NEW p, NEW books,
         Holds(p, books, archive, m), NEW i \in 1..Len(books), NEW due \in Int,
         NEW x \in 1..Len(archive), archive[x].kind = "orderbook", p[i] <= x,
         archive[x].at >= due, Continuous(archive[p[i]], archive[x]), x <= m
  PROVE  \E j \in i..RunEnd(books, i) - 1 : p[j] = x /\ Candidate(books, i, due) <= j
<1> DEFINE e == RunEnd(books, i)
           k == Candidate(books, i, due)
<1>0. /\ Len(p) = Len(books) /\ Len(p) \in Nat /\ m \in Nat
      /\ books \in Seq(Envelope)
      /\ \A j \in 1..Len(p) : p[j] \in 1..Len(archive) /\ p[j] \in Nat
      /\ \A j \in 1..Len(p) : Copies(books[j], archive[p[j]])
  BY HoldsFacts
<1>1. e \in i + 1..Len(books) + 1
  <2> HIDE DEF e
  <2> QED
    BY <1>0, RunBounds DEF e
<1>2. k \in Nat /\ k >= i /\ \A j \in i..e - 1 : j < k <=> books[j].at < due
  <2> HIDE DEF e, k
  <2> QED
    BY <1>0, CandidateIs DEF e, k
<1>3. e <= Len(books) => e \in 1..Len(books) /\ x < p[e]
  BY NotBeyond
<1> HIDE DEF e, k
<1>4. x \in 1..m
  BY <1>0
<1>5. PICK j \in 1..Len(p) : p[j] = x
  BY <1>4 DEF Holds
<1>6. i <= j
  <2>1. j < i <=> p[j] < p[i]
    BY <1>0, PlacesUp
  <2>2. p[i] \in Nat /\ p[j] \in Nat
    BY <1>0
  <2> QED
    BY <1>0, <1>5, <2>1, <2>2
<1>7. j <= e - 1
  <2>1. CASE e <= Len(books)
    <3>1. j < e <=> p[j] < p[e]
      BY <1>0, <1>3, <2>1, PlacesUp
    <3> QED
      BY <1>0, <1>1, <1>3, <1>5, <2>1, <3>1
  <2>2. CASE ~(e <= Len(books))
    BY <1>0, <1>1, <2>2
  <2> QED
    BY <2>1, <2>2
<1>8. j \in i..e - 1
  BY <1>0, <1>1, <1>6, <1>7
<1>9. books[j].at = archive[x].at /\ books[j].at \in Int
  <2>1. books[j].at = archive[x].at
    BY <1>0, <1>5 DEF Copies
  <2> QED
    BY <2>1, Kinds
<1>10. ~(j < k)
  BY <1>2, <1>8, <1>9
<1> QED
  BY <1>2, <1>5, <1>8, <1>10 DEF e, k

LEMMA OutcomeFields ==
  ASSUME NEW books, NEW i, NEW order, NEW o, o = Outcome(books, i, order),
         NEW due, due = books[i].at + order.latency,
         NEW k, k = Candidate(books, i, due), NEW e, e = RunEnd(books, i)
  PROVE  /\ o.order = order /\ o.decided = books[i].ordinal /\ o.due = due
         /\ o.chosen = IF k < e THEN books[k].ordinal ELSE 0
         /\ k < e => LET w == Sweep(books[k], order)
                     IN /\ o.filled = w.filled /\ o.used = w.used /\ o.rest = w.rest
                        /\ ~(k >= e) => o.status = IF w.rest = 0 THEN "filled" ELSE "partial"
         /\ k >= e => o.status = IF e <= Len(books) THEN "invalid" ELSE "unavailable"
BY DEF Outcome

\* What SettledAtFirstBook says of an outcome of a replay that ended at ordinal n.
Settled(o, n) ==
  LET decided == RecordOf(o.decided)
      eligible == {b.ordinal : b \in {c \in Observed : c.ordinal >= o.decided
                                        /\ c.at >= o.due /\ Continuous(decided, c)}}
  IN /\ o.status \in {"filled", "partial"} => eligible # {} /\ o.chosen = Min(eligible)
     /\ o.status = "invalid" => eligible = {}
     /\ o.status = "unavailable" => \A r \in eligible : r > n

LEMMA OutcomeSettled ==
  ASSUME Recorded(archive), NEW m \in 1..Len(archive), NEW p, NEW books,
         Holds(p, books, archive, m), NEW i \in 1..Len(books), NEW order \in Order,
         NEW o, o = Outcome(books, i, order)
  PROVE  Settled(o, archive[m].ordinal)
<1> DEFINE due == books[i].at + order.latency
           k == Candidate(books, i, due)
           e == RunEnd(books, i)
           reached == {c \in Observed : c.ordinal >= books[i].ordinal /\ c.at >= due
                                        /\ Continuous(archive[p[i]], c)}
           eligible == {b.ordinal : b \in reached}
<1>0. /\ Len(p) = Len(books) /\ Len(p) \in Nat /\ m \in Nat
      /\ Len(archive) \in Nat /\ m <= Len(archive) /\ books \in Seq(Envelope)
      /\ \A j \in 1..Len(p) : p[j] \in 1..m /\ p[j] \in 1..Len(archive) /\ p[j] \in Nat
      /\ \A j \in 1..Len(p) : Copies(books[j], archive[p[j]])
  BY HoldsFacts
<1>1. due \in Int
  <2>1. books[i].at \in Int
    BY <1>0, BookTimes
  <2>2. order.latency \in Nat
    BY DepthAssumption
  <2> QED
    BY <2>1, <2>2
<1>2. /\ o.decided = books[i].ordinal /\ o.due = due
      /\ o.chosen = IF k < e THEN books[k].ordinal ELSE 0
      /\ k < e /\ ~(k >= e) => o.status \in {"filled", "partial"}
      /\ k >= e => o.status = IF e <= Len(books) THEN "invalid" ELSE "unavailable"
  <2> HIDE DEF due, k, e
  <2>1. due = books[i].at + order.latency /\ k = Candidate(books, i, due)
        /\ e = RunEnd(books, i)
    BY DEF due, k, e
  <2> QED
    BY <2>1, OutcomeFields
<1>3. e \in i + 1..Len(books) + 1
  <2> HIDE DEF e
  <2> QED
    BY <1>0, RunBounds DEF e
<1>4. k \in Nat /\ k >= i /\ \A j \in i..e - 1 : j < k <=> books[j].at < due
  <2> HIDE DEF due, k, e
  <2> QED
    BY <1>0, <1>1, CandidateIs DEF k, e
<1>5. ASSUME NEW x \in 1..Len(archive), archive[x].kind = "orderbook", p[i] <= x,
             archive[x].at >= due, Continuous(archive[p[i]], archive[x])
      PROVE  /\ x <= m => \E j \in i..e - 1 : p[j] = x /\ k <= j
             /\ e <= Len(books) => x <= m
  <2>1. x <= m => \E j \in i..e - 1 : p[j] = x /\ k <= j
    <3> HIDE DEF due
    <3> QED
      BY <1>1, <1>5, ReachedLate
  <2>2. e <= Len(books) => e \in 1..Len(books) /\ x < p[e]
    BY <1>5, NotBeyond
  <2>3. ASSUME e <= Len(books) PROVE x <= m
    <3> HIDE DEF e
    <3>1. p[e] \in 1..m /\ x < p[e]
      BY <1>0, <2>2, <2>3
    <3> QED
      BY <1>0, <3>1
  <2> QED
    BY <2>1, <2>3
<1>6. RecordOf(o.decided) = archive[p[i]] /\ p[i] \in 1..Len(archive)
      /\ books[i].ordinal = archive[p[i]].ordinal
  <2>1. p[i] \in 1..Len(archive) /\ books[i].ordinal = archive[p[i]].ordinal
    BY <1>0 DEF Copies
  <2> QED
    BY <1>2, <2>1, RecordIs
<1>7. k < e => k \in 1..Len(books) /\ Continuous(archive[p[i]], archive[p[k]])
  <2> SUFFICES ASSUME k < e
               PROVE  k \in 1..Len(books) /\ Continuous(archive[p[i]], archive[p[k]])
    OBVIOUS
  <2>1. k \in i..e - 1
    BY <1>0, <1>3, <1>4
  <2> HIDE DEF k
  <2> QED
    BY <2>1, RunReaches
<1> HIDE DEF due, k, e
<1>8. \A c \in reached : \E x \in 1..Len(archive) :
        /\ c = archive[x] /\ archive[x].kind = "orderbook" /\ p[i] <= x
        /\ archive[x].at >= due /\ Continuous(archive[p[i]], archive[x])
  <2> SUFFICES ASSUME NEW c \in Observed, c.ordinal >= books[i].ordinal, c.at >= due,
                      Continuous(archive[p[i]], c)
               PROVE  \E x \in 1..Len(archive) :
                        /\ c = archive[x] /\ archive[x].kind = "orderbook" /\ p[i] <= x
                        /\ archive[x].at >= due /\ Continuous(archive[p[i]], archive[x])
    OBVIOUS
  <2>1. PICK x \in 1..Len(archive) : c = archive[x] /\ archive[x].kind = "orderbook"
    BY ObservedAre
  <2>2. archive[p[i]].ordinal <= archive[x].ordinal
    <3>1. archive[p[i]].ordinal \in Nat /\ archive[x].ordinal \in Nat
      BY <1>6, Kinds
    <3> QED
      BY <1>6, <2>1, <3>1
  <2>3. p[i] <= x
    BY <1>6, <2>2, Apart
  <2> QED
    BY <2>1, <2>3
<1>9. ASSUME k < e PROVE eligible # {} /\ books[k].ordinal = Min(eligible)
  <2>1. /\ k \in 1..Len(books) /\ k \in 1..Len(p) /\ i \in 1..Len(p) /\ k \in i..e - 1
        /\ Continuous(archive[p[i]], archive[p[k]])
    BY <1>0, <1>3, <1>4, <1>7, <1>9
  <2>2. /\ p[k] \in 1..Len(archive) /\ p[k] <= m /\ p[i] \in 1..Len(archive)
        /\ Copies(books[k], archive[p[k]])
    BY <1>0, <2>1
  <2>3. ~(k < k)
    BY <1>4
  <2>4. archive[p[k]].at >= due
    <3>1. ~(books[k].at < due)
      BY <1>4, <2>1, <2>3
    <3>2. books[k].at = archive[p[k]].at /\ archive[p[k]].at \in Int
      BY <2>2, Kinds DEF Copies
    <3> QED
      BY <1>1, <3>1, <3>2
  <2>5. p[i] <= p[k]
    <3>1. k < i <=> p[k] < p[i]
      BY <1>0, <2>1, PlacesUp
    <3> QED
      BY <1>0, <1>4, <2>1, <2>2, <3>1
  <2>6. archive[p[k]].ordinal >= books[i].ordinal
    <3>1. archive[p[i]].ordinal <= archive[p[k]].ordinal
      BY <2>2, <2>5, Apart
    <3>2. archive[p[i]].ordinal \in Nat /\ archive[p[k]].ordinal \in Nat
      BY <2>2, Kinds
    <3> QED
      BY <1>6, <3>1, <3>2
  <2>7. archive[p[k]] \in reached
    <3>1. archive[p[k]] \in Observed
      BY <2>2, ObservedAre DEF Copies
    <3> QED
      BY <2>1, <2>4, <2>6, <3>1
  <2>8. books[k].ordinal = archive[p[k]].ordinal
    BY <2>2 DEF Copies
  <2>9. ASSUME NEW c \in reached PROVE c.ordinal \in Int /\ books[k].ordinal <= c.ordinal
    <3>1. PICK x \in 1..Len(archive) :
            /\ c = archive[x] /\ archive[x].kind = "orderbook" /\ p[i] <= x
            /\ archive[x].at >= due /\ Continuous(archive[p[i]], archive[x])
      BY <1>8, <2>9
    <3>2. p[k] <= x
      <4>1. CASE x <= m
        <5>1. PICK j \in i..e - 1 : p[j] = x /\ k <= j
          BY <1>5, <3>1, <4>1
        <5>2. j \in 1..Len(p)
          BY <1>0, <1>3, <5>1
        <5>3. j < k <=> p[j] < p[k]
          BY <1>0, <2>1, <5>2, PlacesUp
        <5> QED
          BY <1>0, <1>3, <1>4, <2>2, <5>1, <5>3
      <4>2. CASE ~(x <= m)
        BY <1>0, <2>2, <4>2
      <4> QED
        BY <4>1, <4>2
    <3>3. archive[p[k]].ordinal <= archive[x].ordinal
      BY <2>2, <3>2, Apart
    <3>4. archive[x].ordinal \in Int
      BY Kinds
    <3> QED
      BY <2>8, <3>1, <3>3, <3>4
  <2> HIDE DEF reached
  <2>10. books[k].ordinal \in eligible
    BY <2>7, <2>8
  <2>11. eligible \subseteq Int /\ \A r \in eligible : books[k].ordinal <= r
    BY <2>9
  <2> HIDE DEF eligible
  <2> QED
    BY <2>10, <2>11, MinIs
<1>10. ASSUME k >= e, NEW c \in reached PROVE e > Len(books) /\ c.ordinal > archive[m].ordinal
  <2>1. PICK x \in 1..Len(archive) :
          /\ c = archive[x] /\ archive[x].kind = "orderbook" /\ p[i] <= x
          /\ archive[x].at >= due /\ Continuous(archive[p[i]], archive[x])
    BY <1>8, <1>10
  <2>2. ~(x <= m)
    <3> SUFFICES ASSUME x <= m PROVE FALSE
      OBVIOUS
    <3>1. PICK j \in i..e - 1 : p[j] = x /\ k <= j
      BY <1>5, <2>1
    <3> QED
      BY <1>0, <1>3, <1>4, <1>10, <3>1
  <2>3. ~(e <= Len(books))
    BY <1>5, <2>1, <2>2
  <2>4. m < x
    BY <1>0, <2>2
  <2>5. archive[m].ordinal < archive[x].ordinal
    BY <2>4, Apart
  <2>6. archive[m].ordinal \in Nat /\ archive[x].ordinal \in Nat
    BY Kinds
  <2> QED
    BY <1>0, <1>3, <2>1, <2>3, <2>5, <2>6
<1>11. /\ o.status \in {"filled", "partial"} => eligible # {} /\ o.chosen = Min(eligible)
       /\ o.status = "invalid" => eligible = {}
       /\ o.status = "unavailable" => \A r \in eligible : r > archive[m].ordinal
  <2>0. (k < e /\ ~(k >= e)) \/ (k >= e /\ ~(k < e))
    BY <1>0, <1>3, <1>4
  <2> HIDE DEF reached
  <2>1. CASE k < e
    <3>1. o.status \in {"filled", "partial"} /\ o.chosen = books[k].ordinal
      BY <1>2, <2>0, <2>1
    <3> HIDE DEF eligible
    <3> QED
      BY <1>9, <2>1, <3>1
  <2>2. CASE k >= e
    <3>1. o.status = IF e <= Len(books) THEN "invalid" ELSE "unavailable"
      BY <1>2, <2>2
    <3>2. e <= Len(books) => reached = {}
      BY <1>0, <1>3, <1>10, <2>2
    <3>3. \A r \in eligible : r > archive[m].ordinal
      BY <1>10, <2>2
    <3>4. reached = {} => eligible = {}
      OBVIOUS
    <3> HIDE DEF eligible
    <3> QED
      BY <3>1, <3>2, <3>3, <3>4
  <2> QED
    BY <2>0, <2>1, <2>2
<1>12. eligible = {b.ordinal : b \in {c \in Observed : c.ordinal >= o.decided
                      /\ c.at >= o.due /\ Continuous(RecordOf(o.decided), c)}}
  BY <1>2, <1>6
<1> HIDE DEF eligible
<1> QED
  BY <1>11, <1>12 DEF Settled


-----------------------------------------------------------------------------
(* A sweep of the depth *)

Size == Nat \ {0}

LEMMA OffersType ==
  ASSUME NEW book, book.shown \in [buy : Levels, sell : Levels], NEW order \in Order
  PROVE  Offers(book, order) \in Seq(Size)
<1> DEFINE levels == book.shown[order.side]
<1>1. order.side \in {"buy", "sell"} /\ order.unit \in {"base", "quote"}
  BY DepthAssumption
<1>2. levels \in Seq([price : Size, size : Size])
  BY <1>1 DEF Levels, Size
<1> HIDE DEF levels
<1>3. ASSUME NEW n \in 1..Len(levels) PROVE Offered(levels[n], order.unit) \in Size
  <2>1. levels[n].size \in Size /\ levels[n].price \in Size
    <3>1. levels[n] \in [price : Size, size : Size]
      <4>1. \A T : \A q \in Seq(T) : \A j \in 1..Len(q) : q[j] \in T
        OBVIOUS
      <4> QED
        BY <1>2, <4>1
    <3> QED
      BY <3>1
  <2>2. \A x, y \in Nat \ {0} : x * y \in Nat \ {0}
    BY SMTT(30)
  <2>3. levels[n].size * levels[n].price \in Size
    BY <2>1, <2>2 DEF Size
  <2> QED
    BY <2>1, <2>3 DEF Offered
<1>4. Len(levels) \in Nat /\ DOMAIN levels = 1..Len(levels)
  BY <1>2
<1>5. Offers(book, order) = [n \in 1..Len(levels) |-> Offered(levels[n], order.unit)]
  BY <1>4 DEF Offers, levels
<1> QED
  BY <1>3, <1>4, <1>5

\* The sum of a sequence, as it is folded.
Total(s) == FoldLeft(LAMBDA a, b : a + b, 0, s)

LEMMA TotalSteps ==
  ASSUME NEW w \in Seq(Size)
  PROVE  \E L : /\ L[0] = 0
                /\ \A k \in 1..Len(w) : L[k] = L[k - 1] + w[k]
                /\ Total(w) = L[Len(w)]
<1> DEFINE n == Len(w)
           step == [i \in 1..n |-> [x \in Nat |-> x + w[i]]]
           Body(g) == [s \in SUBSET DOMAIN w |->
                        IF s = {} THEN 0
                        ELSE LET x == Max(s) IN g[s \ {x}] + w[x]]
           iter == CHOOSE g : g = Body(g)
           L == [k \in 0..n |-> iter[1..k]]
<1>1. n \in Nat /\ DOMAIN w = 1..n /\ \A i \in 1..n : w[i] \in Nat
  BY DEF Size
<1>2. Total(w) = iter[DOMAIN w]
  BY DEF Total, FoldLeft, MapThenFoldSet
<1> HIDE DEF n
<1>3. 0 \in Nat
  OBVIOUS
<1>4. ASSUME NEW i \in 1..n, NEW x \in Nat
      PROVE  step[i][x] = x + w[i] /\ step[i][x] \in Nat
  BY <1>1
<1>5. PICK h \in [SUBSET (1..n) -> Nat] : FoldsLeft(h, 0, step, n)
  <2> HIDE DEF step
  <2> QED
    BY <1>1, <1>3, <1>4, FoldsLeftExist
<1>6. h = Body(h)
  <2>1. ASSUME NEW s \in SUBSET (1..n), s # {}
        PROVE  step[Max(s)][h[s \ {Max(s)}]] = h[s \ {Max(s)}] + w[Max(s)]
    <3>1. Max(s) \in 1..n
      BY <1>1, <2>1, MaxWithin
    <3>2. h[s \ {Max(s)}] \in Nat
      OBVIOUS
    <3> HIDE DEF step
    <3> QED
      BY <1>4, <3>1, <3>2
  <2>2. h = [s \in SUBSET (1..n) |->
               IF s = {} THEN 0 ELSE step[Max(s)][h[s \ {Max(s)}]]]
    BY <1>5 DEF FoldsLeft
  <2> HIDE DEF step
  <2>3. h = [s \in SUBSET (1..n) |->
               IF s = {} THEN 0 ELSE h[s \ {Max(s)}] + w[Max(s)]]
    BY <2>1, <2>2
  <2> QED
    BY <1>1, <2>3
<1> HIDE DEF Body
<1>7. iter = Body(iter)
  BY <1>6
<1> HIDE DEF iter
<1>8. iter[1..0] = 0
  <2>1. 1..0 = {} /\ {} \in SUBSET DOMAIN w
    OBVIOUS
  <2> QED
    BY <1>7, <2>1 DEF Body
<1>9. ASSUME NEW k \in 1..n PROVE iter[1..k] = iter[1..k - 1] + w[k]
  <2>1. /\ 1..k \in SUBSET DOMAIN w /\ 1..k # {}
        /\ Max(1..k) = k /\ (1..k) \ {Max(1..k)} = 1..k - 1
    BY <1>1, LastStep
  <2>2. iter[1..k] = iter[(1..k) \ {Max(1..k)}] + w[Max(1..k)]
    BY <1>7, <2>1 DEF Body
  <2> QED
    BY <2>1, <2>2
<1>10. L[0] = 0 /\ L[n] = iter[DOMAIN w]
  BY <1>1, <1>8
<1>11. ASSUME NEW k \in 1..n PROVE L[k] = L[k - 1] + w[k]
  <2>1. k \in 0..n /\ k - 1 \in 0..n
    BY <1>1
  <2> QED
    BY <1>9, <2>1
<1> HIDE DEF L
<1> QED
  BY <1>2, <1>10, <1>11 DEF n

\* What is visible down to a level adds up.
LEMMA VisibleSteps ==
  ASSUME NEW w \in Seq(Size)
  PROVE  /\ Visible(w, 0) = 0
         /\ \A n \in 0..Len(w) : Visible(w, n) \in Nat
         /\ \A n \in 1..Len(w) : Visible(w, n) = Visible(w, n - 1) + w[n]
<1> DEFINE W(n) == SubSeq(w, 1, n)
           Adds(L, n) == L[0] = 0 /\ \A k \in 1..n : L[k] = L[k - 1] + w[k]
<1>0. Len(w) \in Nat /\ \A k \in 1..Len(w) : w[k] \in Nat
  BY DEF Size
<1>1. ASSUME NEW n \in 0..Len(w)
      PROVE  \E L : Adds(L, n) /\ Visible(w, n) = L[n]
  <2>1. W(n) \in Seq(Size) /\ Len(W(n)) = n /\ \A k \in 1..n : W(n)[k] = w[k]
    BY <1>0
  <2> DEFINE v == W(n)
  <2> HIDE DEF v
  <2>2. PICK L : /\ L[0] = 0
                 /\ \A k \in 1..Len(v) : L[k] = L[k - 1] + v[k]
                 /\ Total(v) = L[Len(v)]
    BY <2>1, TotalSteps DEF v
  <2>3. Visible(w, n) = Total(v)
    BY DEF Visible, Total, v
  <2> QED
    BY <2>1, <2>2, <2>3 DEF v
<1> HIDE DEF W
<1>2. ASSUME NEW n \in 0..Len(w), NEW m \in 0..Len(w), n <= m,
             NEW L, Adds(L, n), NEW M, Adds(M, m)
      PROVE  \A k \in 0..n : L[k] = M[k] /\ L[k] \in Nat
  <2> DEFINE S == {k \in Nat : k <= n => L[k] = M[k] /\ L[k] \in Nat}
  <2>1. 0 \in S
    BY <1>2
  <2>2. ASSUME NEW k \in Nat, k \in S PROVE k + 1 \in S
    <3> SUFFICES ASSUME k + 1 <= n PROVE L[k + 1] = M[k + 1] /\ L[k + 1] \in Nat
      OBVIOUS
    <3>1. k + 1 \in 1..n /\ k + 1 \in 1..m /\ k + 1 \in 1..Len(w) /\ (k + 1) - 1 = k /\ k <= n
      BY <1>0, <1>2
    <3>2. L[k + 1] = L[k] + w[k + 1] /\ M[k + 1] = M[k] + w[k + 1]
      BY <1>2, <3>1
    <3>3. L[k] = M[k] /\ L[k] \in Nat /\ w[k + 1] \in Nat
      BY <1>0, <2>2, <3>1
    <3> QED
      BY <3>2, <3>3
  <2> HIDE DEF S
  <2>3. \A k \in Nat : k \in S
    BY <2>1, <2>2, NatSetInduction
  <2> QED
    BY <2>3 DEF S
<1>3. Visible(w, 0) = 0
  <2>1. 0 \in 0..Len(w)
    BY <1>0
  <2> QED
    BY <1>1, <2>1
<1>4. ASSUME NEW n \in 0..Len(w) PROVE Visible(w, n) \in Nat
  <2>1. PICK L : Adds(L, n) /\ Visible(w, n) = L[n]
    BY <1>1
  <2>2. n <= n /\ n \in 0..n
    BY <1>0
  <2> HIDE DEF Adds
  <2> QED
    BY <1>2, <2>1, <2>2
<1>5. ASSUME NEW n \in 1..Len(w) PROVE Visible(w, n) = Visible(w, n - 1) + w[n]
  <2>1. n \in 0..Len(w) /\ n - 1 \in 0..Len(w) /\ n - 1 <= n /\ n - 1 \in 0..n - 1 /\ n \in 1..n
    BY <1>0
  <2>2. PICK L : Adds(L, n) /\ Visible(w, n) = L[n]
    BY <1>1, <2>1
  <2>3. PICK M : Adds(M, n - 1) /\ Visible(w, n - 1) = M[n - 1]
    BY <1>1, <2>1
  <2>4. M[n - 1] = L[n - 1]
    <3> HIDE DEF Adds
    <3> QED
      BY <1>2, <2>1, <2>2, <2>3
  <2>5. L[n] = L[n - 1] + w[n]
    BY <2>1, <2>2
  <2> QED
    BY <2>2, <2>3, <2>4, <2>5
<1> QED
  BY <1>3, <1>4, <1>5


\* A sweep takes one level after the other.
Sweeping == [filled : Nat, used : Nat, rest : Nat]

LEMMA TakeType ==
  ASSUME NEW acc \in Sweeping, NEW offered \in Nat
  PROVE  /\ TakeLevel(acc, offered) \in Sweeping
         /\ acc.rest = 0 => TakeLevel(acc, offered) = acc
         /\ acc.rest # 0 =>
              LET take == IF offered <= acc.rest THEN offered ELSE acc.rest
              IN TakeLevel(acc, offered) =
                   [filled |-> acc.filled + take, used |-> acc.used + 1,
                    rest |-> IF acc.rest - take <= Rounding THEN 0 ELSE acc.rest - take]
<1> DEFINE take == IF offered <= acc.rest THEN offered ELSE acc.rest
           left == acc.rest - take
           next == [filled |-> acc.filled + take, used |-> acc.used + 1,
                    rest |-> IF left <= Rounding THEN 0 ELSE left]
<1>1. acc.filled \in Nat /\ acc.used \in Nat /\ acc.rest \in Nat
  BY DEF Sweeping
<1>2. Min({offered, acc.rest}) = take
  BY <1>1, MinOfPair
<1>3. take \in Nat /\ left \in Nat
  BY <1>1
<1>4. TakeLevel(acc, offered) = IF acc.rest = 0 THEN acc ELSE next
  <2> HIDE DEF take
  <2> QED
    BY <1>2 DEF TakeLevel
<1>5. next \in Sweeping
  <2> HIDE DEF take, left
  <2> QED
    BY <1>1, <1>3 DEF Sweeping
<1> QED
  BY <1>4, <1>5

LEMMA SweepSteps ==
  ASSUME NEW book, book.shown \in [buy : Levels, sell : Levels], NEW order \in Order,
         NEW w, w = Offers(book, order)
  PROVE  \E L : /\ L[0] = Untouched(order)
                /\ \A k \in 1..Len(w) : L[k] = TakeLevel(L[k - 1], w[k])
                /\ Sweep(book, order) = L[Len(w)]
<1> DEFINE n == Len(w)
           base == Untouched(order)
           step == [i \in 1..n |-> [x \in Sweeping |-> TakeLevel(x, w[i])]]
           Body(g) == [s \in SUBSET DOMAIN w |->
                        IF s = {} THEN base
                        ELSE LET x == Max(s) IN TakeLevel(g[s \ {x}], w[x])]
           iter == CHOOSE g : g = Body(g)
           L == [k \in 0..n |-> iter[1..k]]
<1>0. w \in Seq(Size)
  BY OffersType
<1>1. n \in Nat /\ DOMAIN w = 1..n /\ \A i \in 1..n : w[i] \in Nat
  BY <1>0 DEF Size
<1>2. Sweep(book, order) = iter[DOMAIN w]
  BY DEF Sweep, FoldLeft, MapThenFoldSet
<1> HIDE DEF n
<1>3. base \in Sweeping
  BY DepthAssumption DEF Untouched, Sweeping
<1> HIDE DEF base
<1>4. ASSUME NEW i \in 1..n, NEW x \in Sweeping
      PROVE  step[i][x] = TakeLevel(x, w[i]) /\ step[i][x] \in Sweeping
  BY <1>1, TakeType
<1>5. PICK h \in [SUBSET (1..n) -> Sweeping] : FoldsLeft(h, base, step, n)
  <2> HIDE DEF step
  <2> QED
    BY <1>1, <1>3, <1>4, FoldsLeftExist
<1>6. h = Body(h)
  <2>1. ASSUME NEW s \in SUBSET (1..n), s # {}
        PROVE  step[Max(s)][h[s \ {Max(s)}]] = TakeLevel(h[s \ {Max(s)}], w[Max(s)])
    <3>1. Max(s) \in 1..n
      BY <1>1, <2>1, MaxWithin
    <3>2. h[s \ {Max(s)}] \in Sweeping
      OBVIOUS
    <3> HIDE DEF step
    <3> QED
      BY <1>4, <3>1, <3>2
  <2>2. h = [s \in SUBSET (1..n) |->
               IF s = {} THEN base ELSE step[Max(s)][h[s \ {Max(s)}]]]
    BY <1>5 DEF FoldsLeft
  <2> HIDE DEF step
  <2>3. h = [s \in SUBSET (1..n) |->
               IF s = {} THEN base ELSE TakeLevel(h[s \ {Max(s)}], w[Max(s)])]
    BY <2>1, <2>2
  <2> QED
    BY <1>1, <2>3
<1> HIDE DEF Body
<1>7. iter = Body(iter)
  BY <1>6
<1> HIDE DEF iter
<1>8. iter[1..0] = base
  <2>1. 1..0 = {} /\ {} \in SUBSET DOMAIN w
    OBVIOUS
  <2> QED
    BY <1>7, <2>1 DEF Body
<1>9. ASSUME NEW k \in 1..n PROVE iter[1..k] = TakeLevel(iter[1..k - 1], w[k])
  <2>1. /\ 1..k \in SUBSET DOMAIN w /\ 1..k # {}
        /\ Max(1..k) = k /\ (1..k) \ {Max(1..k)} = 1..k - 1
    BY <1>1, LastStep
  <2>2. iter[1..k] = TakeLevel(iter[(1..k) \ {Max(1..k)}], w[Max(1..k)])
    BY <1>7, <2>1 DEF Body
  <2> QED
    BY <2>1, <2>2
<1>10. L[0] = base /\ L[n] = iter[DOMAIN w]
  BY <1>1, <1>8
<1>11. ASSUME NEW k \in 1..n PROVE L[k] = TakeLevel(L[k - 1], w[k])
  <2>1. k \in 0..n /\ k - 1 \in 0..n
    BY <1>1
  <2> QED
    BY <1>9, <2>1
<1> HIDE DEF L
<1> QED
  BY <1>2, <1>10, <1>11 DEF n, base

\* How many levels are enough.
Enough(w, amount) == {n \in DOMAIN w : Visible(w, n) + Rounding >= amount}

\* What a sweep of the levels w must take.
Swept(s, w, amount) ==
  /\ s.used = IF Enough(w, amount) = {} THEN Len(w) ELSE Min(Enough(w, amount))
  /\ s.filled = Min({amount, Visible(w, s.used)})
  /\ s.rest = 0 <=> Enough(w, amount) # {}
  /\ s.rest = IF Enough(w, amount) = {} THEN amount - s.filled ELSE 0

\* Before the level that is enough the request takes all, at it the rest, and
\* after it nothing.
LEMMA TakesLevel ==
  ASSUME NEW V \in Nat, NEW off \in Nat, NEW a \in Nat, NEW used \in Nat, V < a,
         NEW acc, acc = [filled |-> V, used |-> used, rest |-> a - V],
         NEW b, b = TakeLevel(acc, off)
  PROVE  /\ V + off + Rounding < a =>
              b = [filled |-> V + off, used |-> used + 1, rest |-> a - (V + off)]
         /\ V + off + Rounding >= a =>
              b = [filled |-> IF a <= V + off THEN a ELSE V + off, used |-> used + 1,
                   rest |-> 0]
<1> DEFINE take == IF off <= a - V THEN off ELSE a - V
<1>1. Rounding \in Nat
  BY DepthAssumption
<1>2. acc \in Sweeping /\ acc.rest = a - V /\ acc.rest # 0 /\ acc.filled = V /\ acc.used = used
  BY DEF Sweeping
<1>3. b = [filled |-> V + take, used |-> used + 1,
           rest |-> IF a - V - take <= Rounding THEN 0 ELSE a - V - take]
  BY <1>2, TakeType
<1>4. V + off + Rounding < a => take = off /\ a - V - take = a - (V + off) /\ ~(a - V - take <= Rounding)
  BY <1>1
<1>5. V + off + Rounding >= a =>
        a - V - take <= Rounding /\ V + take = IF a <= V + off THEN a ELSE V + off
  BY <1>1
<1> HIDE DEF take
<1> QED
  BY <1>3, <1>4, <1>5

LEMMA SweepTakes ==
  ASSUME NEW book, book.shown \in [buy : Levels, sell : Levels], NEW order \in Order,
         NEW w, w = Offers(book, order), NEW s, s = Sweep(book, order)
  PROVE  Swept(s, w, order.amount)
<1> DEFINE a == order.amount
           n == Len(w)
           V(k) == Visible(w, k)
           E == Enough(w, a)
           e == IF E = {} THEN n + 1 ELSE Min(E)
           full == IF a <= V(e) THEN a ELSE V(e)
<1>0. w \in Seq(Size) /\ n \in Nat /\ DOMAIN w = 1..n /\ \A k \in 1..n : w[k] \in Nat
  <2>1. w \in Seq(Size)
    BY OffersType
  <2> QED
    BY <2>1 DEF Size
<1>1. a \in Nat /\ a > 0 /\ Rounding \in Nat
  BY DepthAssumption
<1>2. /\ V(0) = 0 /\ \A k \in 0..n : V(k) \in Nat
      /\ \A k \in 1..n : V(k) = V(k - 1) + w[k]
  BY <1>0, VisibleSteps
<1>3. PICK L : /\ L[0] = Untouched(order)
               /\ \A k \in 1..n : L[k] = TakeLevel(L[k - 1], w[k])
               /\ s = L[n]
  BY SweepSteps
<1>4. E = {k \in 1..n : V(k) + Rounding >= a}
  BY <1>0 DEF Enough
<1> HIDE DEF a, n, V, E
<1>5. E # {} => Min(E) \in E /\ \A y \in E : Min(E) <= y
  <2>1. E \in SUBSET (1..n) /\ E \subseteq Int
    BY <1>4
  <2>2. IsFiniteSet(1..n)
    BY <1>0, FS_Interval
  <2>3. IsFiniteSet(E)
    BY <2>1, <2>2, FS_Subset
  <2> QED
    BY <2>1, <2>3, MinWithin
<1>6. /\ e \in 1..n + 1 /\ (e <= n <=> E # {})
      /\ \A k \in 1..n : k < e => V(k) + Rounding < a
      /\ e <= n => V(e) + Rounding >= a
  <2>1. CASE E = {}
    <3>1. ASSUME NEW k \in 1..n PROVE ~(V(k) + Rounding >= a) /\ V(k) \in Nat
      <4>1. k \in 0..n
        BY <1>0
      <4>2. V(k) \in Nat
        BY <1>2, <4>1
      <4> QED
        BY <1>4, <2>1, <4>2
    <3> QED
      BY <1>0, <1>1, <2>1, <3>1
  <2>2. CASE E # {}
    <3>1. e \in E /\ (\A y \in E : e <= y) /\ e \in 1..n /\ V(e) + Rounding >= a
      BY <1>4, <1>5, <2>2
    <3> HIDE DEF e
    <3>2. ASSUME NEW k \in 1..n, k < e PROVE V(k) + Rounding < a
      <4>1. k \notin E
        BY <1>0, <3>1, <3>2
      <4>2. ~(V(k) + Rounding >= a) /\ V(k) \in Nat
        BY <1>0, <1>2, <1>4, <4>1
      <4> QED
        BY <1>1, <4>2
    <3> QED
      BY <1>0, <2>2, <3>1, <3>2
  <2> QED
    BY <2>1, <2>2
<1>7. /\ E = {} => e = n + 1
      /\ E # {} => e = Min(E)
  OBVIOUS
<1> HIDE DEF e
<1> DEFINE Fine(k) ==
      /\ k < e => V(k) < a /\ L[k] = [filled |-> V(k), used |-> k, rest |-> a - V(k)]
      /\ k >= e => L[k] = [filled |-> full, used |-> e, rest |-> 0]
           S == {k \in Nat : k <= n => Fine(k)}
<1>8. 0 \in S
  <2>1. L[0] = [filled |-> V(0), used |-> 0, rest |-> a - V(0)]
    BY <1>1, <1>2, <1>3 DEF Untouched, a
  <2>2. V(0) < a /\ 0 < e
    BY <1>0, <1>1, <1>2, <1>6
  <2>3. Fine(0)
    <3> HIDE DEF full
    <3> QED
      BY <1>0, <1>6, <2>1, <2>2
  <2> HIDE DEF Fine
  <2> QED
    BY <2>3
<1>9. ASSUME NEW k \in Nat, k \in S PROVE k + 1 \in S
  <2> SUFFICES ASSUME k + 1 <= n PROVE Fine(k + 1)
    <3> HIDE DEF Fine
    <3> QED
      OBVIOUS
  <2>1. Fine(k)
    <3>1. k <= n
      BY <1>0
    <3> HIDE DEF Fine
    <3> QED
      BY <1>9, <3>1
  <2>2. /\ k + 1 \in 1..n /\ (k + 1) - 1 = k /\ k \in 0..n /\ k + 1 \in 0..n
        /\ e \in Nat /\ w[k + 1] \in Nat
    BY <1>0, <1>6
  <2>3. /\ L[k + 1] = TakeLevel(L[k], w[k + 1]) /\ V(k + 1) = V(k) + w[k + 1]
        /\ V(k) \in Nat /\ V(k + 1) \in Nat
    BY <1>2, <1>3, <2>2
  <2> HIDE DEF full
  <2>4. CASE k + 1 < e
    <3>1. k < e /\ ~(k + 1 >= e)
      BY <2>2, <2>4
    <3>2. V(k) < a /\ L[k] = [filled |-> V(k), used |-> k, rest |-> a - V(k)]
      BY <2>1, <3>1
    <3>3. V(k + 1) + Rounding < a /\ V(k + 1) < a
      BY <1>1, <1>6, <2>2, <2>3, <2>4
    <3>4. V(k) + w[k + 1] + Rounding < a
      BY <2>3, <3>3
    <3>5. L[k + 1] = [filled |-> V(k) + w[k + 1], used |-> k + 1,
                      rest |-> a - (V(k) + w[k + 1])]
      BY <1>1, <2>2, <2>3, <3>2, <3>4, TakesLevel
    <3> QED
      BY <2>3, <3>1, <3>3, <3>5
  <2>5. CASE k + 1 = e
    <3>1. k < e /\ ~(k + 1 < e) /\ e <= n
      BY <2>2, <2>5
    <3>2. V(k) < a /\ L[k] = [filled |-> V(k), used |-> k, rest |-> a - V(k)]
      BY <2>1, <3>1
    <3>3. V(k) + w[k + 1] + Rounding >= a
      BY <1>6, <2>3, <2>5, <3>1
    <3>4. L[k + 1] = [filled |-> IF a <= V(k) + w[k + 1] THEN a ELSE V(k) + w[k + 1],
                      used |-> k + 1, rest |-> 0]
      BY <1>1, <2>2, <2>3, <3>2, <3>3, TakesLevel
    <3>5. full = IF a <= V(k) + w[k + 1] THEN a ELSE V(k) + w[k + 1]
      BY <2>3, <2>5 DEF full
    <3> QED
      BY <2>5, <3>1, <3>4, <3>5
  <2>6. CASE k + 1 > e
    <3>1. k >= e /\ ~(k + 1 < e)
      BY <2>2, <2>6
    <3>2. L[k] = [filled |-> full, used |-> e, rest |-> 0]
      BY <2>1, <3>1
    <3>3. full \in Nat /\ e \in Nat
      <4>1. e \in 0..n
        BY <1>0, <2>2, <3>1
      <4>2. V(e) \in Nat
        BY <1>2, <4>1
      <4> QED
        BY <1>1, <2>2, <4>2 DEF full
    <3>4. L[k] \in Sweeping /\ L[k].rest = 0
      BY <3>2, <3>3 DEF Sweeping
    <3>5. L[k + 1] = L[k]
      BY <2>2, <2>3, <3>4, TakeType
    <3> QED
      BY <3>1, <3>2, <3>5
  <2> HIDE DEF Fine
  <2> QED
    BY <2>2, <2>4, <2>5, <2>6
<1> HIDE DEF S
<1>10. \A k \in Nat : k \in S
  BY <1>8, <1>9, NatSetInduction
<1>11. Fine(n)
  <2> HIDE DEF Fine
  <2> QED
    BY <1>0, <1>10 DEF S
<1>12. CASE E = {}
  <2>1. n < e /\ e = n + 1
    BY <1>0, <1>7, <1>12
  <2>2. V(n) < a /\ s = [filled |-> V(n), used |-> n, rest |-> a - V(n)] /\ V(n) \in Nat
    <3>1. n \in 0..n
      BY <1>0
    <3> QED
      BY <1>2, <1>3, <1>11, <2>1, <3>1
  <2>3. Min({a, V(n)}) = V(n)
    BY <1>1, <2>2, MinOfPair
  <2>4. s.rest # 0
    BY <1>1, <2>2
  <2>5. s.used = n /\ s.filled = V(n) /\ s.rest = a - V(n)
    BY <2>2
  <2> QED
    BY <1>12, <2>3, <2>4, <2>5 DEF Swept, a, n, V, E
<1>13. CASE E # {}
  <2>1. n >= e /\ e = Min(E) /\ e \in 0..n
    BY <1>0, <1>6, <1>7, <1>13
  <2>2. s = [filled |-> full, used |-> e, rest |-> 0]
    BY <1>3, <1>11, <2>1
  <2>3. Min({a, V(e)}) = full
    BY <1>1, <1>2, <2>1, MinOfPair
  <2>4. s.used = e /\ s.filled = Min({a, V(e)}) /\ s.rest = 0
    BY <2>2, <2>3
  <2>5. /\ s.used = Min(E) /\ s.filled = Min({a, V(s.used)}) /\ s.rest = 0
    BY <2>1, <2>4
  <2> HIDE DEF full
  <2> QED
    BY <1>13, <2>5 DEF Swept, a, n, V, E
<1> QED
  BY <1>12, <1>13


-----------------------------------------------------------------------------
(* The invariant of a replay *)

Loaded(a) == FoldLeft(LoadRecord, Nothing, a).books

\* The outcomes are those of what was recorded at the time of the replay.
Replayed ==
  \/ replayed = 0 /\ outcomes = {}
  \/ \E m \in 1..Len(archive) :
       /\ replayed = archive[m].ordinal
       /\ outcomes = Outcomes(Loaded(SubSeq(archive, 1, m)))

ReplayInv == Recorded(archive) /\ Replayed

LEMMA RecordFollows ==
  ASSUME NEW last, last.ordinal \in Nat, last.connection \in Nat, last.at \in Int,
         NEW kind \in Kind, NEW event \in Event, NEW shown \in Depth \cup {NoDepth},
         NEW r, r = [ordinal |-> last.ordinal + IF event = "lost" THEN 2 ELSE 1,
                     connection |-> last.connection + IF event = "reconnect" THEN 1 ELSE 0,
                     at |-> last.at + Clock(event),
                     kind |-> kind,
                     shown |-> shown,
                     gap |-> event \in {"reconnect", "dropped"},
                     regressed |-> event = "regression"]
  PROVE  r \in Envelope /\ Follows(last, r)
<1>1. shown \in [buy : Levels, sell : Levels]
  <2>1. NoDepth \in [buy : Levels, sell : Levels]
    BY DEF NoDepth, Levels
  <2> QED
    BY <2>1, DepthAssumption
<1>2. Clock(event) \in Int /\ (event # "regression" => Clock(event) \in Nat)
  BY LapseSize DEF Clock
<1> DEFINE up == IF event = "lost" THEN 2 ELSE 1
           more == IF event = "reconnect" THEN 1 ELSE 0
           at == last.at + Clock(event)
<1>3. /\ last.ordinal + up \in Nat \ {0} /\ last.connection + more \in Nat /\ at \in Int
      /\ up \in {1, 2} /\ (event # "reconnect" => last.connection + more = last.connection)
      /\ (event # "regression" => at >= last.at)
  BY <1>2
<1>4. /\ r = [ordinal |-> last.ordinal + up, connection |-> last.connection + more,
              at |-> at, kind |-> kind, shown |-> shown,
              gap |-> event \in {"reconnect", "dropped"}, regressed |-> event = "regression"]
  OBVIOUS
<1> DEFINE gap == event \in {"reconnect", "dropped"}
           regressed == event = "regression"
<1>5. gap \in BOOLEAN /\ regressed \in BOOLEAN /\ (event = "reconnect" => gap)
      /\ (event = "regression" <=> regressed)
  OBVIOUS
<1>6. r = [ordinal |-> last.ordinal + up, connection |-> last.connection + more,
           at |-> at, kind |-> kind, shown |-> shown, gap |-> gap, regressed |-> regressed]
  BY <1>4
<1>7. last.ordinal + up \in Nat /\ last.connection + more \in Nat /\ at \in Int
  BY <1>3
<1> HIDE DEF up, more, at, gap, regressed
<1>8. r \in Envelope
  <2> DEFINE n == last.ordinal + up
             c == last.connection + more
  <2>1. n \in Nat /\ c \in Nat /\ at \in Int /\ kind \in Kind /\ gap \in BOOLEAN
        /\ regressed \in BOOLEAN /\ shown \in [buy : Levels, sell : Levels]
    BY <1>1, <1>5, <1>7
  <2>2. r = [ordinal |-> n, connection |-> c, at |-> at, kind |-> kind, shown |-> shown,
             gap |-> gap, regressed |-> regressed]
    BY <1>6
  <2> HIDE DEF n, c
  <2> QED
    BY <2>1, <2>2 DEF Envelope
<1>9. Follows(last, r)
  BY <1>3, <1>5, <1>6 DEF Follows
<1> QED
  BY <1>8, <1>9

LEMMA RecordedGrows ==
  ASSUME NEW a, Recorded(a), NEW r \in Envelope, Len(a) > 0 => Follows(a[Len(a)], r)
  PROVE  /\ Recorded(Append(a, r))
         /\ \A m \in 1..Len(a) : /\ m \in 1..Len(Append(a, r)) /\ Append(a, r)[m] = a[m]
                                 /\ SubSeq(Append(a, r), 1, m) = SubSeq(a, 1, m)
<1> DEFINE b == Append(a, r)
           n == Len(a)
<1>1. /\ a \in Seq(Envelope) /\ n \in Nat /\ b \in Seq(Envelope) /\ Len(b) = n + 1
      /\ b[n + 1] = r /\ \A i \in 1..n : b[i] = a[i]
  BY DEF Recorded
<1>0. \A i \in 1..n : i > 1 => Follows(a[i - 1], a[i])
  BY DEF Recorded
<1>5. n > 0 => Follows(a[n], r)
  OBVIOUS
<1> HIDE DEF b, n
<1>2. ASSUME NEW i \in 1..Len(b), i > 1 PROVE Follows(b[i - 1], b[i])
  <2>0. i - 1 \in 1..n /\ b[i - 1] = a[i - 1]
    <3>1. i - 1 \in 1..n
      BY <1>1, <1>2
    <3> QED
      BY <1>1, <3>1
  <2>1. CASE i = n + 1
    <3>1. i - 1 = n /\ n > 0 /\ b[i] = r
      BY <1>1, <2>0, <2>1
    <3> QED
      BY <1>5, <2>0, <3>1
  <2>2. CASE i # n + 1
    <3>1. i \in 1..n
      BY <1>1, <2>2
    <3>2. b[i] = a[i] /\ Follows(a[i - 1], a[i])
      BY <1>0, <1>1, <1>2, <3>1
    <3> QED
      BY <2>0, <3>2
  <2> QED
    BY <2>1, <2>2
<1>3. Recorded(b)
  BY <1>1, <1>2 DEF Recorded
<1>4. ASSUME NEW m \in 1..n
      PROVE  m \in 1..Len(b) /\ b[m] = a[m] /\ SubSeq(b, 1, m) = SubSeq(a, 1, m)
  <2>1. m \in 1..Len(b) /\ b[m] = a[m] /\ m \in Nat
    BY <1>1
  <2>2. \A i \in 1..m : b[i] = a[i]
    BY <1>1
  <2>3. /\ SubSeq(b, 1, m) = [i \in 1..m |-> b[i]]
        /\ SubSeq(a, 1, m) = [i \in 1..m |-> a[i]]
    BY <1>1, <2>1
  <2> QED
    BY <2>1, <2>2, <2>3
<1> QED
  BY <1>3, <1>4 DEF b, n

LEMMA RecordKeeps ==
  ASSUME ReplayInv, RecordEvent
  PROVE  ReplayInv'
<1> DEFINE last == IF archive = <<>> THEN [ordinal |-> 0, connection |-> 1, at |-> 0]
                   ELSE Last(archive)
<1>1. PICK r : /\ r \in Envelope /\ Follows(last, r)
               /\ archive' = Append(archive, r)
               /\ replayed' = replayed /\ outcomes' = outcomes
  <2>1. PICK kind \in Kind, event \in Event, shown \in Depth \cup {NoDepth} :
          archive' = Append(archive,
               [ordinal |-> last.ordinal + IF event = "lost" THEN 2 ELSE 1,
                connection |-> last.connection + IF event = "reconnect" THEN 1 ELSE 0,
                at |-> last.at + Clock(event),
                kind |-> kind,
                shown |-> shown,
                gap |-> event \in {"reconnect", "dropped"},
                regressed |-> event = "regression"])
    BY DEF RecordEvent
  <2>2. last.ordinal \in Nat /\ last.connection \in Nat /\ last.at \in Int
    <3>1. CASE archive = <<>>
      BY <3>1
    <3>2. CASE archive # <<>>
      <4>1. Len(archive) \in 1..Len(archive)
        BY <3>2 DEF ReplayInv, Recorded
      <4>2. last = archive[Len(archive)]
        BY <3>2 DEF Last
      <4> HIDE DEF last
      <4> QED
        BY <4>1, <4>2, Kinds DEF ReplayInv
    <3> QED
      BY <3>1, <3>2
  <2>3. replayed' = replayed /\ outcomes' = outcomes
    BY DEF RecordEvent
  <2> HIDE DEF last
  <2> QED
    BY <2>1, <2>2, <2>3, RecordFollows
<1>2. Len(archive) > 0 => Follows(archive[Len(archive)], r)
  <2>1. Len(archive) > 0 => last = archive[Len(archive)]
    BY DEF ReplayInv, Recorded, Last
  <2> HIDE DEF last
  <2> QED
    BY <1>1, <2>1
<1> HIDE DEF last
<1>3. /\ Recorded(archive')
      /\ \A m \in 1..Len(archive) : /\ m \in 1..Len(archive') /\ archive'[m] = archive[m]
                                    /\ SubSeq(archive', 1, m) = SubSeq(archive, 1, m)
  BY <1>1, <1>2, RecordedGrows DEF ReplayInv
<1>4. Replayed'
  <2>1. CASE replayed = 0 /\ outcomes = {}
    BY <1>1, <2>1 DEF Replayed
  <2>2. CASE \E m \in 1..Len(archive) :
               /\ replayed = archive[m].ordinal
               /\ outcomes = Outcomes(Loaded(SubSeq(archive, 1, m)))
    <3>1. PICK m \in 1..Len(archive) :
            /\ replayed = archive[m].ordinal
            /\ outcomes = Outcomes(Loaded(SubSeq(archive, 1, m)))
      BY <2>2
    <3>2. /\ m \in 1..Len(archive') /\ archive'[m] = archive[m]
          /\ SubSeq(archive', 1, m) = SubSeq(archive, 1, m)
      BY <1>3
    <3>3. /\ replayed' = archive'[m].ordinal
          /\ outcomes' = Outcomes(Loaded(SubSeq(archive', 1, m)))
      BY <1>1, <3>1, <3>2
    <3> QED
      BY <3>2, <3>3 DEF Replayed
  <2> QED
    BY <2>1, <2>2 DEF ReplayInv, Replayed
<1> QED
  BY <1>3, <1>4 DEF ReplayInv

LEMMA ReplayKeeps ==
  ASSUME ReplayInv, Replay
  PROVE  ReplayInv'
<1>1. /\ archive' = archive /\ archive # <<>> /\ replayed' = Last(archive).ordinal
      /\ Recorded(archive)
  BY DEF Replay, ReplayInv
<1>2. PICK file \in {archive, Reverse(archive) \o archive} : outcomes' = Outcomes(Books(file))
  BY DEF Replay
<1>3. Books(file) = Loaded(archive)
  <2>1. InOrdinalOrder(file) = archive
    BY <1>1, FilesRange, TakenInOrder
  <2> QED
    BY <2>1 DEF Books, Loaded
<1>4. outcomes' = Outcomes(Loaded(archive))
  BY <1>2, <1>3 DEF Outcomes
<1> DEFINE m == Len(archive)
<1>5. m \in 1..Len(archive) /\ SubSeq(archive, 1, m) = archive
  BY <1>1 DEF Recorded
<1>6. replayed' = archive[m].ordinal
  BY <1>1 DEF Last
<1>7. Replayed'
  <2> HIDE DEF m
  <2>1. /\ m \in 1..Len(archive') /\ replayed' = archive'[m].ordinal
        /\ outcomes' = Outcomes(Loaded(SubSeq(archive', 1, m)))
    BY <1>1, <1>4, <1>5, <1>6
  <2> QED
    BY <2>1 DEF Replayed
<1> QED
  BY <1>1, <1>7 DEF ReplayInv

\* What is replayed was recorded.
THEOREM ReplayInvariant == ReplaySpec => []ReplayInv
<1>1. ReplayInit => ReplayInv
  BY DEF ReplayInit, ReplayInv, Recorded, Replayed
<1>2. ReplayInv /\ [ReplayNext]_replayVars => ReplayInv'
  <2> SUFFICES ASSUME ReplayInv, [ReplayNext]_replayVars PROVE ReplayInv'
    OBVIOUS
  <2>1. CASE RecordEvent
    BY <2>1, RecordKeeps
  <2>2. CASE Replay
    BY <2>2, ReplayKeeps
  <2>3. CASE UNCHANGED replayVars
    BY <2>3 DEF ReplayInv, Replayed, replayVars
  <2> QED
    BY <2>1, <2>2, <2>3 DEF ReplayNext
<1> QED
  BY <1>1, <1>2, PTL DEF ReplaySpec

\* Where the outcomes come from.
LEMMA OutcomesFrom ==
  ASSUME ReplayInv, NEW o \in outcomes
  PROVE  \E m \in 1..Len(archive) : \E p, books :
           /\ replayed = archive[m].ordinal /\ Holds(p, books, archive, m)
           /\ \E i \in 1..Len(books) : \E order \in Order : o = Outcome(books, i, order)
<1>1. PICK m \in 1..Len(archive) :
        /\ replayed = archive[m].ordinal
        /\ outcomes = Outcomes(Loaded(SubSeq(archive, 1, m)))
  BY DEF ReplayInv, Replayed
<1> DEFINE a == SubSeq(archive, 1, m)
           books == Loaded(a)
<1>2. Recorded(archive)
  BY DEF ReplayInv
<1>3. Recorded(a) /\ Len(a) = m
  <2>1. archive \in Seq(Envelope) /\ m \in Nat /\ m <= Len(archive) /\ Len(archive) \in Nat
    BY <1>2 DEF Recorded
  <2>2. a \in Seq(Envelope) /\ Len(a) = m /\ \A i \in 1..m : a[i] = archive[i]
    BY <2>1
  <2> HIDE DEF a
  <2>3. ASSUME NEW i \in 1..Len(a), i > 1 PROVE Follows(a[i - 1], a[i])
    <3>1. i \in 1..m /\ i - 1 \in 1..m /\ i \in 1..Len(archive)
      BY <2>1, <2>2, <2>3
    <3>2. Follows(archive[i - 1], archive[i])
      BY <1>2, <2>3, <3>1 DEF Recorded
    <3> QED
      BY <2>2, <3>1, <3>2
  <2> QED
    BY <2>2, <2>3 DEF Recorded
<1> HIDE DEF a
<1>4. PICK p : Holds(p, books, a, m)
  BY <1>3, BooksHold DEF Loaded
<1> HIDE DEF books
<1>5. Holds(p, books, archive, m)
  BY <1>2, <1>4, HoldsLonger DEF a
<1>6. \E i \in 1..Len(books) : \E order \in Order : o = Outcome(books, i, order)
  <2>1. books \in Seq(Envelope)
    BY <1>5 DEF Holds
  <2>2. o \in Outcomes(books)
    BY <1>1 DEF books, a
  <2>3. \E i \in DOMAIN books : \E order \in Order : o = Outcome(books, i, order)
    BY <2>2 DEF Outcomes
  <2>4. DOMAIN books = 1..Len(books)
    BY <2>1
  <2> QED
    BY <2>3, <2>4
<1> QED
  BY <1>1, <1>5, <1>6

\* An order fills at the first book at or after its due time that the archive
\* leads up to without a gap, for any archive, depth and orders, and however the
\* archive grows after the replay.
THEOREM OrdersMeetFirstBook == ReplaySpec => []SettledAtFirstBook
<1>1. ReplayInv => SettledAtFirstBook
  <2> SUFFICES ASSUME ReplayInv, NEW o \in outcomes PROVE Settled(o, replayed)
    BY DEF SettledAtFirstBook, Settled
  <2>1. PICK m \in 1..Len(archive) : \E p, books :
           /\ replayed = archive[m].ordinal /\ Holds(p, books, archive, m)
           /\ \E i \in 1..Len(books) : \E order \in Order : o = Outcome(books, i, order)
    BY OutcomesFrom
  <2>2. PICK p, books :
           /\ replayed = archive[m].ordinal /\ Holds(p, books, archive, m)
           /\ \E i \in 1..Len(books) : \E order \in Order : o = Outcome(books, i, order)
    BY <2>1
  <2>3. PICK i \in 1..Len(books), order \in Order : o = Outcome(books, i, order)
    BY <2>2
  <2> QED
    BY <2>2, <2>3, OutcomeSettled DEF ReplayInv
<1> QED
  BY <1>1, ReplayInvariant, PTL

\* A sweep fills what is asked or what is visible, level by level, for any depth
\* and any orders.
THEOREM SweepsFitDepth == ReplaySpec => []SweepWithinDepth
<1>1. ReplayInv => SweepWithinDepth
  <2> SUFFICES ASSUME ReplayInv, NEW o \in outcomes, o.chosen # 0
               PROVE  LET offers == Offers(RecordOf(o.chosen), o.order)
                          enough == Enough(offers, o.order.amount)
                      IN /\ o.used = IF enough = {} THEN Len(offers) ELSE Min(enough)
                         /\ o.filled = Min({o.order.amount, Visible(offers, o.used)})
                         /\ (o.status = "filled") <=> (enough # {})
                         /\ o.rest = IF enough = {} THEN o.order.amount - o.filled ELSE 0
    BY DEF SweepWithinDepth, Enough
  <2>1. PICK m \in 1..Len(archive) : \E p, books :
           /\ replayed = archive[m].ordinal /\ Holds(p, books, archive, m)
           /\ \E i \in 1..Len(books) : \E order \in Order : o = Outcome(books, i, order)
    BY OutcomesFrom
  <2>2. PICK p, books :
           /\ replayed = archive[m].ordinal /\ Holds(p, books, archive, m)
           /\ \E i \in 1..Len(books) : \E order \in Order : o = Outcome(books, i, order)
    BY <2>1
  <2>3. PICK i \in 1..Len(books), order \in Order : o = Outcome(books, i, order)
    BY <2>2
  <2> DEFINE due == books[i].at + order.latency
             k == Candidate(books, i, due)
             e == RunEnd(books, i)
             w == Offers(books[k], order)
             s == Sweep(books[k], order)
  <2>4. Recorded(archive)
    BY DEF ReplayInv
  <2>5. /\ Len(p) = Len(books) /\ Len(p) \in Nat /\ books \in Seq(Envelope)
        /\ \A j \in 1..Len(p) : p[j] \in 1..Len(archive)
        /\ \A j \in 1..Len(p) : Copies(books[j], archive[p[j]])
    BY <2>2, <2>4, HoldsFacts
  <2>6. due \in Int
    <3>1. books[i].at \in Int /\ order.latency \in Nat
      BY <2>5, BookTimes, DepthAssumption
    <3> QED
      BY <3>1
  <2>7. /\ o.order = order
        /\ o.chosen = IF k < e THEN books[k].ordinal ELSE 0
        /\ k < e => /\ o.filled = s.filled /\ o.used = s.used /\ o.rest = s.rest
                    /\ ~(k >= e) => o.status = IF s.rest = 0 THEN "filled" ELSE "partial"
    <3> HIDE DEF due, k, e
    <3>1. due = books[i].at + order.latency /\ k = Candidate(books, i, due)
          /\ e = RunEnd(books, i)
      BY DEF due, k, e
    <3> QED
      BY <2>3, <3>1, OutcomeFields
  <2>8. e \in i + 1..Len(books) + 1
    <3> HIDE DEF e
    <3> QED
      BY <2>5, RunBounds DEF e
  <2>9. k \in Nat /\ k >= i
    <3> HIDE DEF due, k
    <3> QED
      BY <2>5, <2>6, CandidateIs DEF k
  <2> HIDE DEF due, k, e, s
  <2>10. k < e /\ ~(k >= e) /\ k \in 1..Len(books)
    BY <2>5, <2>7, <2>8, <2>9
  <2>11. /\ Copies(books[k], archive[p[k]]) /\ p[k] \in 1..Len(archive)
    BY <2>5, <2>10
  <2>12. Offers(RecordOf(o.chosen), o.order) = w
    <3>1. o.chosen = archive[p[k]].ordinal /\ books[k].shown = archive[p[k]].shown
      BY <2>7, <2>10, <2>11 DEF Copies
    <3>2. RecordOf(o.chosen) = archive[p[k]]
      BY <2>4, <2>11, <3>1, RecordIs
    <3> QED
      BY <2>7, <3>1, <3>2 DEF Offers
  <2> HIDE DEF w
  <2>13. Swept(s, w, order.amount)
    <3>1. books[k] \in Envelope
      BY <2>5, <2>10
    <3>2. books[k].shown \in [buy : Levels, sell : Levels]
      BY <3>1 DEF Envelope
    <3> QED
      BY <3>2, SweepTakes DEF s, w
  <2>14. /\ o.used = s.used /\ o.filled = s.filled /\ o.rest = s.rest
         /\ o.status = "filled" <=> s.rest = 0
    BY <2>7, <2>10
  <2> QED
    BY <2>7, <2>12, <2>13, <2>14 DEF Swept
<1> QED
  BY <1>1, ReplayInvariant, PTL

=============================================================================
