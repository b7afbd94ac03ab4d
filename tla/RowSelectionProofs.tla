-------------------------- MODULE RowSelectionProofs --------------------------
(***************************************************************************)
(* What holds of the row operators for every size of step and batch, and   *)
(* the lemmas on numbers and on parts of sequences that the proofs about   *)
(* the collector, the trainer and the turns rest on.                       *)
(***************************************************************************)
EXTENDS RowSelection, Subsequences, FiniteSetTheorems, SequenceTheorems,
        WellFoundedInduction, TLAPS

-----------------------------------------------------------------------------
(* Numbers *)

\* A set of numbers that is not empty has a least one.
LEMMA LeastNumber ==
  ASSUME NEW T \in SUBSET Nat, T # {}
  PROVE  \E m \in T : \A n \in T : m <= n
<1>. DEFINE R == {ss \in Nat \X Nat : ss[1] < ss[2]}
<1>1. IsWellFoundedOn(R, Nat)
  BY NatLessThanWellFounded DEF OpToRel
<1>2. PICK m \in T : \A n \in T : ~ (<<n, m>> \in R)
  <2>. HIDE DEF R
  <2>. QED
    BY <1>1, WFMin
<1>3. \A n \in T : ~ (n < m)
  BY <1>2
<1>. QED
  BY <1>3

\* Induction over a set: one that has 0 and with n also n + 1 has them all.
LEMMA Induction ==
  ASSUME NEW T, 0 \in T, \A n \in Nat : n \in T => n + 1 \in T
  PROVE  \A n \in Nat : n \in T
<1>1. SUFFICES ASSUME NEW x \in Nat, x \notin T PROVE FALSE
  OBVIOUS
<1>2. PICK m \in Nat \ T : \A n \in Nat \ T : m <= n
  BY <1>1, LeastNumber
<1>3. m # 0 /\ m - 1 \in Nat /\ m - 1 \in T
  BY <1>2
<1>. QED
  BY <1>2, <1>3

\* f starts with base and goes on as the steps say.
Unfolds(f, base, step, n) == f[0] = base /\ \A i \in 1..n : f[i] = step[i][f[i - 1]]

\* A recursion over 0..N that starts in S and whose steps stay in S has a
\* solution.
LEMMA RecursionExists ==
  ASSUME NEW S, NEW base \in S, NEW N \in Nat, NEW step \in [1..N -> [S -> S]]
  PROVE  \E f \in [0..N -> S] : Unfolds(f, base, step, N)
<1>. DEFINE Solves(f, n) == Unfolds(f, base, step, n)
            T == {n \in Nat : n <= N => \E f \in [0..n -> S] : Solves(f, n)}
<1>. USE DEF Unfolds
<1>1. 0 \in T
  <2>. DEFINE f == [i \in 0..0 |-> base]
  <2>1. f \in [0..0 -> S] /\ Solves(f, 0)
    OBVIOUS
  <2>. QED
    BY <2>1
<1>2. ASSUME NEW n \in Nat, n \in T PROVE n + 1 \in T
  <2>1. SUFFICES ASSUME n + 1 <= N
                 PROVE  \E g \in [0..(n + 1) -> S] : Solves(g, n + 1)
    OBVIOUS
  <2>2. PICK f \in [0..n -> S] : Solves(f, n)
    BY <1>2, <2>1
  <2>. DEFINE g == [i \in 0..(n + 1) |-> IF i <= n THEN f[i] ELSE step[n + 1][f[n]]]
  <2>3. step[n + 1] \in [S -> S] /\ f[n] \in S
    BY <2>1
  <2>4. step[n + 1][f[n]] \in S
    BY <2>3
  <2>5. g \in [0..(n + 1) -> S]
    BY <2>4
  <2>6. ASSUME NEW i \in 1..(n + 1) PROVE g[i] = step[i][g[i - 1]]
    <3>1. CASE i = n + 1
      BY <3>1
    <3>2. CASE i \in 1..n
      BY <2>2, <3>2
    <3>. QED
      BY <3>1, <3>2
  <2>7. Solves(g, n + 1)
    BY <2>2, <2>6
  <2>. QED
    BY <2>5, <2>7
<1>3. N \in T
  <2>. HIDE DEF T
  <2>. QED
    BY <1>1, <1>2, Induction
<1>. QED
  BY <1>3

\* The part of a number below a multiple determines the multiple.
LEMMA BlockUnique ==
    ASSUME NEW size \in Nat, NEW p \in Nat, NEW q \in Nat,
           NEW a \in 0..(size - 1), NEW b \in 0..(size - 1),
           p * size + a = q * size + b
    PROVE  p = q /\ a = b
<1>1. ~ (p < q)
  <2>1. SUFFICES ASSUME p < q PROVE FALSE
        OBVIOUS
  <2>2. PICK d \in Nat : q = p + 1 + d
        <3>1. q - p - 1 \in Nat /\ q = p + 1 + (q - p - 1)
              BY <2>1
        <3> QED BY <3>1
  <2>3. q * size = p * size + size + d * size
        BY <2>2
  <2>4. d * size >= 0 /\ d * size \in Int /\ p * size \in Int
        OBVIOUS
  <2> QED BY <2>3, <2>4
<1>2. ~ (q < p)
  <2>1. SUFFICES ASSUME q < p PROVE FALSE
        OBVIOUS
  <2>2. PICK d \in Nat : p = q + 1 + d
        <3>1. p - q - 1 \in Nat /\ p = q + 1 + (p - q - 1)
              BY <2>1
        <3> QED BY <3>1
  <2>3. p * size = q * size + size + d * size
        BY <2>2
  <2>4. d * size >= 0 /\ d * size \in Int /\ q * size \in Int
        OBVIOUS
  <2> QED BY <2>3, <2>4
<1>3. p = q
      BY <1>1, <1>2
<1> QED BY <1>3

\* The quotient of a multiple and something less.
LEMMA QuotientOf ==
    ASSUME NEW x \in Nat, NEW size \in Nat, size > 0, NEW p \in Nat,
           NEW a \in 0..(size - 1), x = p * size + a
    PROVE  x \div size = p
<1>1. PICK q \in Int : q = x \div size
      OBVIOUS
<1>2. x = q * size + (x % size) /\ x % size \in 0..(size - 1)
      BY <1>1
<1>3. q \in Nat
  <2>1. SUFFICES ASSUME q <= -1 PROVE FALSE
        OBVIOUS
  <2>2. q * size <= -size
        BY <2>1
  <2> QED BY <1>2, <2>2
<1>4. p * size + a = q * size + (x % size)
      BY <1>2
<1>5. p = q
      BY <1>2, <1>3, <1>4, BlockUnique
<1> QED BY <1>1, <1>5

\* Quotient and remainder, and that there are no others.
LEMMA QuotientRemainder ==
  ASSUME NEW x \in Nat, NEW size \in Nat, size > 0
  PROVE  /\ \E p \in Nat, a \in 0..(size - 1) :
               x = p * size + a /\ x \div size = p /\ x % size = a
         /\ \A p \in Nat, a \in 0..(size - 1) :
               x = p * size + a => x \div size = p /\ x % size = a
<1>1. PICK q \in Int : q = x \div size
  OBVIOUS
<1>2. x = q * size + (x % size) /\ x % size \in 0..(size - 1)
  BY <1>1
<1>3. q \in Nat
  <2>1. SUFFICES ASSUME q <= -1 PROVE FALSE
    OBVIOUS
  <2>2. q * size <= -size
    BY <2>1
  <2>. QED
    BY <1>2, <2>2
<1>4. ASSUME NEW p \in Nat, NEW a \in 0..(size - 1), x = p * size + a
      PROVE  x \div size = p /\ x % size = a
  <2>1. p * size + a = q * size + (x % size)
    BY <1>2, <1>4
  <2>2. p = q /\ a = x % size
    BY <1>2, <1>3, <2>1, BlockUnique
  <2>. QED
    BY <1>1, <2>2
<1>. QED
  BY <1>1, <1>2, <1>3, <1>4

\* The multiples of a number.
LEMMA MultipleOf ==
  ASSUME NEW x \in Int, NEW m \in Nat, m > 0
  PROVE  x % m = 0 <=> \E q \in Int : x = q * m
<1>1. PICK q \in Int : q = x \div m
  OBVIOUS
<1>2. x = q * m + (x % m)
  BY <1>1
<1>3. ASSUME x % m = 0 PROVE \E p \in Int : x = p * m
  <2>1. x = q * m
    BY <1>2, <1>3
  <2>. QED
    BY <2>1
<1>4. ASSUME NEW p \in Int, x = p * m PROVE x % m = 0
  BY <1>4
<1>. QED
  BY <1>3, <1>4

-----------------------------------------------------------------------------
(* Parts of sequences *)

\* Places are numbered from 1 and grow with the numbers.
LEMMA Places ==
  ASSUME NEW S \in SUBSET Int, IsFiniteSet(S)
  PROVE  /\ \A i \in S : PlaceIn(S, i) \in 1..Cardinality(S)
         /\ \A i, j \in S : i < j => PlaceIn(S, i) < PlaceIn(S, j)
<1>. DEFINE upTo(i) == {j \in S : j <= i}
<1>1. Cardinality(S) \in Nat
  BY FS_CardinalityType
<1>2. ASSUME NEW i \in S
      PROVE  /\ IsFiniteSet(upTo(i)) /\ Cardinality(upTo(i)) \in Nat
             /\ Cardinality(upTo(i)) <= Cardinality(S)
             /\ Cardinality(upTo(i)) # 0
  <2>1. upTo(i) \in SUBSET S /\ i \in upTo(i)
    OBVIOUS
  <2>. QED
    BY <2>1, FS_Subset, FS_CardinalityType, FS_EmptySet
<1>3. ASSUME NEW i \in S, NEW j \in S, i < j
      PROVE  Cardinality(upTo(i)) < Cardinality(upTo(j))
  <2>0. \A x \in S : x \in Int
    OBVIOUS
  <2>1. upTo(i) \in SUBSET upTo(j)
    <3>1. ASSUME NEW x \in S, x <= i PROVE x <= j
      BY <1>3, <2>0, <3>1
    <3>. QED
      BY <3>1
  <2>3. j \in upTo(j) /\ j \notin upTo(i)
    BY <1>3, <2>0
  <2>2. Cardinality(upTo(i)) <= Cardinality(upTo(j))
        /\ Cardinality(upTo(i)) # Cardinality(upTo(j))
    <3>. HIDE DEF upTo
    <3>. QED
      BY <1>2, <2>1, <2>3, FS_Subset
  <2>. QED
    BY <1>2, <2>2
<1>. QED
  BY <1>1, <1>2, <1>3 DEF PlaceIn

\* Every place is somebody's.
LEMMA EveryPlace ==
  ASSUME NEW S \in SUBSET Int, IsFiniteSet(S), NEW k \in 1..Cardinality(S)
  PROVE  \E i \in S : PlaceIn(S, i) = k
<1>. DEFINE N == Cardinality(S)
            place == [i \in S |-> PlaceIn(S, i)]
<1>1. N \in Nat /\ IsFiniteSet(1..N) /\ Cardinality(1..N) = N
  BY FS_CardinalityType, FS_Interval
<1>2. place \in [S -> 1..N]
  BY Places
<1>3. ASSUME NEW i \in S, NEW j \in S, place[i] = place[j]
      PROVE  i = j
  <2>1. ~ (i < j) /\ ~ (j < i)
    <3>1. PlaceIn(S, i) = PlaceIn(S, j) /\ PlaceIn(S, i) \in Int
      BY <1>3, Places
    <3>. QED
      BY <3>1, Places
  <2>. QED
    BY <2>1
<1>. HIDE DEF N, place
<1>4. place \in Injection(S, 1..N)
  BY <1>2, <1>3 DEF Injection, IsInjective
<1>5. place \in Surjection(S, 1..N)
  BY <1>1, <1>4, FS_Injection DEF N
<1>6. PICK i \in S : place[i] = k
  BY <1>5 DEF Surjection, N
<1>. QED
  BY <1>6 DEF place

\* Ascending(S) lists S, each number once, the smaller ones first.
LEMMA AscendingLists ==
  ASSUME NEW S \in SUBSET Int, IsFiniteSet(S)
  PROVE  /\ Ascending(S) \in [1..Cardinality(S) -> S]
         /\ Cardinality(S) \in Nat
         /\ \A k, l \in 1..Cardinality(S) :
               k < l => Ascending(S)[k] < Ascending(S)[l]
         /\ \A i \in S : /\ PlaceIn(S, i) \in 1..Cardinality(S)
                         /\ Ascending(S)[PlaceIn(S, i)] = i
<1>. DEFINE N == Cardinality(S)
            A == Ascending(S)
<1>0. \A i \in S : i \in Int
  OBVIOUS
<1>1. N \in Nat
  BY FS_CardinalityType
<1>2. ASSUME NEW k \in 1..N
      PROVE  A[k] \in S /\ PlaceIn(S, A[k]) = k
  <2>1. \E i \in S : PlaceIn(S, i) = k
    BY EveryPlace
  <2>2. A[k] = CHOOSE i \in S : PlaceIn(S, i) = k
    BY DEF Ascending
  <2>. QED
    BY <2>1, <2>2
<1>3. A \in [1..N -> S]
  BY <1>2 DEF Ascending
<1>. HIDE DEF A, N
<1>4. ASSUME NEW i \in S, NEW j \in S, PlaceIn(S, i) <= PlaceIn(S, j)
      PROVE  i <= j
  <2>1. SUFFICES ASSUME j < i PROVE FALSE
    OBVIOUS
  <2>2. PlaceIn(S, j) < PlaceIn(S, i) /\ PlaceIn(S, i) \in Int /\ PlaceIn(S, j) \in Int
    BY <2>1, Places
  <2>. QED
    BY <1>4, <2>2
<1>5. ASSUME NEW k \in 1..N, NEW l \in 1..N, k < l
      PROVE  A[k] < A[l]
  <2>1. A[k] \in S /\ A[l] \in S /\ PlaceIn(S, A[k]) = k /\ PlaceIn(S, A[l]) = l
    BY <1>2
  <2>2. k \in Int /\ l \in Int
    BY <1>1
  <2>4. A[k] \in Int
    BY <1>0, <2>1
  <2>5. A[l] \in Int
    BY <1>0, <2>1
  <2>3. A[k] <= A[l] /\ A[k] # A[l]
    BY <1>4, <1>5, <2>1, <2>2, <2>4, <2>5
  <2>. QED
    BY <2>3, <2>4, <2>5
<1>6. ASSUME NEW i \in S
      PROVE  PlaceIn(S, i) \in 1..N /\ A[PlaceIn(S, i)] = i
  <2>1. PlaceIn(S, i) \in 1..N
    BY Places DEF N
  <2>2. A[PlaceIn(S, i)] \in S /\ PlaceIn(S, A[PlaceIn(S, i)]) = PlaceIn(S, i)
    BY <1>2, <2>1
  <2>. DEFINE p == PlaceIn(S, i)
  <2>. HIDE DEF p
  <2>3. A[p] \in Int /\ i \in Int
    BY <1>0, <2>2 DEF p
  <2>6. PlaceIn(S, A[p]) = p /\ PlaceIn(S, i) = p /\ p <= p /\ A[p] \in S
    <3>1. p \in Int
      BY <1>1, <2>1 DEF p
    <3>. QED
      BY <2>2, <3>1 DEF p
  <2>4. A[p] <= i /\ i <= A[p]
    BY <1>4, <2>6
  <2>5. A[p] = i
    BY <2>3, <2>4
  <2>. QED
    BY <2>1, <2>5 DEF p
<1>. QED
  BY <1>1, <1>3, <1>5, <1>6 DEF A, N

\* The part of a sequence at some places has as many elements as there are
\* places, and they are the elements that stand there.
LEMMA PickedElements ==
  ASSUME NEW T, NEW seq \in Seq(T), NEW S \in SUBSET (1..Len(seq))
  PROVE  /\ IsFiniteSet(S)
         /\ Picked(seq, S) \in Seq(T)
         /\ Len(Picked(seq, S)) = Cardinality(S)
         /\ \A k \in 1..Len(Picked(seq, S)) : \E i \in S : Picked(seq, S)[k] = seq[i]
         /\ \A i \in S : \E k \in 1..Len(Picked(seq, S)) : Picked(seq, S)[k] = seq[i]
<1>. DEFINE N == Cardinality(S)
            A == Ascending(S)
            P == Picked(seq, S)
<1>1. IsFiniteSet(S)
  <2>1. IsFiniteSet(1..Len(seq))
    BY FS_Interval
  <2>. QED
    BY <2>1, FS_Subset, Zenon
<1>2. S \in SUBSET Int
  <2>1. \A i \in S : i \in Int
    OBVIOUS
  <2>. QED
    BY <2>1
<1>3. /\ A \in [1..N -> S] /\ N \in Nat
      /\ \A i \in S : PlaceIn(S, i) \in 1..N /\ A[PlaceIn(S, i)] = i
  BY <1>1, <1>2, AscendingLists
<1>4. P = [k \in 1..N |-> seq[A[k]]]
  BY DEF Picked
<1>. HIDE DEF N, A, P
<1>5. ASSUME NEW k \in 1..N
      PROVE  A[k] \in S /\ P[k] = seq[A[k]] /\ seq[A[k]] \in T
  <2>1. A[k] \in S
    BY <1>3
  <2>2. \A i \in S : seq[i] \in T
    OBVIOUS
  <2>. QED
    BY <1>4, <2>1, <2>2
<1>6. P \in Seq(T) /\ Len(P) = N
  BY <1>3, <1>4, <1>5
<1>7. \A k \in 1..N : \E i \in S : P[k] = seq[i]
  BY <1>5
<1>8. \A i \in S : \E k \in 1..N : P[k] = seq[i]
  BY <1>3, <1>5
<1>. QED
  BY <1>1, <1>6, <1>7, <1>8 DEF N, P

\* T lists the numbers of S in ascending order.
ListsUp(T, S) ==
    /\ T \in Seq(S)
    /\ \A k, l \in 1..Len(T) : k < l => T[k] < T[l]
    /\ \A i \in S : \E k \in 1..Len(T) : T[k] = i

\* There is one ascending list of a set of numbers.
LEMMA AscendingUnique ==
  ASSUME NEW S \in SUBSET Int, IsFiniteSet(S), NEW T, ListsUp(T, S)
  PROVE  T = Ascending(S)
<1>. DEFINE N == Len(T)
<1>1. N \in Nat /\ DOMAIN T = 1..N /\ T \in [1..N -> S]
  BY DEF ListsUp
<1>2. /\ \A k, l \in 1..N : k < l => T[k] < T[l]
      /\ \A i \in S : \E k \in 1..N : T[k] = i
  BY DEF ListsUp
<1>. HIDE DEF N
<1>3. \A k \in 1..N : T[k] \in S /\ T[k] \in Int
  BY <1>1
<1>4. \A k, l \in 1..N : T[k] <= T[l] <=> k <= l
  BY <1>2, <1>3
<1>5. ASSUME NEW n \in 0..N, NEW R, R = {T[k] : k \in 1..n}
      PROVE  Cardinality(R) = n
  <2>. DEFINE f == [k \in 1..n |-> T[k]]
  <2>1. f \in Bijection(1..n, R)
    <3>1. f \in [1..n -> R]
      BY <1>5
    <3>2. \A k, l \in 1..n : f[k] = f[l] => k = l
      <4>1. ASSUME NEW k \in 1..n, NEW l \in 1..n, f[k] = f[l] PROVE k = l
        <5>1. k \in 1..N /\ l \in 1..N /\ T[k] = T[l]
          BY <1>1, <4>1
        <5>2. T[k] <= T[l] /\ T[l] <= T[k]
          BY <1>3, <5>1
        <5>. QED
          BY <1>4, <5>1, <5>2
      <4>. QED
        BY <4>1
    <3>3. \A r \in R : \E k \in 1..n : f[k] = r
      BY <1>5
    <3>. HIDE DEF f
    <3>. QED
      BY <3>1, <3>2, <3>3 DEF Bijection, Injection, Surjection, IsInjective
  <2>2. IsFiniteSet(1..n) /\ Cardinality(1..n) = n
    <3>1. n \in Nat
      BY <1>1
    <3>. QED
      BY <3>1, FS_Interval
  <2>3. ExistsBijection(1..n, R)
    BY <2>1, Zenon DEF ExistsBijection
  <2>4. Cardinality(R) = Cardinality(1..n)
    BY <2>2, <2>3, FS_Bijection, Zenon
  <2>. QED
    BY <2>2, <2>4
<1>6. ASSUME NEW k \in 1..N PROVE PlaceIn(S, T[k]) = k
  <2>1. {j \in S : j <= T[k]} = {T[l] : l \in 1..k}
    <3>1. ASSUME NEW j \in S, j <= T[k] PROVE \E l \in 1..k : j = T[l]
      <4>1. PICK l \in 1..N : T[l] = j
        BY <1>2
      <4>2. l <= k
        BY <1>4, <3>1, <4>1
      <4>. QED
        BY <1>1, <4>1, <4>2
    <3>2. ASSUME NEW l \in 1..k PROVE T[l] \in S /\ T[l] <= T[k]
      <4>1. l \in 1..N
        BY <1>1
      <4>. QED
        BY <1>3, <1>4, <4>1
    <3>. QED
      BY <3>1, <3>2
  <2>2. k \in 0..N
    BY <1>1
  <2>. QED
    BY <1>5, <2>1, <2>2 DEF PlaceIn
<1>7. Cardinality(S) = N
  <2>1. S = {T[k] : k \in 1..N}
    BY <1>2, <1>3
  <2>2. N \in 0..N
    BY <1>1
  <2>. QED
    BY <1>5, <2>1, <2>2
<1>8. \A k \in 1..N : Ascending(S)[k] = T[k]
  <2>1. \A i \in S : Ascending(S)[PlaceIn(S, i)] = i
    BY AscendingLists
  <2>. QED
    BY <1>3, <1>6, <2>1
<1>9. Ascending(S) \in [1..N -> S]
  BY <1>7, AscendingLists
<1>. QED
  BY <1>1, <1>8, <1>9

\* The elements at some places of an ascending list are an ascending list.
LEMMA PickedAscending ==
  ASSUME NEW S \in SUBSET Int, IsFiniteSet(S), NEW K \in SUBSET (1..Cardinality(S)),
         NEW R, R = {Ascending(S)[k] : k \in K}
  PROVE  Picked(Ascending(S), K) = Ascending(R)
<1>. DEFINE A == Ascending(S)
            N == Cardinality(S)
            B == Ascending(K)
            M == Cardinality(K)
            P == Picked(A, K)
<1>1. /\ A \in [1..N -> S] /\ N \in Nat
      /\ \A k, l \in 1..N : k < l => A[k] < A[l]
  BY AscendingLists
<1>2. K \in SUBSET Int /\ IsFiniteSet(K)
  <2>1. IsFiniteSet(1..N)
    BY <1>1, FS_Interval
  <2>2. K \in SUBSET (1..N)
    OBVIOUS
  <2>. HIDE DEF N
  <2>3. IsFiniteSet(K)
    BY <2>1, <2>2, FS_Subset, Zenon
  <2>4. \A i \in K : i \in Int
    BY <1>1, <2>2
  <2>5. K \in SUBSET Int
    BY <2>4
  <2>. QED
    BY <2>3, <2>5
<1>3. /\ B \in [1..M -> K] /\ M \in Nat
      /\ \A k, l \in 1..M : k < l => B[k] < B[l]
      /\ \A i \in K : PlaceIn(K, i) \in 1..M /\ B[PlaceIn(K, i)] = i
  BY <1>2, AscendingLists
<1>4. P = [k \in 1..M |-> A[B[k]]]
  BY DEF Picked
<1>5. K \in SUBSET (1..N) /\ R = {A[k] : k \in K}
  OBVIOUS
<1>. HIDE DEF A, N, B, M, P
<1>6. R \in SUBSET Int /\ IsFiniteSet(R)
  <2>1. R \in SUBSET S
    BY <1>1, <1>5
  <2>. QED
    BY <2>1, FS_Subset
<1>7. ListsUp(P, R)
  <2>1. ASSUME NEW k \in 1..M PROVE B[k] \in K /\ P[k] = A[B[k]] /\ P[k] \in R
    BY <1>3, <1>4, <1>5
  <2>2. P \in Seq(R) /\ Len(P) = M
    BY <1>3, <1>4, <2>1
  <2>3. ASSUME NEW k \in 1..M, NEW l \in 1..M, k < l PROVE P[k] < P[l]
    <3>1. B[k] \in 1..N /\ B[l] \in 1..N /\ B[k] < B[l]
      BY <1>3, <1>5, <2>1, <2>3
    <3>. QED
      BY <1>1, <2>1, <3>1
  <2>4. ASSUME NEW i \in R PROVE \E k \in 1..M : P[k] = i
    <3>1. PICK j \in K : i = A[j]
      BY <1>5
    <3>2. PlaceIn(K, j) \in 1..M /\ B[PlaceIn(K, j)] = j
      BY <1>3
    <3>. QED
      BY <2>1, <3>1, <3>2
  <2>. QED
    BY <2>2, <2>3, <2>4 DEF ListsUp
<1>8. P = Ascending(R)
  BY <1>6, <1>7, AscendingUnique
<1>. QED
  BY <1>8 DEF P, A

\* The numbers up to n in ascending order.
LEMMA AscendingOfAll ==
  ASSUME NEW n \in Nat
  PROVE  /\ Cardinality(1..n) = n
         /\ \A k \in 1..n : Ascending(1..n)[k] = k
<1>. PICK S : S = 1..n
  OBVIOUS
<1>1. S \in SUBSET Int /\ IsFiniteSet(S) /\ Cardinality(S) = n
  BY FS_Interval
<1>2. ASSUME NEW k \in 1..n PROVE PlaceIn(S, k) = k
  <2>1. {j \in S : j <= k} = 1..k
    OBVIOUS
  <2>2. Cardinality(1..k) = k
    BY FS_Interval
  <2>. QED
    BY <2>1, <2>2 DEF PlaceIn
<1>3. \A k \in S : Ascending(S)[PlaceIn(S, k)] = k
  BY <1>1, AscendingLists
<1>. QED
  BY <1>1, <1>2, <1>3

-----------------------------------------------------------------------------
(* Rows *)

\* No two attempts of a run get the same row number
\* (onpolicy_collector.py:476-480).
THEOREM RowNumbersDistinct ==
    ASSUME NEW batchSize \in Nat, NEW attempts \in Nat,
           NEW s1 \in Nat, NEW s2 \in Nat,
           NEW p1 \in 0..(batchSize - 1), NEW p2 \in 0..(batchSize - 1),
           NEW a1 \in 0..(attempts - 1), NEW a2 \in 0..(attempts - 1),
           RowStepIndex(s1, p1, a1, batchSize, attempts)
             = RowStepIndex(s2, p2, a2, batchSize, attempts)
    PROVE  s1 = s2 /\ p1 = p2 /\ a1 = a2
<1> DEFINE t1 == s1 * batchSize + p1
           t2 == s2 * batchSize + p2
<1>1. t1 \in Nat /\ t2 \in Nat
  <2>1. s1 * batchSize \in Nat /\ s2 * batchSize \in Nat
        OBVIOUS
  <2> QED BY <2>1
<1>2. RowStepIndex(s1, p1, a1, batchSize, attempts) = t1 * attempts + a1
      BY DEF RowStepIndex
<1>3. RowStepIndex(s2, p2, a2, batchSize, attempts) = t2 * attempts + a2
      BY DEF RowStepIndex
<1>4. t1 * attempts + a1 = t2 * attempts + a2
      BY <1>2, <1>3
<1> HIDE DEF t1, t2
<1>5. t1 = t2 /\ a1 = a2
      BY <1>1, <1>4, BlockUnique
<1>6. s1 * batchSize + p1 = s2 * batchSize + p2
      BY <1>5 DEF t1, t2
<1>7. s1 = s2 /\ p1 = p2
      BY <1>6, BlockUnique
<1> QED BY <1>5, <1>7

\* The batch size is a multiple of what the workers need, never more than
\* there are rows, and exists whenever the rows reach the minimum: the skip
\* for "batch constraints" after the check of the minimum cannot be taken
\* (rft_runtime_loop.py:1077-1099, 2690-2728).
THEOREM BatchSizeFits ==
    ASSUME NEW requested \in Nat, NEW count \in Nat, NEW divisor \in Nat,
           divisor > 0
    PROVE  LET size == EffectiveTrainBatchSize(requested, count, divisor)
           IN  /\ size \in Nat
               /\ size % divisor = 0
               /\ size <= count
               /\ count >= divisor => size >= divisor
<1> DEFINE larger == IF requested >= divisor THEN requested ELSE divisor
           most == IF larger <= count THEN larger ELSE count
           size == EffectiveTrainBatchSize(requested, count, divisor)
<1>1. CASE count < divisor
      BY <1>1 DEF EffectiveTrainBatchSize
<1>2. CASE count >= divisor
  <2>1. most \in Nat /\ most >= divisor /\ most <= count
        BY <1>2
  <2>2. size = (most \div divisor) * divisor
        BY <1>2 DEF EffectiveTrainBatchSize
  <2> HIDE DEF most, larger, size
  <2>3. PICK k \in Int : k = most \div divisor
        BY <2>1
  <2>4. /\ most = k * divisor + (most % divisor)
        /\ most % divisor \in 0..(divisor - 1)
        BY <2>1, <2>3
  <2>5. k >= 1
    <3>1. SUFFICES ASSUME k <= 0 PROVE FALSE
          OBVIOUS
    <3>2. k * divisor <= 0
          BY <3>1
    <3> QED BY <2>1, <2>4, <3>2
  <2>6. k * divisor \in Nat /\ k * divisor >= divisor /\ k * divisor <= most
    <3>1. PICK j \in Nat : k = 1 + j
          <4>1. k - 1 \in Nat /\ k = 1 + (k - 1)
                BY <2>5
          <4> QED BY <4>1
    <3>2. k * divisor = divisor + j * divisor
          BY <3>1
    <3>3. j * divisor \in Nat
          OBVIOUS
    <3> QED BY <2>1, <2>4, <3>2, <3>3
  <2>7. (k * divisor) % divisor = 0
        BY <2>5
  <2> QED BY <2>1, <2>2, <2>3, <2>6, <2>7 DEF size
<1> QED BY <1>1, <1>2

\* Upsampling fills the last batch and repeats less than one batch of rows.
THEOREM UpsampleFills ==
    ASSUME NEW count \in Nat, NEW batchSize \in Nat, batchSize > 0
    PROVE  /\ UpsampleNeeded(count, batchSize) \in 0..(batchSize - 1)
           /\ (count + UpsampleNeeded(count, batchSize)) % batchSize = 0
<1>1. PICK q \in Int : q = count \div batchSize
      OBVIOUS
<1>2. /\ count = q * batchSize + (count % batchSize)
      /\ count % batchSize \in 0..(batchSize - 1)
      BY <1>1
<1>3. CASE count % batchSize = 0
      BY <1>3 DEF UpsampleNeeded
<1>4. CASE count % batchSize # 0
  <2>1. UpsampleNeeded(count, batchSize) = batchSize - (count % batchSize)
        BY <1>4 DEF UpsampleNeeded
  <2>2. count + UpsampleNeeded(count, batchSize) = (q + 1) * batchSize
        BY <1>2, <2>1
  <2>3. ((q + 1) * batchSize) % batchSize = 0
        OBVIOUS
  <2> QED BY <1>2, <1>4, <2>1, <2>2, <2>3
<1> QED BY <1>3, <1>4

\* Every row given to the trainer is one of the selected rows.
LEMMA UpsampleElements ==
    ASSUME NEW S, NEW seq \in Seq(S), Len(seq) > 0,
           NEW batchSize \in Nat, batchSize > 0
    PROVE  Upsample(seq, batchSize) \in Seq(S)
<1> DEFINE n == Len(seq)
           m == n + UpsampleNeeded(n, batchSize)
<1>1. n \in Nat /\ m \in Nat
  <2>1. n \in Nat
        OBVIOUS
  <2> HIDE DEF n
  <2>2. UpsampleNeeded(n, batchSize) \in 0..(batchSize - 1)
        BY <2>1, UpsampleFills
  <2> QED BY <2>1, <2>2
<1>2. ASSUME NEW i \in 1..m
      PROVE  (IF i <= n THEN seq[i] ELSE seq[((i - n - 1) % n) + 1]) \in S
  <2>1. CASE i <= n
        BY <2>1
  <2>2. CASE i > n
    <3>1. (i - n - 1) % n \in 0..(n - 1)
          BY <1>1, <2>2
    <3> QED BY <1>1, <2>2, <3>1
  <2> QED BY <1>1, <2>1, <2>2
<1>3. Upsample(seq, batchSize) \in [1..m -> S]
      BY <1>2 DEF Upsample
<1> QED BY <1>1, <1>3

\* The rows come first, in their order; the batch is filled; rows that differ
\* are repeated at most once, as no more are asked for than there are.
LEMMA UpsampleWhole ==
  ASSUME NEW S, NEW seq \in Seq(S), Len(seq) > 0,
         NEW batchSize \in Nat, batchSize > 0, batchSize <= Len(seq)
  PROVE  LET rows == Upsample(seq, batchSize)
         IN  /\ rows \in Seq(S)
             /\ Len(rows) >= Len(seq)
             /\ Len(rows) % batchSize = 0
             /\ \A i \in 1..Len(seq) : rows[i] = seq[i]
             /\ \A i \in 1..Len(rows) : i > Len(seq) =>
                   i - Len(seq) \in 1..Len(seq) /\ rows[i] = seq[i - Len(seq)]
<1>. DEFINE n    == Len(seq)
            more == UpsampleNeeded(n, batchSize)
            rows == Upsample(seq, batchSize)
<1>1. n \in Nat /\ more \in 0..(batchSize - 1) /\ (n + more) % batchSize = 0
  <2>1. n \in Nat
    OBVIOUS
  <2>. HIDE DEF n
  <2>. QED
    BY <2>1, UpsampleFills
<1>2. rows \in Seq(S)
  BY UpsampleElements
<1>3. rows = [i \in 1..(n + more) |->
                IF i <= n THEN seq[i] ELSE seq[((i - n - 1) % n) + 1]]
  BY DEF Upsample
<1>. HIDE DEF n, more, rows
<1>4. Len(rows) = n + more
  BY <1>1, <1>3
<1>5. ASSUME NEW i \in 1..Len(rows), i > n
      PROVE  i - n \in 1..n /\ rows[i] = seq[i - n]
  <2>1. i \in 1..(n + more) /\ more < n
    BY <1>1, <1>4 DEF n
  <2>2. i - n \in 1..n /\ (i - n - 1) % n = i - n - 1
    BY <1>1, <1>5, <2>1
  <2>. QED
    BY <1>1, <1>3, <1>5, <2>1, <2>2
<1>6. \A i \in 1..n : rows[i] = seq[i]
  BY <1>1, <1>3
<1>7. Len(rows) >= n /\ Len(rows) % batchSize = 0
  BY <1>1, <1>4
<1>. QED
  BY <1>2, <1>5, <1>6, <1>7 DEF n, rows

\* Two elements, or one, are at most two.
LEMMA PairSize ==
  ASSUME NEW a, NEW b
  PROVE  IsFiniteSet({a} \cup {b}) /\ Cardinality({a} \cup {b}) <= 2
<1>1. IsFiniteSet({a}) /\ Cardinality({a}) = 1
  BY FS_Singleton, Zenon
<1>2. /\ IsFiniteSet({a} \cup {b})
      /\ Cardinality({a} \cup {b})
           = IF b \in {a} THEN Cardinality({a}) ELSE Cardinality({a}) + 1
  BY <1>1, FS_AddElement, Zenon
<1>. DEFINE size == Cardinality({a} \cup {b})
<1>3. size = 1 \/ size = 1 + 1
  BY <1>1, <1>2, Zenon
<1>. HIDE DEF size
<1>4. size <= 2
  BY <1>3
<1>. QED
  BY <1>2, <1>4 DEF size

\* A sequence of distinct rows gives each of them at most two places.
LEMMA UpsampleAtMostTwice ==
  ASSUME NEW S, NEW seq \in Seq(S), Len(seq) > 0,
         \A i, j \in 1..Len(seq) : seq[i] = seq[j] => i = j,
         NEW batchSize \in Nat, batchSize > 0, batchSize <= Len(seq),
         NEW i \in 1..Len(Upsample(seq, batchSize))
  PROVE  Cardinality({j \in 1..Len(Upsample(seq, batchSize)) :
             Upsample(seq, batchSize)[j] = Upsample(seq, batchSize)[i]}) <= 2
<1>. DEFINE rows  == Upsample(seq, batchSize)
            first == IF i <= Len(seq) THEN i ELSE i - Len(seq)
            same  == {j \in 1..Len(rows) : rows[j] = rows[i]}
            two   == {first} \cup {first + Len(seq)}
<1>1. /\ Len(seq) \in Nat /\ Len(rows) \in Nat
      /\ \A j \in 1..Len(seq) : rows[j] = seq[j]
      /\ \A j \in 1..Len(rows) : j > Len(seq) =>
            j - Len(seq) \in 1..Len(seq) /\ rows[j] = seq[j - Len(seq)]
  BY UpsampleWhole
<1>. HIDE DEF rows
<1>2. first \in 1..Len(seq) /\ rows[i] = seq[first]
  BY <1>1 DEF rows
<1>3. ASSUME NEW j \in same PROVE j \in two
  <2>. HIDE DEF first
  <2>1. CASE j <= Len(seq)
    <3>1. seq[j] = seq[first] /\ j \in 1..Len(seq)
      BY <1>1, <1>2, <2>1
    <3>. QED
      BY <1>2, <3>1
  <2>2. CASE j > Len(seq)
    <3>1. seq[j - Len(seq)] = seq[first] /\ j - Len(seq) \in 1..Len(seq)
      BY <1>1, <1>2, <2>2
    <3>2. j - Len(seq) = first
      BY <1>2, <3>1
    <3>3. j = first + Len(seq)
      BY <1>1, <1>2, <3>2
    <3>. QED
      BY <3>3
  <2>. QED
    BY <1>1, <2>1, <2>2
<1>4. IsFiniteSet(two) /\ Cardinality(two) <= 2
  <2>. DEFINE second == first + Len(seq)
  <2>. HIDE DEF first, second
  <2>1. IsFiniteSet({first} \cup {second}) /\ Cardinality({first} \cup {second}) <= 2
    BY PairSize, Zenon
  <2>. QED
    BY <2>1, Zenon DEF second
<1>5. Cardinality(same) <= Cardinality(two)
  <2>1. same \in SUBSET two
    BY <1>3
  <2>. HIDE DEF same, two
  <2>. QED
    BY <1>4, <2>1, FS_Subset
<1>6. Cardinality(same) \in Int /\ Cardinality(two) \in Int
  <2>1. same \in SUBSET two
    BY <1>3
  <2>. HIDE DEF same, two
  <2>. QED
    BY <1>4, <2>1, FS_Subset, FS_CardinalityType
<1>7. Cardinality(same) <= 2
  <2>. HIDE DEF same, two
  <2>. QED
    BY <1>4, <1>5, <1>6
<1>. QED
  BY <1>7 DEF rows

\* Rows repeated up to whole batches, of a size that is itself a multiple of
\* the divisor, are a multiple of the divisor.
LEMMA UpsampleDivides ==
  ASSUME NEW S, NEW seq \in Seq(S), Len(seq) > 0,
         NEW divisor \in Nat, divisor > 0,
         NEW size \in Nat, size > 0, size <= Len(seq), size % divisor = 0
  PROVE  /\ Upsample(seq, size) \in Seq(S)
         /\ Len(Upsample(seq, size)) >= Len(seq)
         /\ Len(Upsample(seq, size)) % divisor = 0
<1>. DEFINE n == Len(Upsample(seq, size))
<1>1. Upsample(seq, size) \in Seq(S) /\ n >= Len(seq) /\ n % size = 0
  BY UpsampleWhole
<1>2. n \in Int /\ size \in Int
  BY <1>1
<1>. HIDE DEF n
<1>3. PICK p \in Int : n = p * size
  BY <1>1, <1>2, MultipleOf, Zenon
<1>4. PICK q \in Int : size = q * divisor
  BY <1>2, MultipleOf, Zenon
<1>5. n = (p * q) * divisor /\ p * q \in Int
  BY <1>3, <1>4
<1>6. n % divisor = 0
  BY <1>2, <1>5, MultipleOf
<1>. QED
  BY <1>1, <1>6 DEF n

\* A row that positive_rft accepts is resolved, was made in a container that
\* was set up, and no part of the machinery failed it.
THEOREM PositiveAcceptsResolved ==
    ASSUME NEW row, Accepted(row, StagePolicy("positive_rft"))
    PROVE  row.resolved /\ row.initialized /\ ~row.infraInvalid
BY DEF Accepted, RejectionReasons, StagePolicy
=============================================================================
