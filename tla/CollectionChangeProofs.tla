----------------------- MODULE CollectionChangeProofs -----------------------
(***************************************************************************)
(* Theorems about the change sets of CollectionChange.                      *)
(***************************************************************************)
EXTENDS CollectionChange, FiniteSetTheorems, WellFoundedInduction, TLAPS

(***************************************************************************)
(* Natural numbers: the least element, and iteration.                       *)
(***************************************************************************)

\* Every non-empty set of natural numbers has a least element.
LEMMA LeastNat ==
  ASSUME NEW T \in SUBSET Nat, T # {}
  PROVE  \E n \in T : \A m \in T : n <= m
<1> DEFINE R == {e \in Nat \X Nat : e[1] < e[2]}
<1>1. IsWellFoundedOn(R, Nat)
  BY NatLessThanWellFounded, Zenon DEF OpToRel
<1>2. T \subseteq Nat
  OBVIOUS
<1>3. PICK n \in T : \A m \in T : <<m, n>> \notin R
  <2> HIDE DEF R
  <2> QED BY <1>1, <1>2, WFMin
<1>4. ASSUME NEW m \in T PROVE n <= m
  <2>1. <<m, n>> \in Nat \X Nat
    OBVIOUS
  <2>2. ~ m < n
    BY <1>3, <2>1
  <2> QED BY <2>2
<1> QED BY <1>4

\* Induction over a set: one that has 0 and with each number the next has all.
LEMMA SetInduction ==
  ASSUME NEW T \in SUBSET Nat, 0 \in T, \A n \in T : n + 1 \in T
  PROVE  \A n \in Nat : n \in T
<1> SUFFICES ASSUME Nat \ T # {} PROVE FALSE
  OBVIOUS
<1>1. PICK n \in Nat \ T : \A m \in Nat \ T : n <= m
  BY LeastNat
<1>2. n - 1 \in Nat /\ n - 1 \in T
  BY <1>1
<1> QED BY <1>1, <1>2

IsIteration(f, base, G, N) ==
  /\ f[0] = base
  /\ \A n \in 1 .. N : f[n] = G[<<f[n - 1], n>>]

\* A recursive function over 0 .. N, by its step G, exists.
LEMMA Iteration ==
  ASSUME NEW S, NEW base \in S, NEW G \in [S \X Nat -> S], NEW N \in Nat
  PROVE  \E f \in [0 .. N -> S] : IsIteration(f, base, G, N)
<1> DEFINE Is(f, n) == /\ f[0] = base
                       /\ \A m \in 1 .. n : f[m] = G[<<f[m - 1], m>>]
           T == {n \in Nat : \E f \in [0 .. n -> S] : Is(f, n)}
<1>1. 0 \in T
  <2>1. [k \in 0 .. 0 |-> base] \in [0 .. 0 -> S] /\ Is([k \in 0 .. 0 |-> base], 0)
    OBVIOUS
  <2> QED BY <2>1
<1>2. ASSUME NEW n \in T PROVE n + 1 \in T
  <2>1. PICK f \in [0 .. n -> S] : Is(f, n)
    OBVIOUS
  <2> DEFINE g == [k \in 0 .. n + 1 |-> IF k = n + 1 THEN G[<<f[n], n + 1>>] ELSE f[k]]
  <2>2. G[<<f[n], n + 1>>] \in S
    OBVIOUS
  <2>3. g \in [0 .. n + 1 -> S]
    BY <2>2
  <2>4. \A m \in 1 .. n + 1 : g[m] = G[<<g[m - 1], m>>]
    <3> SUFFICES ASSUME NEW m \in 1 .. n + 1 PROVE g[m] = G[<<g[m - 1], m>>]
      OBVIOUS
    <3>1. CASE m = n + 1
      <4>1. m - 1 = n /\ n \in 0 .. n + 1 /\ n # n + 1
        BY <3>1
      <4>2. g[m - 1] = f[n] /\ g[m] = G[<<f[n], n + 1>>]
        BY <3>1, <4>1
      <4> QED BY <3>1, <4>2
    <3>2. CASE m # n + 1
      BY <3>2, <2>1
    <3> QED BY <3>1, <3>2
  <2>5. g[0] = base
    <3>1. 0 \in 0 .. n + 1 /\ 0 # n + 1
      OBVIOUS
    <3>2. g[0] = f[0]
      BY <3>1
    <3>3. f[0] = base
      BY <2>1
    <3> QED BY <3>2, <3>3
  <2>6. n + 1 \in Nat
    OBVIOUS
  <2> HIDE DEF g
  <2>7. Is(g, n + 1)
    BY <2>4, <2>5
  <2> HIDE DEF Is
  <2> QED BY <2>3, <2>6, <2>7
<1>3. \A n \in Nat : n \in T
  <2> HIDE DEF T
  <2>1. T \in SUBSET Nat
    BY DEF T
  <2> QED BY <1>1, <1>2, <2>1, SetInduction
<1> QED BY <1>3 DEF IsIteration

(***************************************************************************)
(* IndexSet: counting below an index, and the shifts.                       *)
(***************************************************************************)

\* What a count counts is finite.
LEMMA CountFinite ==
  ASSUME NEW S, \A x \in S : x \in Int, NEW lo \in Int, NEW hi \in Int
  PROVE  IsFiniteSet({i \in S : lo <= i /\ i < hi})
<1> DEFINE C == {i \in S : lo <= i /\ i < hi}
<1>1. hi - 1 \in Int /\ C \subseteq lo .. hi - 1
  OBVIOUS
<1>2. IsFiniteSet(lo .. hi - 1) /\ C \in SUBSET (lo .. hi - 1)
  BY <1>1, FS_Interval
<1> QED BY <1>2, FS_Subset

\* count counts.
LEMMA CountType ==
  ASSUME NEW S, \A x \in S : x \in Int, NEW lo \in Int, NEW hi \in Int
  PROVE  count(S, lo, hi) \in Nat
BY CountFinite, FS_CardinalityType DEF count

\* A count over an interval is the sum of those over its parts.
LEMMA CountSplit ==
  ASSUME NEW S, \A x \in S : x \in Int, NEW lo \in Int, NEW mid \in Int, NEW hi \in Int,
         lo <= mid, mid <= hi
  PROVE  count(S, lo, hi) = count(S, lo, mid) + count(S, mid, hi)
<1> DEFINE A == {i \in S : lo <= i /\ i < mid}
           B == {i \in S : mid <= i /\ i < hi}
           C == {i \in S : lo <= i /\ i < hi}
<1>1. IsFiniteSet(A) /\ IsFiniteSet(B)
  BY CountFinite
<1>2. Cardinality(A) \in Nat /\ Cardinality(B) \in Nat
  BY CountType DEF count
<1>3. C = A \union B
  OBVIOUS
<1>5. A \intersect B = {}
  OBVIOUS
<1>4. Cardinality(C) = Cardinality(A) + Cardinality(B)
  <2> HIDE DEF A, B, C
  <2>1. Cardinality(A \union B) = Cardinality(A) + Cardinality(B) - Cardinality(A \intersect B)
    BY <1>1, FS_Union
  <2>2. Cardinality(A \intersect B) = 0
    BY <1>5, FS_EmptySet, Zenon
  <2>3. Cardinality(C) = Cardinality(A \union B)
    BY <1>3, Zenon
  <2> QED BY <1>2, <2>1, <2>2, <2>3
<1> QED BY <1>4 DEF count

\* A count is at most the length of its interval, and less if the first index is
\* not in the set.
LEMMA CountBound ==
  ASSUME NEW S, \A x \in S : x \in Int, NEW lo \in Int, NEW hi \in Int, lo <= hi
  PROVE  /\ count(S, lo, hi) <= hi - lo
         /\ lo \notin S /\ lo < hi => count(S, lo, hi) < hi - lo
<1> DEFINE C == {i \in S : lo <= i /\ i < hi}
<1>1. Cardinality(C) <= hi - lo
  <2>1. C \in SUBSET (lo .. hi - 1) /\ hi - 1 \in Int
    <3>1. C \subseteq lo .. hi - 1
      OBVIOUS
    <3> QED BY <3>1
  <2>2. /\ IsFiniteSet(lo .. hi - 1)
        /\ Cardinality(lo .. hi - 1) = IF lo > hi - 1 THEN 0 ELSE (hi - 1) - lo + 1
    BY <2>1, FS_Interval
  <2> HIDE DEF C
  <2>3. Cardinality(C) <= Cardinality(lo .. hi - 1)
    BY <2>1, <2>2, FS_Subset
  <2> QED BY <2>2, <2>3
<1>2. ASSUME lo \notin S, lo < hi PROVE Cardinality(C) < hi - lo
  <2>1. C \in SUBSET (lo + 1 .. hi - 1) /\ lo + 1 \in Int /\ hi - 1 \in Int
    <3>1. C \subseteq lo + 1 .. hi - 1
      BY <1>2
    <3> QED BY <3>1
  <2>2. /\ IsFiniteSet(lo + 1 .. hi - 1)
        /\ Cardinality(lo + 1 .. hi - 1) = IF lo + 1 > hi - 1 THEN 0 ELSE (hi - 1) - (lo + 1) + 1
    BY <2>1, FS_Interval
  <2>3. Cardinality(C) \in Nat
    BY CountType DEF count
  <2> HIDE DEF C
  <2>4. Cardinality(C) <= Cardinality(lo + 1 .. hi - 1)
    BY <2>1, <2>2, FS_Subset
  <2> QED BY <1>2, <2>2, <2>3, <2>4
<1> QED BY <1>1, <1>2 DEF count

\* A count over all of a set.
LEMMA CountAll ==
  ASSUME NEW n \in Nat, NEW S, \A x \in S : x \in 0 .. n - 1
  PROVE  count(S, 0, n) = Cardinality(S)
<1>1. {i \in S : 0 <= i /\ i < n} = S
  OBVIOUS
<1> QED BY <1>1 DEF count

\* unshift of a row is a row.
LEMMA UnshiftType ==
  ASSUME NEW S, \A x \in S : x \in Nat, NEW i \in Nat
  PROVE  unshift(S, i) \in Nat
<1>1. \A x \in S : x \in Int
  OBVIOUS
<1>2. count(S, 0, i) \in Nat /\ count(S, 0, i) <= i - 0
  BY <1>1, CountType, CountBound
<1> QED BY <1>2 DEF unshift

\* unshift keeps the order, and on indices outside the set it is injective.
LEMMA UnshiftMonotone ==
  ASSUME NEW S, \A x \in S : x \in Nat, NEW i \in Nat, NEW j \in Nat, i <= j
  PROVE  /\ unshift(S, i) <= unshift(S, j)
         /\ i \notin S /\ i < j => unshift(S, i) < unshift(S, j)
<1>1. \A x \in S : x \in Int
  OBVIOUS
<1>2. count(S, 0, j) = count(S, 0, i) + count(S, i, j)
  BY <1>1, CountSplit
<1>3. count(S, 0, i) \in Nat /\ count(S, i, j) \in Nat
  BY <1>1, CountType
<1>4. count(S, i, j) <= j - i /\ (i \notin S /\ i < j => count(S, i, j) < j - i)
  BY <1>1, CountBound
<1> QED BY <1>2, <1>3, <1>4 DEF unshift

\* The next index is unshifted one further, unless this one is in the set.
LEMMA UnshiftNext ==
  ASSUME NEW S, \A x \in S : x \in Nat, NEW i \in Nat
  PROVE  unshift(S, i + 1) = IF i \in S THEN unshift(S, i) ELSE unshift(S, i) + 1
<1>0. \A x \in S : x \in Int
  OBVIOUS
<1>1. count(S, 0, i + 1) = count(S, 0, i) + count(S, i, i + 1)
  BY <1>0, CountSplit
<1>2. {k \in S : i <= k /\ k < i + 1} = IF i \in S THEN {i} ELSE {}
  OBVIOUS
<1>3. count(S, i, i + 1) = IF i \in S THEN 1 ELSE 0
  BY <1>2, FS_Singleton, FS_EmptySet DEF count
<1>4. count(S, 0, i) \in Nat
  BY <1>0, CountType
<1> QED BY <1>1, <1>3, <1>4 DEF unshift

\* Every position is that of exactly one index outside a finite set.
LEMMA ShiftSpec ==
  ASSUME NEW S, \A x \in S : x \in Nat, IsFiniteSet(S), NEW n \in Nat
  PROVE  /\ shift(S, n) \in Nat \ S
         /\ unshift(S, shift(S, n)) = n
<1>0. \A x \in S : x \in Int
  OBVIOUS
<1>1. Cardinality(S) \in Nat
  BY FS_CardinalityType
<1> DEFINE T == {i \in Nat : unshift(S, i) > n}
           top == n + Cardinality(S) + 1
<1>2. top \in T
  <2>1. {i \in S : 0 <= i /\ i < top} \in SUBSET S
    OBVIOUS
  <2>2. count(S, 0, top) <= Cardinality(S)
    BY <2>1, FS_Subset DEF count
  <2>3. top \in Nat /\ count(S, 0, top) \in Nat
    BY <1>0, <1>1, CountType
  <2> QED BY <1>1, <2>2, <2>3 DEF unshift
<1>3. PICK t \in T : \A m \in T : t <= m
  <2>1. T \in SUBSET Nat /\ T # {}
    BY <1>2
  <2> HIDE DEF T
  <2> QED BY <2>1, LeastNat
<1>4. unshift(S, 0) = 0
  <2>1. {i \in S : 0 <= i /\ i < 0} = {}
    OBVIOUS
  <2> QED BY <2>1, FS_EmptySet DEF unshift, count
<1>5. t # 0 /\ t - 1 \in Nat
  BY <1>3, <1>4
<1> DEFINE i == t - 1
<1>6. unshift(S, i) <= n
  <2>1. i \in Nat /\ i \notin T
    BY <1>3, <1>5
  <2>2. unshift(S, i) \in Nat
    BY <2>1, UnshiftType
  <2> QED BY <2>1, <2>2
<1>7. i \notin S /\ unshift(S, i) = n
  <2>1. unshift(S, t) = IF i \in S THEN unshift(S, i) ELSE unshift(S, i) + 1
    <3>1. i + 1 = t
      BY <1>5
    <3> HIDE DEF i
    <3> QED BY <1>5, <3>1, UnshiftNext DEF i
  <2>2. unshift(S, i) \in Nat
    BY <1>5, UnshiftType
  <2>3. unshift(S, t) > n
    BY <1>3
  <2> HIDE DEF i
  <2> QED BY <1>6, <2>1, <2>2, <2>3
<1>8. i \in n .. n + Cardinality(S)
  <2>1. count(S, 0, i) \in Nat
    BY <1>0, <1>5, CountType
  <2>2. {k \in S : 0 <= k /\ k < i} \in SUBSET S
    OBVIOUS
  <2>3. count(S, 0, i) <= Cardinality(S)
    BY <2>2, FS_Subset DEF count
  <2>4. i - count(S, 0, i) = n
    BY <1>7 DEF unshift
  <2> HIDE DEF i
  <2> QED BY <1>1, <1>5, <2>1, <2>3, <2>4 DEF i
<1>9. \E k \in n .. n + Cardinality(S) : k \notin S /\ k - count(S, 0, k) = n
  BY <1>7, <1>8 DEF unshift
<1>10. /\ shift(S, n) \in n .. n + Cardinality(S)
       /\ shift(S, n) \notin S
       /\ shift(S, n) - count(S, 0, shift(S, n)) = n
  BY <1>9, Zenon DEF shift
<1> QED BY <1>1, <1>10 DEF unshift

\* shift undoes unshift.
LEMMA ShiftUnshift ==
  ASSUME NEW S, \A x \in S : x \in Nat, IsFiniteSet(S), NEW i \in Nat \ S
  PROVE  shift(S, unshift(S, i)) = i
<1> DEFINE k == shift(S, unshift(S, i))
<1>1. unshift(S, i) \in Nat
  BY UnshiftType
<1>2. k \in Nat \ S /\ unshift(S, k) = unshift(S, i)
  BY <1>1, ShiftSpec
<1>3. ~ k < i /\ ~ i < k
  <2> HIDE DEF k
  <2>1. unshift(S, k) \in Nat
    BY <1>1, <1>2
  <2> QED BY <1>1, <1>2, <2>1, UnshiftMonotone
<1> HIDE DEF k
<1> QED BY <1>2, <1>3 DEF k

(***************************************************************************)
(* Sorting.                                                                 *)
(***************************************************************************)

IsStrictOrder(before, S) ==
  /\ \A x, y \in S : <<x, y>> \in before => <<y, x>> \notin before
  /\ \A x, y, z \in S : <<x, y>> \in before /\ <<y, z>> \in before => <<x, z>> \in before
  /\ \A x, y \in S : x = y \/ <<x, y>> \in before \/ <<y, x>> \in before

Below(x, S, before) == {y \in S : <<y, x>> \in before}

\* Whoever is before another has fewer members before it.
LEMMA RankMonotone ==
  ASSUME NEW S, IsFiniteSet(S), NEW before, IsStrictOrder(before, S),
         NEW x \in S, NEW y \in S, <<x, y>> \in before
  PROVE  Cardinality(Below(x, S, before)) < Cardinality(Below(y, S, before))
<1> DEFINE X == Below(x, S, before)
           Y == Below(y, S, before)
<1>1. IsFiniteSet(X) /\ IsFiniteSet(Y)
  <2>1. X \in SUBSET S /\ Y \in SUBSET S
    BY DEF Below
  <2> HIDE DEF X, Y
  <2> QED BY <2>1, FS_Subset
<1>2. X \in SUBSET Y
  BY Zenon DEF Below, IsStrictOrder
<1>3. X # Y
  <2>1. x \in Y
    BY DEF Below
  <2>2. x \notin X
    BY DEF Below, IsStrictOrder
  <2> QED BY <2>1, <2>2, Zenon
<1>4. Cardinality(X) <= Cardinality(Y) /\ Cardinality(X) # Cardinality(Y)
  <2> HIDE DEF X, Y
  <2> QED BY <1>1, <1>2, <1>3, FS_Subset
<1>5. Cardinality(X) \in Nat /\ Cardinality(Y) \in Nat
  <2> HIDE DEF X, Y
  <2> QED BY <1>1, FS_CardinalityType
<1> HIDE DEF X, Y
<1>6. Cardinality(X) < Cardinality(Y)
  BY <1>4, <1>5
<1> QED BY <1>6 DEF X, Y

\* Every rank below the number of members is that of one of them.
LEMMA RankOnto ==
  ASSUME NEW S, IsFiniteSet(S), NEW before, IsStrictOrder(before, S)
  PROVE  /\ Cardinality(S) \in Nat
         /\ \A x \in S : Cardinality(Below(x, S, before)) \in 0 .. Cardinality(S) - 1
         /\ \A k \in 0 .. Cardinality(S) - 1 :
              \E x \in S : Cardinality(Below(x, S, before)) = k
<1> DEFINE n == Cardinality(S)
           rank == [x \in S |-> Cardinality(Below(x, S, before))]
<1>1. n \in Nat
  BY FS_CardinalityType
<1>2. ASSUME NEW x \in S PROVE Cardinality(Below(x, S, before)) \in 0 .. n - 1
  <2> DEFINE X == Below(x, S, before)
  <2>1. X \in SUBSET (S \ {x})
    BY DEF Below, IsStrictOrder
  <2>2. IsFiniteSet(S \ {x}) /\ Cardinality(S \ {x}) = n - 1
    BY FS_RemoveElement
  <2>3. IsFiniteSet(X) /\ Cardinality(X) <= Cardinality(S \ {x})
    <3> HIDE DEF X
    <3> QED BY <2>1, <2>2, FS_Subset
  <2>4. Cardinality(X) \in Nat
    <3> HIDE DEF X
    <3> QED BY <2>3, FS_CardinalityType
  <2> HIDE DEF X, n
  <2>5. Cardinality(X) \in 0 .. n - 1
    BY <1>1, <2>2, <2>3, <2>4
  <2> QED BY <2>5 DEF X
<1>3. rank \in [S -> 0 .. n - 1]
  BY <1>2
<1>4. \A x, y \in S : rank[x] = rank[y] => x = y
  <2> SUFFICES ASSUME NEW x \in S, NEW y \in S, x # y PROVE rank[x] # rank[y]
    OBVIOUS
  <2>1. <<x, y>> \in before \/ <<y, x>> \in before
    BY DEF IsStrictOrder
  <2>2. rank[x] < rank[y] \/ rank[y] < rank[x]
    BY <2>1, RankMonotone
  <2>3. rank[x] \in Nat /\ rank[y] \in Nat
    BY <1>1, <1>2
  <2> HIDE DEF rank
  <2> QED BY <2>2, <2>3
<1>5. rank \in Surjection(S, 0 .. n - 1)
  <2>1. rank \in Injection(S, 0 .. n - 1)
    BY <1>3, <1>4, Zenon DEF Injection, IsInjective
  <2>2. IsFiniteSet(0 .. n - 1) /\ Cardinality(0 .. n - 1) = n
    <3>1. n - 1 \in Int
      BY <1>1
    <3>2. /\ IsFiniteSet(0 .. n - 1)
          /\ Cardinality(0 .. n - 1) = IF 0 > n - 1 THEN 0 ELSE (n - 1) - 0 + 1
      BY <3>1, FS_Interval
    <3> HIDE DEF n
    <3> QED BY <1>1, <3>2
  <2> HIDE DEF rank
  <2> QED BY <2>1, <2>2, FS_Injection, Zenon DEF n
<1>6. \A k \in 0 .. n - 1 : \E x \in S : rank[x] = k
  <2> HIDE DEF rank
  <2> QED BY <1>5, Zenon DEF Surjection
<1> QED BY <1>1, <1>2, <1>6

\* SortedBy lists the members of a finite set, each once, in their order.
LEMMA SortedByOrders ==
  ASSUME NEW S, IsFiniteSet(S), NEW before, IsStrictOrder(before, S)
  PROVE  /\ Cardinality(S) \in Nat
         /\ SortedBy(S, before) \in [1 .. Cardinality(S) -> S]
         /\ \A x \in S : \E k \in 1 .. Cardinality(S) : SortedBy(S, before)[k] = x
         /\ \A k, l \in 1 .. Cardinality(S) :
              k < l <=> <<SortedBy(S, before)[k], SortedBy(S, before)[l]>> \in before
<1> DEFINE n == Cardinality(S)
           e == SortedBy(S, before)
           rank(x) == Cardinality(Below(x, S, before))
<1>1. n \in Nat
  BY FS_CardinalityType
<1> DEFINE c(k) == CHOOSE x \in S : rank(x) = k - 1
<1>0. ASSUME NEW k \in 1 .. n PROVE c(k) \in S /\ rank(c(k)) = k - 1
  <2>1. k - 1 \in 0 .. n - 1
    BY <1>1
  <2>2. \E x \in S : rank(x) = k - 1
    BY <2>1, RankOnto
  <2> HIDE DEF rank
  <2> QED BY <2>2, Zenon
<1>9. e = [k \in 1 .. n |-> c(k)]
  BY Zenon DEF SortedBy, Below
<1> HIDE DEF e, rank, n, c
<1>2. ASSUME NEW k \in 1 .. n PROVE e[k] \in S /\ rank(e[k]) = k - 1
  BY <1>0, <1>9
<1>3. e \in [1 .. n -> S]
  BY <1>0, <1>9
<1> USE DEF rank, n
<1>4. \A x, y \in S : <<x, y>> \in before => rank(x) < rank(y)
  BY RankMonotone
<1>5. \A x \in S : rank(x) \in 0 .. n - 1
  BY RankOnto
<1>6. \A x, y \in S : rank(x) < rank(y) => <<x, y>> \in before
  <2> SUFFICES ASSUME NEW x \in S, NEW y \in S, rank(x) < rank(y) PROVE <<x, y>> \in before
    OBVIOUS
  <2>1. x = y \/ <<x, y>> \in before \/ <<y, x>> \in before
    BY DEF IsStrictOrder
  <2>2. rank(x) \in Nat /\ rank(y) \in Nat
    BY <1>1, <1>5
  <2> HIDE DEF rank
  <2> QED BY <1>4, <2>1, <2>2
<1> HIDE DEF e, rank, n
<1>7. ASSUME NEW x \in S PROVE \E k \in 1 .. n : e[k] = x
  <2> DEFINE k == rank(x) + 1
  <2>1. k \in 1 .. n /\ k - 1 = rank(x)
    BY <1>1, <1>5
  <2> HIDE DEF k
  <2>2. e[k] \in S /\ rank(e[k]) = rank(x)
    BY <1>2, <2>1
  <2>3. rank(x) \in Nat
    BY <1>1, <1>5
  <2>4. e[k] = x
    <3>1. e[k] = x \/ <<e[k], x>> \in before \/ <<x, e[k]>> \in before
      BY <2>2 DEF IsStrictOrder
    <3> QED BY <1>4, <2>2, <2>3, <3>1
  <2> QED BY <2>1, <2>4
<1>8. ASSUME NEW k \in 1 .. n, NEW l \in 1 .. n PROVE k < l <=> <<e[k], e[l]>> \in before
  <2>1. e[k] \in S /\ e[l] \in S /\ rank(e[k]) = k - 1 /\ rank(e[l]) = l - 1
    BY <1>2
  <2>2. <<e[k], e[l]>> \in before <=> rank(e[k]) < rank(e[l])
    BY <1>4, <1>6, <2>1
  <2> QED BY <1>1, <2>1, <2>2
<1> QED BY <1>1, <1>3, <1>7, <1>8 DEF e, n

(***************************************************************************)
(* find_longest_match.                                                      *)
(***************************************************************************)

Match == [i : Int, j : Int, size : Nat, modified : Int]
MatchState == [j : Int, len : Nat, best : Match]
FirstState(begin1, begin2) ==
  [j |-> begin2, len |-> 0,
   best |-> [i |-> begin1, j |-> begin2, size |-> 0, modified |-> 0]]

\* A round of find_longest_match keeps the type of its state.
LEMMA RoundType ==
  ASSUME NEW a, NEW b, NEW begin2 \in Int, NEW end2 \in Int,
         NEW modified, \A x \in modified : x \in Int,
         NEW s \in MatchState, NEW i \in Int
  PROVE  for_each_b_match(a, b, begin2, end2, modified, s, i) \in MatchState
<1> DEFINE at == {j \in begin2 .. end2 - 1 : b[j + 1] = a[i + 1]}
           j == CHOOSE j \in at : TRUE
           size == IF s.len > 0 /\ s.j + 1 = j THEN s.len + 1 ELSE 1
           found == [i |-> i - size + 1, j |-> j - size + 1, size |-> size, modified |-> npos]
           here == count(modified, j - size + 1, j + 1)
           best == s.best.j - size + 1
           known == IF s.best.modified # npos THEN s.best.modified
                    ELSE IF best < 0 THEN 0
                    ELSE count(modified, best, s.best.j + 1)
           next == [j |-> j, len |-> size,
                    best |-> IF size > s.best.size THEN found
                             ELSE IF size < s.best.size THEN s.best
                             ELSE IF here < known THEN [found EXCEPT !.modified = here]
                             ELSE [s.best EXCEPT !.modified = known]]
<1>1. for_each_b_match(a, b, begin2, end2, modified, s, i)
        = IF at = {} THEN [s EXCEPT !.len = 0] ELSE next
  BY Zenon DEF for_each_b_match
<1>2. s.j \in Int /\ s.len \in Nat /\ s.best \in Match
  BY DEF MatchState
<1>3. [s EXCEPT !.len = 0] \in MatchState
  BY DEF MatchState
<1>4. ASSUME at # {} PROVE next \in MatchState
  <2>1. j \in Int
    <3>1. j \in at
      BY <1>4, Zenon
    <3> HIDE DEF j
    <3> QED BY <3>1
  <2> HIDE DEF j
  <2>2. size \in Nat
    BY <1>2
  <2> HIDE DEF size
  <2>3. s.best.i \in Int /\ s.best.j \in Int /\ s.best.size \in Nat /\ s.best.modified \in Int
    BY <1>2 DEF Match
  <2>4. here \in Int
    <3>1. j - size + 1 \in Int /\ j + 1 \in Int
      BY <2>1, <2>2
    <3>2. here \in Nat
      BY <3>1, CountType
    <3> HIDE DEF here
    <3> QED BY <3>2
  <2>5. known \in Int
    <3>1. best \in Int /\ s.best.j + 1 \in Int
      BY <2>2, <2>3
    <3>2. count(modified, best, s.best.j + 1) \in Nat
      <4> HIDE DEF best
      <4> QED BY <3>1, CountType
    <3> HIDE DEF best
    <3> QED BY <2>3, <3>2
  <2>6. found \in Match
    BY <2>1, <2>2 DEF Match, npos
  <2> HIDE DEF here, known, found
  <2>7. [found EXCEPT !.modified = here] \in Match /\ [s.best EXCEPT !.modified = known] \in Match
    BY <1>2, <2>4, <2>5, <2>6 DEF Match
  <2>8. next.best \in Match
    BY <1>2, <2>6, <2>7
  <2> QED BY <2>1, <2>2, <2>8 DEF MatchState
<1> HIDE DEF at, next
<1> QED BY <1>1, <1>3, <1>4

\* r is the states of the rounds of a call of find_longest_match that returns m.
AreRounds(r, a, b, begin1, end1, begin2, end2, modified, m) ==
  /\ r[0] = FirstState(begin1, begin2)
  /\ \A n \in 1 .. end1 - begin1 :
       r[n] = for_each_b_match(a, b, begin2, end2, modified, r[n - 1], begin1 + n - 1)
  /\ m = r[end1 - begin1].best

\* find_longest_match is the last of the states that its rounds go through.
LEMMA RoundsExist ==
  ASSUME NEW a, NEW b, NEW begin1 \in Nat, NEW end1 \in Nat, begin1 <= end1,
         NEW begin2 \in Nat, NEW end2 \in Nat,
         NEW modified, \A x \in modified : x \in Int,
         NEW m, m = find_longest_match(a, b, begin1, end1, begin2, end2, modified)
  PROVE  \E r \in [0 .. end1 - begin1 -> MatchState] :
           AreRounds(r, a, b, begin1, end1, begin2, end2, modified, m)
<1> DEFINE N == end1 - begin1
           base == FirstState(begin1, begin2)
           step(s, i) == for_each_b_match(a, b, begin2, end2, modified, s, i)
           body(f) == [n \in 0 .. N |-> IF n = 0 THEN base ELSE step(f[n - 1], begin1 + n - 1)]
           round == CHOOSE f : f = body(f)
           G == [e \in MatchState \X Nat |-> step(e[1], begin1 + e[2] - 1)]
<1>1. find_longest_match(a, b, begin1, end1, begin2, end2, modified) = round[N].best
  BY Zenon DEF find_longest_match, FirstState
<1>2. N \in Nat
  OBVIOUS
<1>3. base \in MatchState
  BY DEF FirstState, MatchState, Match
<1>4. ASSUME NEW s \in MatchState, NEW n \in Nat PROVE step(s, begin1 + n - 1) \in MatchState
  <2>1. begin1 + n - 1 \in Int /\ begin2 \in Int /\ end2 \in Int
    OBVIOUS
  <2> QED BY <2>1, RoundType
<1> HIDE DEF N, base, step
<1>5. G \in [MatchState \X Nat -> MatchState]
  BY <1>4
<1>6. PICK f \in [0 .. N -> MatchState] :
        f[0] = base /\ \A n \in 1 .. N : f[n] = G[<<f[n - 1], n>>]
  <2> HIDE DEF G
  <2>1. \E f \in [0 .. N -> MatchState] : IsIteration(f, base, G, N)
    BY <1>2, <1>3, <1>5, Iteration
  <2> QED BY <2>1 DEF IsIteration
<1>7. ASSUME NEW n \in 1 .. N PROVE f[n] = step(f[n - 1], begin1 + n - 1)
  <2>1. n - 1 \in 0 .. N /\ n \in Nat
    BY <1>2
  <2>2. <<f[n - 1], n>> \in MatchState \X Nat
    BY <2>1
  <2>3. G[<<f[n - 1], n>>] = step(f[n - 1], begin1 + n - 1)
    BY <2>2
  <2> QED BY <1>6, <2>3
<1>8. f = body(f)
  <2>1. ASSUME NEW n \in 0 .. N
        PROVE  f[n] = IF n = 0 THEN base ELSE step(f[n - 1], begin1 + n - 1)
    <3>1. CASE n = 0
      BY <1>6, <3>1
    <3>2. CASE n # 0
      <4>1. n \in 1 .. N
        BY <1>2, <3>2
      <4> QED BY <1>7, <3>2, <4>1
    <3> QED BY <3>1, <3>2
  <2> QED BY <2>1
<1>9. round = body(round)
  <2> HIDE DEF body
  <2> QED BY <1>8, Zenon
<1>10. round \in [0 .. N -> MatchState] /\ round[0] = base
       /\ \A n \in 1 .. N : round[n] = step(round[n - 1], begin1 + n - 1)
  <2> HIDE DEF round
  <2>1. \A n \in 0 .. N : round[n] = IF n = 0 THEN base ELSE step(round[n - 1], begin1 + n - 1)
    BY <1>9
  <2>2. round[0] = base
    BY <1>2, <2>1
  <2>3. \A n \in 1 .. N : round[n] = step(round[n - 1], begin1 + n - 1)
    BY <1>2, <2>1
  <2> DEFINE T == {n \in Nat : n \in 0 .. N => round[n] \in MatchState}
  <2>4. 0 \in T
    BY <1>3, <2>2
  <2>5. ASSUME NEW n \in T PROVE n + 1 \in T
    <3>1. CASE n + 1 \in 0 .. N
      <4>1. n \in Nat /\ n \in 0 .. N /\ n + 1 \in 1 .. N /\ (n + 1) - 1 = n
        BY <1>2, <3>1
      <4>2. round[n] \in MatchState
        BY <4>1
      <4>3. round[n + 1] = step(round[n], begin1 + (n + 1) - 1)
        BY <2>3, <4>1
      <4>4. n + 1 \in Nat
        BY <4>1
      <4>5. round[n + 1] \in MatchState
        BY <1>4, <4>2, <4>3, <4>4
      <4> QED BY <4>4, <4>5
    <3>2. CASE n + 1 \notin 0 .. N
      BY <3>2
    <3> QED BY <3>1, <3>2
  <2>6. \A n \in Nat : n \in T
    <3>1. T \in SUBSET Nat
      OBVIOUS
    <3> HIDE DEF T
    <3> QED BY <2>4, <2>5, <3>1, SetInduction
  <2>7. \A n \in 0 .. N : round[n] \in MatchState
    BY <1>2, <2>6
  <2>8. round = [n \in 0 .. N |-> round[n]]
    BY <1>9
  <2> QED BY <2>2, <2>3, <2>7, <2>8
<1> HIDE DEF round
<1> QED BY <1>1, <1>10 DEF N, base, step, AreRounds

\* The block m of a and b lies within the bounds and has the same rows in both.
IsBlock(a, b, m, begin1, end1, begin2, end2) ==
  /\ m.i \in Nat /\ m.j \in Nat /\ m.size \in Nat
  /\ begin1 <= m.i /\ m.i + m.size <= end1
  /\ begin2 <= m.j /\ m.j + m.size <= end2
  /\ \A t \in 0 .. m.size - 1 : a[m.i + t + 1] = b[m.j + t + 1]

SameBlock(m, i, j, size) == m.i = i /\ m.j = j /\ m.size = size

\* What a round does to its state, apart from counting modified rows.
RoundResult(a, b, begin2, end2, s, i, r) ==
  \/ r.len = 0 /\ r.best = s.best
  \/ \E j \in begin2 .. end2 - 1, size \in Nat :
       /\ b[j + 1] = a[i + 1]
       /\ r.j = j /\ r.len = size
       /\ size = 1 \/ (s.len > 0 /\ s.j + 1 = j /\ size = s.len + 1)
       /\ \/ SameBlock(r.best, s.best.i, s.best.j, s.best.size)
          \/ SameBlock(r.best, i - size + 1, j - size + 1, size)

\* What a round does with the row of a at i: its match in b, if any, extends the
\* run of matches of the round before or starts one.
LEMMA RoundCases ==
  ASSUME NEW a, NEW b, NEW begin2 \in Nat, NEW end2 \in Nat, NEW modified,
         NEW s \in MatchState, NEW i \in Nat, NEW r,
         r = for_each_b_match(a, b, begin2, end2, modified, s, i)
  PROVE  RoundResult(a, b, begin2, end2, s, i, r)
<1> DEFINE at == {j \in begin2 .. end2 - 1 : b[j + 1] = a[i + 1]}
           j == CHOOSE j \in at : TRUE
           size == IF s.len > 0 /\ s.j + 1 = j THEN s.len + 1 ELSE 1
           found == [i |-> i - size + 1, j |-> j - size + 1, size |-> size, modified |-> npos]
           here == count(modified, j - size + 1, j + 1)
           best == s.best.j - size + 1
           known == IF s.best.modified # npos THEN s.best.modified
                    ELSE IF best < 0 THEN 0
                    ELSE count(modified, best, s.best.j + 1)
           next == [j |-> j, len |-> size,
                    best |-> IF size > s.best.size THEN found
                             ELSE IF size < s.best.size THEN s.best
                             ELSE IF here < known THEN [found EXCEPT !.modified = here]
                             ELSE [s.best EXCEPT !.modified = known]]
<1>1. r = IF at = {} THEN [s EXCEPT !.len = 0] ELSE next
  BY Zenon DEF for_each_b_match
<1>2. s.j \in Int /\ s.len \in Nat /\ s.best \in Match
  BY DEF MatchState
<1>3. CASE at = {}
  <2>1. r = [s EXCEPT !.len = 0]
    BY <1>1, <1>3
  <2>2. r.len = 0 /\ r.best = s.best
    BY <2>1 DEF MatchState
  <2> QED BY <2>2 DEF RoundResult
<1>4. CASE at # {}
  <2>1. r = next
    BY <1>1, <1>4
  <2>2. j \in at
    BY <1>4, Zenon
  <2> HIDE DEF j
  <2>3. size \in Nat /\ (size = 1 \/ (s.len > 0 /\ s.j + 1 = j /\ size = s.len + 1))
    BY <1>2
  <2> HIDE DEF size, here, known
  <2>4. r.j = j /\ r.len = size
    BY <2>1
  <2>5. \/ r.best = found \/ r.best = s.best
        \/ r.best = [found EXCEPT !.modified = here]
        \/ r.best = [s.best EXCEPT !.modified = known]
    <3> HIDE DEF found
    <3> QED BY <2>1
  <2>6. \/ SameBlock(r.best, s.best.i, s.best.j, s.best.size)
        \/ SameBlock(r.best, i - size + 1, j - size + 1, size)
    <3>1. CASE r.best = found
      BY <3>1 DEF SameBlock
    <3>2. CASE r.best = s.best
      BY <3>2 DEF SameBlock
    <3>3. CASE r.best = [found EXCEPT !.modified = here]
      BY <3>3 DEF SameBlock
    <3>4. CASE r.best = [s.best EXCEPT !.modified = known]
      BY <1>2, <3>4 DEF SameBlock, Match
    <3> QED BY <2>5, <3>1, <3>2, <3>3, <3>4
  <2>7. j \in begin2 .. end2 - 1 /\ b[j + 1] = a[i + 1]
    BY <2>2
  <2> QED BY <2>3, <2>4, <2>6, <2>7 DEF RoundResult
<1> QED BY <1>3, <1>4

\* The best block so far, and the block that ends where the last round was.
RoundInv(a, b, s, n, begin1, begin2, end2) ==
  /\ IsBlock(a, b, s.best, begin1, begin1 + n, begin2, end2)
  /\ s.len > 0 => IsBlock(a, b, [i |-> begin1 + n - s.len, j |-> s.j - s.len + 1, size |-> s.len],
                          begin1, begin1 + n, begin2, end2)

\* The runs of matches and the best block stay true over a round.
LEMMA RoundKeepsBlocks ==
  ASSUME NEW a, NEW b, NEW begin1 \in Nat, NEW begin2 \in Nat, NEW end2 \in Nat,
         NEW modified, NEW s \in MatchState, NEW n \in Nat, NEW r \in MatchState,
         NEW i \in Nat, i = begin1 + n,
         r = for_each_b_match(a, b, begin2, end2, modified, s, i),
         RoundInv(a, b, s, n, begin1, begin2, end2)
  PROVE  RoundInv(a, b, r, n + 1, begin1, begin2, end2)
<1>1. i = begin1 + n
  OBVIOUS
<1>2. s.j \in Int /\ s.len \in Nat /\ s.best \in Match /\ r.j \in Int /\ r.len \in Nat
  BY DEF MatchState
<1>3. ASSUME NEW m, SameBlock(m, s.best.i, s.best.j, s.best.size)
      PROVE  IsBlock(a, b, m, begin1, begin1 + (n + 1), begin2, end2)
  BY <1>3 DEF RoundInv, IsBlock, SameBlock
<1>4. CASE r.len = 0 /\ r.best = s.best
  <2>1. SameBlock(r.best, s.best.i, s.best.j, s.best.size)
    BY <1>4 DEF SameBlock
  <2> QED BY <1>3, <1>4, <2>1 DEF RoundInv
<1>5. ASSUME NEW j \in begin2 .. end2 - 1, NEW size \in Nat,
             b[j + 1] = a[i + 1],
             r.j = j, r.len = size,
             size = 1 \/ (s.len > 0 /\ s.j + 1 = j /\ size = s.len + 1),
             \/ SameBlock(r.best, s.best.i, s.best.j, s.best.size)
             \/ SameBlock(r.best, i - size + 1, j - size + 1, size)
      PROVE  RoundInv(a, b, r, n + 1, begin1, begin2, end2)
  <2>1. ASSUME NEW m, SameBlock(m, i - size + 1, j - size + 1, size)
        PROVE  IsBlock(a, b, m, begin1, begin1 + (n + 1), begin2, end2)
    <3>1. CASE size = 1
      <4>1. m.i = i /\ m.j = j /\ m.size = 1
        BY <2>1, <3>1, <1>1 DEF SameBlock
      <4>2. \A t \in 0 .. m.size - 1 : a[m.i + t + 1] = b[m.j + t + 1]
        <5>1. \A t \in 0 .. m.size - 1 : t = 0
          BY <4>1
        <5>2. m.i + 0 + 1 = i + 1 /\ m.j + 0 + 1 = j + 1
          BY <4>1, <1>1
        <5> QED BY <1>5, <5>1, <5>2
      <4> QED BY <4>1, <4>2, <1>1 DEF IsBlock
    <3>2. CASE s.len > 0 /\ s.j + 1 = j /\ size = s.len + 1
      <4> DEFINE k == [i |-> begin1 + n - s.len, j |-> s.j - s.len + 1, size |-> s.len]
      <4>1. IsBlock(a, b, k, begin1, begin1 + n, begin2, end2)
        BY <3>2 DEF RoundInv
      <4>2. m.i = begin1 + n - s.len /\ m.j = s.j - s.len + 1 /\ m.size = s.len + 1
        BY <2>1, <3>2, <1>1, <1>2 DEF SameBlock
      <4>3. /\ m.i \in Nat /\ m.j \in Nat /\ begin1 <= m.i /\ begin2 <= m.j
            /\ \A t \in 0 .. s.len - 1 : a[m.i + t + 1] = b[m.j + t + 1]
        BY <4>1, <4>2 DEF IsBlock
      <4>4. a[m.i + s.len + 1] = b[m.j + s.len + 1]
        <5>1. m.i + s.len + 1 = i + 1 /\ m.j + s.len + 1 = j + 1
          BY <3>2, <4>2, <1>1, <1>2
        <5> QED BY <1>5, <5>1
      <4>5. \A t \in 0 .. m.size - 1 : a[m.i + t + 1] = b[m.j + t + 1]
        <5> SUFFICES ASSUME NEW t \in 0 .. m.size - 1
                     PROVE  a[m.i + t + 1] = b[m.j + t + 1]
          OBVIOUS
        <5>1. t = s.len \/ t \in 0 .. s.len - 1
          BY <4>2, <1>2
        <5> QED BY <4>3, <4>4, <5>1
      <4>6. m.i + m.size <= begin1 + (n + 1) /\ m.j + m.size <= end2 /\ m.size \in Nat
        BY <3>2, <4>2, <1>1, <1>2
      <4> QED BY <4>3, <4>5, <4>6 DEF IsBlock
    <3> QED BY <1>5, <3>1, <3>2
  <2>2. IsBlock(a, b, r.best, begin1, begin1 + (n + 1), begin2, end2)
    BY <1>3, <1>5, <2>1
  <2> DEFINE k == [i |-> begin1 + (n + 1) - r.len, j |-> r.j - r.len + 1, size |-> r.len]
  <2>3. SameBlock(k, i - size + 1, j - size + 1, size)
    BY <1>5 DEF SameBlock
  <2>4. IsBlock(a, b, k, begin1, begin1 + (n + 1), begin2, end2)
    <3> HIDE DEF k
    <3> QED BY <2>1, <2>3
  <2> QED BY <2>2, <2>4 DEF RoundInv
<1>6. RoundResult(a, b, begin2, end2, s, i, r)
  BY RoundCases
<1> QED BY <1>4, <1>5, <1>6 DEF RoundResult

\* The result of find_longest_match is a block within the bounds of the call, as
\* the assertions at its end say.
LEMMA LongestMatchIsBlock ==
  ASSUME NEW a, NEW b, NEW begin1 \in Nat, NEW end1 \in Nat, NEW begin2 \in Nat,
         NEW end2 \in Nat, NEW modified, begin1 <= end1, begin2 <= end2,
         \A x \in modified : x \in Int,
         NEW m, m = find_longest_match(a, b, begin1, end1, begin2, end2, modified)
  PROVE  m \in Match /\ IsBlock(a, b, m, begin1, end1, begin2, end2)
<1> DEFINE N == end1 - begin1
<1>1. N \in Nat /\ begin1 + N = end1
  OBVIOUS
<1>2. PICK r \in [0 .. N -> MatchState] :
           /\ r[0] = FirstState(begin1, begin2)
           /\ \A n \in 1 .. N :
                r[n] = for_each_b_match(a, b, begin2, end2, modified, r[n - 1], begin1 + n - 1)
           /\ m = r[N].best
  <2>1. \E r \in [0 .. N -> MatchState] :
          AreRounds(r, a, b, begin1, end1, begin2, end2, modified, m)
    BY RoundsExist
  <2> QED BY <2>1 DEF AreRounds
<1> DEFINE T == {n \in Nat : n \in 0 .. N => RoundInv(a, b, r[n], n, begin1, begin2, end2)}
<1> HIDE DEF N
<1>3. 0 \in T
  <2>1. RoundInv(a, b, FirstState(begin1, begin2), 0, begin1, begin2, end2)
    BY DEF RoundInv, FirstState, IsBlock
  <2> QED BY <1>2, <2>1
<1>4. ASSUME NEW n \in T PROVE n + 1 \in T
  <2>1. CASE n + 1 \in 0 .. N
    <3>1. n \in Nat /\ n \in 0 .. N /\ n + 1 \in 1 .. N /\ (n + 1) - 1 = n
          /\ begin1 + (n + 1) - 1 = begin1 + n /\ begin1 + n \in Nat
      BY <1>1, <2>1
    <3>2. r[n] \in MatchState /\ r[n + 1] \in MatchState
      BY <2>1, <3>1
    <3>3. r[n + 1] = for_each_b_match(a, b, begin2, end2, modified, r[n], begin1 + n)
      BY <1>2, <3>1
    <3>4. RoundInv(a, b, r[n], n, begin1, begin2, end2)
      BY <3>1
    <3> DEFINE s == r[n]  i == begin1 + n  r1 == r[n + 1]
    <3>5. s \in MatchState /\ r1 \in MatchState /\ i \in Nat /\ i = begin1 + n
          /\ r1 = for_each_b_match(a, b, begin2, end2, modified, s, i)
          /\ RoundInv(a, b, s, n, begin1, begin2, end2)
      BY <3>1, <3>2, <3>3, <3>4
    <3>6. RoundInv(a, b, r1, n + 1, begin1, begin2, end2)
      <4> HIDE DEF s, i, r1
      <4> QED BY <3>1, <3>5, RoundKeepsBlocks
    <3> QED BY <3>1, <3>6
  <2>2. CASE n + 1 \notin 0 .. N
    BY <2>2
  <2> QED BY <2>1, <2>2
<1>5. \A n \in Nat : n \in T
  <2>1. T \in SUBSET Nat
    OBVIOUS
  <2> HIDE DEF T
  <2> QED BY <1>3, <1>4, <2>1, SetInduction
<1>6. N \in 0 .. N /\ r[N] \in MatchState
  BY <1>1, <1>2
<1>7. RoundInv(a, b, r[N], N, begin1, begin2, end2)
  BY <1>1, <1>5, <1>6
<1>8. IsBlock(a, b, m, begin1, end1, begin2, end2)
  BY <1>1, <1>2, <1>7 DEF RoundInv
<1> QED BY <1>2, <1>6, <1>8 DEF MatchState

(***************************************************************************)
(* find_longest_matches: the blocks it collects are in one order in both.   *)
(***************************************************************************)

Bounds(n) ==
  {q \in (0 .. n) \X (0 .. n) \X (0 .. n) \X (0 .. n) : q[1] <= q[2] /\ q[3] <= q[4]}

\* Block m ends before block k begins, in a and in b.
Before(m, k) == m.i + m.size <= k.i /\ m.j + m.size <= k.j

\* Blocks within the bounds q, of which one is always before the other.
IsChain(a, b, M, q) ==
  /\ \A m \in M : m.size > 0 /\ IsBlock(a, b, m, q[1], q[2], q[3], q[4])
  /\ \A m, k \in M : m = k \/ Before(m, k) \/ Before(k, m)

\* One call finds a chain when the calls it makes do.
LEMMA MatchesWithinIsChain ==
  ASSUME NEW a, NEW b, NEW n \in Nat, NEW modified, \A x \in modified : x \in Int,
         NEW q \in Bounds(n), NEW found \in [Bounds(n) -> SUBSET Match],
         \A p \in Bounds(n) : IsChain(a, b, found[p], p)
  PROVE  /\ matches_within(a, b, modified, q, found) \in SUBSET Match
         /\ IsChain(a, b, matches_within(a, b, modified, q, found), q)
<1> DEFINE begin1 == q[1]  end1 == q[2]  begin2 == q[3]  end2 == q[4]
           m == find_longest_match(a, b, begin1, end1, begin2, end2, modified)
           p1 == <<begin1, m.i, begin2, m.j>>
           p2 == <<m.i + m.size, end1, m.j + m.size, end2>>
           L == IF m.i > begin1 /\ m.j > begin2 THEN found[p1] ELSE {}
           R == IF m.i + m.size < end2 /\ m.j + m.size < end2 THEN found[p2] ELSE {}
           W == matches_within(a, b, modified, q, found)
<1>1. W = IF m.size = 0 THEN {} ELSE {m} \union L \union R
  BY Zenon DEF matches_within
<1>2. /\ begin1 \in 0 .. n /\ end1 \in 0 .. n /\ begin2 \in 0 .. n /\ end2 \in 0 .. n
      /\ begin1 <= end1 /\ begin2 <= end2
  BY DEF Bounds
<1> HIDE DEF begin1, begin2, end1, end2, W
<1>3. m \in Match /\ IsBlock(a, b, m, begin1, end1, begin2, end2)
  <2>1. begin1 \in Nat /\ end1 \in Nat /\ begin2 \in Nat /\ end2 \in Nat
    BY <1>2
  <2> QED BY <1>2, <2>1, LongestMatchIsBlock
<1> HIDE DEF m
<1>4. CASE m.size = 0
  <2>1. W = {}
    BY <1>1, <1>4
  <2> QED BY <2>1 DEF W, IsChain
<1>5. CASE m.size # 0
  <2>1. W = {m} \union L \union R
    BY <1>1, <1>5
  <2>2. /\ m.i \in Nat /\ m.j \in Nat /\ m.size \in Nat /\ m.size > 0
        /\ begin1 <= m.i /\ m.i + m.size <= end1
        /\ begin2 <= m.j /\ m.j + m.size <= end2
    BY <1>3, <1>5 DEF IsBlock
  <2>3. p1 \in Bounds(n) /\ p2 \in Bounds(n)
    BY <1>2, <2>2 DEF Bounds
  <2>4. L \in SUBSET Match /\ IsChain(a, b, L, p1)
    <3>1. IsChain(a, b, {}, p1)
      BY DEF IsChain
    <3>2. IsChain(a, b, found[p1], p1) /\ found[p1] \in SUBSET Match
      BY <2>3
    <3> HIDE DEF p1
    <3> QED BY <3>1, <3>2
  <2>5. R \in SUBSET Match /\ IsChain(a, b, R, p2)
    <3>1. IsChain(a, b, {}, p2)
      BY DEF IsChain
    <3>2. IsChain(a, b, found[p2], p2) /\ found[p2] \in SUBSET Match
      BY <2>3
    <3> HIDE DEF p2
    <3> QED BY <3>1, <3>2
  <2>6. \A k \in L : IsBlock(a, b, k, begin1, m.i, begin2, m.j) /\ k.size > 0
    <3> HIDE DEF L
    <3> QED BY <2>4 DEF IsChain
  <2>7. \A k \in R : IsBlock(a, b, k, m.i + m.size, end1, m.j + m.size, end2) /\ k.size > 0
    <3> HIDE DEF R
    <3> QED BY <2>5 DEF IsChain
  <2>8. \A k, l \in L : k = l \/ Before(k, l) \/ Before(l, k)
    <3> HIDE DEF L
    <3> QED BY <2>4 DEF IsChain
  <2>9. \A k, l \in R : k = l \/ Before(k, l) \/ Before(l, k)
    <3> HIDE DEF R
    <3> QED BY <2>5 DEF IsChain
  <2> HIDE DEF L, R
  <2>10. \A k \in W : k.size > 0 /\ IsBlock(a, b, k, begin1, end1, begin2, end2)
    <3> SUFFICES ASSUME NEW k \in W
                 PROVE  k.size > 0 /\ IsBlock(a, b, k, begin1, end1, begin2, end2)
      OBVIOUS
    <3>1. CASE k = m
      BY <1>3, <2>2, <3>1
    <3>2. CASE k \in L
      BY <1>2, <2>2, <2>6, <3>2 DEF IsBlock
    <3>3. CASE k \in R
      BY <1>2, <2>2, <2>7, <3>3 DEF IsBlock
    <3> QED BY <2>1, <3>1, <3>2, <3>3
  <2>11. \A k \in L : Before(k, m)
    BY <2>6 DEF IsBlock, Before
  <2>12. \A k \in R : Before(m, k)
    BY <2>7 DEF IsBlock, Before
  <2>13. \A k \in L, l \in R : Before(k, l)
    <3> SUFFICES ASSUME NEW k \in L, NEW l \in R PROVE Before(k, l)
      OBVIOUS
    <3>1. k.i + k.size <= m.i /\ k.j + k.size <= m.j /\ k.i \in Nat /\ k.j \in Nat /\ k.size \in Nat
      BY <2>6 DEF IsBlock
    <3>2. m.i + m.size <= l.i /\ m.j + m.size <= l.j /\ l.i \in Nat /\ l.j \in Nat
      BY <2>7 DEF IsBlock
    <3> QED BY <2>2, <3>1, <3>2 DEF Before
  <2>14. \A k, l \in W : k = l \/ Before(k, l) \/ Before(l, k)
    BY <2>1, <2>8, <2>9, <2>11, <2>12, <2>13
  <2>15. W \in SUBSET Match
    BY <1>3, <2>1, <2>4, <2>5
  <2> QED BY <2>10, <2>14, <2>15 DEF W, IsChain, begin1, begin2, end1, end2
<1> QED BY <1>4, <1>5

\* The blocks of a call of find_longest_matches that finds a chain for each bounds.
Chains(a, b, n) ==
  {f \in [Bounds(n) -> SUBSET Match] : \A p \in Bounds(n) : IsChain(a, b, f[p], p)}

\* find_longest_matches returns blocks of equal rows, one after the other in both
\* lists.
LEMMA LongestMatchesAreChain ==
  ASSUME NEW a, NEW b, Len(a) \in Nat, NEW first \in 0 .. Len(a),
         NEW modified, \A x \in modified : x \in Int
  PROVE  IsChain(a, b, find_longest_matches(a, b, first, modified),
                 <<first, Len(a), first, Len(a)>>)
<1> DEFINE n == Len(a)
           B == Bounds(n)
           S == Chains(a, b, n)
           base == [q \in B |-> {}]
           step(f) == [q \in B |-> matches_within(a, b, modified, q, f)]
           body(f) == [d \in 0 .. n |->
                        [q \in B |-> IF d = 0 THEN {}
                                     ELSE matches_within(a, b, modified, q, f[d - 1])]]
           find == CHOOSE f : f = body(f)
           G == [e \in S \X Nat |-> step(e[1])]
<1>1. find_longest_matches(a, b, first, modified) = find[n][<<first, n, first, n>>]
  BY Zenon DEF find_longest_matches, Bounds
<1>2. n \in Nat /\ first \in 0 .. n
  OBVIOUS
<1> HIDE DEF n
<1>3. base \in S
  <2>1. \A p \in B : IsChain(a, b, {}, p)
    BY DEF IsChain
  <2> HIDE DEF B
  <2>2. \A p \in B : IsChain(a, b, base[p], p)
    BY <2>1
  <2>3. base \in [B -> SUBSET Match]
    OBVIOUS
  <2> QED BY <2>2, <2>3 DEF Chains, B
<1>4. ASSUME NEW f \in S PROVE step(f) \in S
  <2>1. f \in [B -> SUBSET Match] /\ \A p \in B : IsChain(a, b, f[p], p)
    BY DEF Chains
  <2>2. \A q \in B : /\ matches_within(a, b, modified, q, f) \in SUBSET Match
                     /\ IsChain(a, b, matches_within(a, b, modified, q, f), q)
    BY <1>2, <2>1, MatchesWithinIsChain
  <2> HIDE DEF B
  <2>3. step(f) \in [B -> SUBSET Match]
    BY <2>2
  <2>4. \A q \in B : step(f)[q] = matches_within(a, b, modified, q, f)
    OBVIOUS
  <2> HIDE DEF step
  <2>5. \A q \in B : IsChain(a, b, step(f)[q], q)
    BY <2>2, <2>4
  <2> QED BY <2>3, <2>5 DEF Chains, B
<1> HIDE DEF S, B, base, step
<1>5. G \in [S \X Nat -> S]
  BY <1>4
<1>6. PICK f \in [0 .. n -> S] :
        f[0] = base /\ \A d \in 1 .. n : f[d] = G[<<f[d - 1], d>>]
  <2> HIDE DEF G
  <2>1. \E f \in [0 .. n -> S] : IsIteration(f, base, G, n)
    BY <1>2, <1>3, <1>5, Iteration
  <2> QED BY <2>1 DEF IsIteration
<1>7. ASSUME NEW d \in 1 .. n PROVE f[d] = step(f[d - 1])
  <2>1. d - 1 \in 0 .. n /\ d \in Nat
    BY <1>2
  <2>2. <<f[d - 1], d>> \in S \X Nat
    BY <2>1
  <2>3. G[<<f[d - 1], d>>] = step(f[d - 1])
    BY <2>2
  <2> QED BY <1>6, <2>3
<1> DEFINE row(h, d) == [q \in B |-> IF d = 0 THEN {}
                                     ELSE matches_within(a, b, modified, q, h[d - 1])]
<1>8. ASSUME NEW h, NEW d PROVE row(h, d) = IF d = 0 THEN base ELSE step(h[d - 1])
  BY DEF base, step
<1>9. \A h : body(h) = [d \in 0 .. n |-> row(h, d)]
  BY Zenon
<1>10. f = body(f)
  <2>1. ASSUME NEW d \in 0 .. n PROVE f[d] = row(f, d)
    <3> HIDE DEF row
    <3>1. CASE d = 0
      BY <1>6, <1>8, <3>1
    <3>2. CASE d # 0
      <4>1. d \in 1 .. n
        BY <1>2, <3>2
      <4> QED BY <1>7, <1>8, <3>2, <4>1
    <3> QED BY <3>1, <3>2
  <2> HIDE DEF row, body
  <2>2. f = [d \in 0 .. n |-> row(f, d)]
    BY <2>1
  <2> QED BY <1>9, <2>2
<1>11. find = body(find)
  <2> HIDE DEF body
  <2> QED BY <1>10, Zenon
<1> HIDE DEF find, row, body
<1>12. \A d \in 0 .. n : find[d] = row(find, d)
  BY <1>9, <1>11
<1> DEFINE T == {d \in Nat : d \in 0 .. n => find[d] \in S}
<1>13. 0 \in T
  BY <1>2, <1>3, <1>8, <1>12
<1>14. ASSUME NEW d \in T PROVE d + 1 \in T
  <2>1. CASE d + 1 \in 0 .. n
    <3>1. d \in Nat /\ d \in 0 .. n /\ (d + 1) - 1 = d /\ d + 1 # 0 /\ d + 1 \in Nat
      BY <1>2, <2>1
    <3>2. find[d] \in S
      BY <3>1
    <3>3. find[d + 1] = step(find[d])
      BY <1>8, <1>12, <2>1, <3>1
    <3>4. find[d + 1] \in S
      BY <1>4, <3>2, <3>3
    <3> QED BY <3>1, <3>4
  <2>2. CASE d + 1 \notin 0 .. n
    BY <2>2
  <2> QED BY <2>1, <2>2
<1>15. \A d \in Nat : d \in T
  <2>1. T \in SUBSET Nat
    OBVIOUS
  <2> HIDE DEF T
  <2> QED BY <1>13, <1>14, <2>1, SetInduction
<1>16. find[n] \in S
  BY <1>2, <1>15
<1>17. <<first, n, first, n>> \in B
  BY <1>2 DEF B, Bounds
<1>18. IsChain(a, b, find[n][<<first, n, first, n>>], <<first, n, first, n>>)
  BY <1>16, <1>17 DEF S, B, Chains
<1> QED BY <1>1, <1>18 DEF n

(***************************************************************************)
(* Matchings: what is left of a collection of np rows without D is, in the  *)
(* same order, what is left of one of nq rows without I.                    *)
(***************************************************************************)

Rest(n, S) == {x \in 0 .. n - 1 : x \notin S}

IsMatching(w, np, D, nq, I) ==
  /\ w \in [Rest(nq, I) -> Rest(np, D)]
  /\ \A p \in Rest(np, D) : \E q \in Rest(nq, I) : w[q] = p
  /\ \A q, r \in Rest(nq, I) : q < r => w[q] < w[r]

\* An index is unshifted to the number of the rows left before it.
LEMMA UnshiftIsRank ==
  ASSUME NEW n \in Nat, NEW S, \A x \in S : x \in Nat, NEW i \in 0 .. n
  PROVE  /\ IsFiniteSet({x \in Rest(n, S) : x < i})
         /\ Cardinality({x \in Rest(n, S) : x < i}) = unshift(S, i)
<1> DEFINE A == {x \in Rest(n, S) : x < i}
           B == {x \in S : 0 <= x /\ x < i}
<1>1. A \union B = 0 .. i - 1 /\ A \intersect B = {} /\ i - 1 \in Int
  BY DEF Rest
<1>2. IsFiniteSet(0 .. i - 1) /\ Cardinality(0 .. i - 1) = i
  <2>1. /\ IsFiniteSet(0 .. i - 1)
        /\ Cardinality(0 .. i - 1) = IF 0 > i - 1 THEN 0 ELSE (i - 1) - 0 + 1
    BY <1>1, FS_Interval
  <2> QED BY <2>1
<1> HIDE DEF A, B
<1>3. IsFiniteSet(A) /\ IsFiniteSet(B)
  <2>1. A \in SUBSET (0 .. i - 1) /\ B \in SUBSET (0 .. i - 1)
    BY <1>1, Zenon
  <2> QED BY <1>2, <2>1, FS_Subset
<1>4. Cardinality(A \union B) = Cardinality(A) + Cardinality(B) - Cardinality(A \intersect B)
  BY <1>3, FS_Union
<1>5. Cardinality(A \intersect B) = 0 /\ Cardinality(A \union B) = i
  <2>1. Cardinality(A \intersect B) = 0
    BY <1>1, FS_EmptySet, Zenon
  <2>2. Cardinality(A \union B) = i
    BY <1>1, <1>2, Zenon
  <2> QED BY <2>1, <2>2
<1>6. Cardinality(A) \in Nat /\ Cardinality(B) \in Nat
  BY <1>3, FS_CardinalityType
<1>7. Cardinality(A) = i - Cardinality(B)
  BY <1>4, <1>5, <1>6
<1> QED BY <1>3, <1>7 DEF A, B, unshift, count

\* A cut through a matching has as many rows on either side.
LEMMA MatchingCut ==
  ASSUME NEW np \in Nat, NEW nq \in Nat, NEW D, NEW I,
         \A x \in D : x \in Nat, \A x \in I : x \in Nat,
         NEW w, IsMatching(w, np, D, nq, I),
         NEW p \in 0 .. np, NEW q \in 0 .. nq,
         \A x \in Rest(nq, I) : x < q <=> w[x] < p
  PROVE  unshift(D, p) = unshift(I, q)
<1> DEFINE A == {x \in Rest(nq, I) : x < q}
           B == {x \in Rest(np, D) : x < p}
           f == [x \in A |-> w[x]]
<1>1. IsFiniteSet(A) /\ Cardinality(A) = unshift(I, q)
  BY UnshiftIsRank
<1>2. IsFiniteSet(B) /\ Cardinality(B) = unshift(D, p)
  BY UnshiftIsRank
<1>3. f \in [A -> B]
  BY DEF IsMatching
<1>4. \A x, y \in A : f[x] = f[y] => x = y
  <2> SUFFICES ASSUME NEW x \in A, NEW y \in A, x # y PROVE f[x] # f[y]
    OBVIOUS
  <2>1. x \in Int /\ y \in Int /\ w[x] \in Int /\ w[y] \in Int
    BY DEF IsMatching, Rest
  <2>2. w[x] < w[y] \/ w[y] < w[x]
    BY <2>1 DEF IsMatching
  <2> QED BY <2>1, <2>2
<1>5. \A y \in B : \E x \in A : f[x] = y
  <2> SUFFICES ASSUME NEW y \in B PROVE \E x \in A : f[x] = y
    OBVIOUS
  <2>1. PICK x \in Rest(nq, I) : w[x] = y
    BY DEF IsMatching
  <2>2. x \in A
    BY <2>1
  <2> QED BY <2>1, <2>2
<1> HIDE DEF f, A, B
<1>6. f \in Bijection(A, B)
  BY <1>3, <1>4, <1>5, Zenon DEF Bijection, Injection, Surjection, IsInjective
<1>7. Cardinality(B) = Cardinality(A)
  BY <1>1, <1>6, FS_Bijection, Zenon DEF ExistsBijection
<1> QED BY <1>1, <1>2, <1>7

ArePlaces(w, np, D, nq, I) ==
  /\ \A q \in Rest(nq, I) : shift(D, unshift(I, q)) = w[q]
  /\ np - Cardinality(D) + Cardinality(I) = nq

\* Matched rows have the same number of rows left before them, so that unshifting
\* the one and shifting the result gives the other; and the sizes fit.
LEMMA MatchingPlaces ==
  ASSUME NEW np \in Nat, NEW nq \in Nat, NEW D, NEW I,
         \A x \in D : x \in 0 .. np - 1, \A x \in I : x \in 0 .. nq - 1,
         NEW w, IsMatching(w, np, D, nq, I)
  PROVE  ArePlaces(w, np, D, nq, I)
<1>1. (\A x \in D : x \in Nat) /\ (\A x \in I : x \in Nat)
  OBVIOUS
<1>2. IsFiniteSet(D) /\ IsFiniteSet(I)
  <2>1. D \in SUBSET (0 .. np - 1) /\ I \in SUBSET (0 .. nq - 1) /\ np - 1 \in Int /\ nq - 1 \in Int
    <3>1. D \subseteq 0 .. np - 1 /\ I \subseteq 0 .. nq - 1
      OBVIOUS
    <3> QED BY <3>1
  <2>2. IsFiniteSet(0 .. np - 1) /\ IsFiniteSet(0 .. nq - 1)
    BY <2>1, FS_Interval
  <2> QED BY <2>1, <2>2, FS_Subset
<1>3. ASSUME NEW q \in Rest(nq, I) PROVE shift(D, unshift(I, q)) = w[q]
  <2>1. w[q] \in 0 .. np /\ q \in 0 .. nq /\ w[q] \in Nat \ D
    BY DEF IsMatching, Rest
  <2>2. \A x \in Rest(nq, I) : x < q <=> w[x] < w[q]
    <3> SUFFICES ASSUME NEW x \in Rest(nq, I) PROVE x < q <=> w[x] < w[q]
      OBVIOUS
    <3>1. x \in Int /\ q \in Int /\ w[x] \in Int /\ w[q] \in Int
      BY DEF IsMatching, Rest
    <3>2. (x < q => w[x] < w[q]) /\ (q < x => w[q] < w[x]) /\ (x = q => w[x] = w[q])
      BY DEF IsMatching
    <3> QED BY <3>1, <3>2
  <2> DEFINE p == w[q]
  <2>3. unshift(D, p) = unshift(I, q)
    <3>1. p \in 0 .. np /\ \A x \in Rest(nq, I) : x < q <=> w[x] < p
      BY <2>1, <2>2
    <3> HIDE DEF p
    <3> QED BY <1>1, <2>1, <3>1, MatchingCut
  <2>4. shift(D, unshift(D, p)) = p
    <3>1. p \in Nat \ D
      BY <2>1
    <3> HIDE DEF p
    <3> QED BY <1>1, <1>2, <3>1, ShiftUnshift
  <2> QED BY <2>3, <2>4
<1>4. np - Cardinality(D) + Cardinality(I) = nq
  <2>1. \A x \in Rest(nq, I) : x < nq <=> w[x] < np
    BY DEF IsMatching, Rest
  <2>2. unshift(D, np) = unshift(I, nq)
    <3>1. np \in 0 .. np /\ nq \in 0 .. nq
      OBVIOUS
    <3> QED BY <1>1, <2>1, <3>1, MatchingCut
  <2>3. count(D, 0, np) = Cardinality(D) /\ count(I, 0, nq) = Cardinality(I)
    BY CountAll
  <2>4. Cardinality(D) \in Nat /\ Cardinality(I) \in Nat
    BY <1>2, FS_CardinalityType
  <2>5. np - Cardinality(D) = nq - Cardinality(I)
    BY <2>2, <2>3 DEF unshift
  <2> QED BY <2>4, <2>5
<1> QED BY <1>3, <1>4 DEF ArePlaces

(***************************************************************************)
(* Exact changes: without the rows D the list prev, of np rows, is the list *)
(* next, of nq rows, without the rows I.                                    *)
(***************************************************************************)

IsExact(prev, next, np, nq, D, I) ==
  /\ \A q \in Rest(nq, I) : \E p \in Rest(np, D) : prev[p + 1] = next[q + 1]
  /\ \A p \in Rest(np, D) : \E q \in Rest(nq, I) : prev[p + 1] = next[q + 1]
  /\ \A p, p1 \in Rest(np, D), q, q1 \in Rest(nq, I) :
       prev[p + 1] = next[q + 1] /\ prev[p1 + 1] = next[q1 + 1] => (q < q1 <=> p < p1)

IsInjectiveList(f, n) == \A k, l \in 1 .. n : f[k] = f[l] => k = l

IsRowMatching(w, prev, next, np, D, nq, I) ==
  /\ IsMatching(w, np, D, nq, I)
  /\ \A q \in Rest(nq, I) : prev[w[q] + 1] = next[q + 1]

\* An exact change gives a matching of equal rows.
LEMMA ExactIsMatching ==
  ASSUME NEW prev, NEW next, NEW np \in Nat, NEW nq \in Nat, NEW D, NEW I,
         IsExact(prev, next, np, nq, D, I)
  PROVE  \E w : IsRowMatching(w, prev, next, np, D, nq, I)
<1> DEFINE P == Rest(np, D)
           Q == Rest(nq, I)
           to(q) == CHOOSE p \in P : prev[p + 1] = next[q + 1]
           w == [q \in Q |-> to(q)]
<1>1. ASSUME NEW q \in Q PROVE to(q) \in P /\ prev[to(q) + 1] = next[q + 1]
  BY Zenon DEF IsExact
<1> HIDE DEF to
<1>2. w \in [Q -> P] /\ \A q \in Q : w[q] = to(q)
  BY <1>1
<1> HIDE DEF w
<1>3. \A q \in Q : prev[w[q] + 1] = next[q + 1]
  BY <1>1, <1>2
<1>4. ASSUME NEW p \in P PROVE \E q \in Q : w[q] = p
  <2>1. PICK q \in Q : prev[p + 1] = next[q + 1]
    BY DEF IsExact
  <2>2. w[q] \in P /\ prev[w[q] + 1] = next[q + 1]
    BY <1>2, <1>3
  <2>3. p \in Int /\ w[q] \in Int
    BY <2>2 DEF Rest
  <2>4. p = w[q]
    <3>1. q \in Int /\ ~ q < q
      BY DEF Rest
    <3>2. ~ p < w[q] /\ ~ w[q] < p
      BY <2>1, <2>2, <3>1 DEF IsExact
    <3> QED BY <2>3, <3>2
  <2> QED BY <2>4
<1>5. \A q, r \in Q : q < r => w[q] < w[r]
  <2> SUFFICES ASSUME NEW q \in Q, NEW r \in Q, q < r PROVE w[q] < w[r]
    OBVIOUS
  <2>1. w[q] \in P /\ w[r] \in P
    BY <1>2
  <2>2. prev[w[q] + 1] = next[q + 1] /\ prev[w[r] + 1] = next[r + 1]
    BY <1>3
  <2> HIDE DEF P, Q
  <2>3. \A p, p1 \in P, s, s1 \in Q :
          prev[p + 1] = next[s + 1] /\ prev[p1 + 1] = next[s1 + 1] => (s < s1 <=> p < p1)
    BY Zenon DEF IsExact, P, Q
  <2> QED BY <2>1, <2>2, <2>3
<1>6. IsMatching(w, np, D, nq, I)
  BY <1>2, <1>4, <1>5 DEF IsMatching
<1> QED BY <1>3, <1>6 DEF IsRowMatching

\* The rows outside a chain of blocks are an exact change.
LEMMA ChainIsExact ==
  ASSUME NEW N \in Nat, NEW a, NEW b, IsInjectiveList(a, N), IsInjectiveList(b, N),
         NEW first \in 0 .. N, \A k \in 1 .. first : a[k] = b[k],
         NEW M, IsChain(a, b, M, <<first, N, first, N>>),
         NEW A, A = {i \in first .. N - 1 : \A m \in M : i \notin m.i .. m.i + m.size - 1},
         NEW B, B = {j \in first .. N - 1 : \A m \in M : j \notin m.j .. m.j + m.size - 1}
  PROVE  IsExact(a, b, N, N, A, B)
<1>1. \A m \in M : /\ m.i \in Nat /\ m.j \in Nat /\ m.size \in Nat
                    /\ first <= m.i /\ m.i + m.size <= N
                    /\ first <= m.j /\ m.j + m.size <= N
                    /\ \A t \in 0 .. m.size - 1 : a[m.i + t + 1] = b[m.j + t + 1]
  BY DEF IsChain, IsBlock
<1>2. \A m, k \in M : m = k \/ Before(m, k) \/ Before(k, m)
  BY DEF IsChain
<1> DEFINE Linked(i, j) == \/ i < first /\ i = j
                           \/ \E m \in M : /\ i \in m.i .. m.i + m.size - 1
                                            /\ j \in m.j .. m.j + m.size - 1
                                            /\ i - m.i = j - m.j
<1>3. ASSUME NEW j \in Rest(N, B) PROVE \E i \in Rest(N, A) : Linked(i, j)
  <2>1. CASE j < first
    <3>1. j \in Rest(N, A)
      BY <2>1 DEF Rest
    <3> QED BY <2>1, <3>1
  <2>2. CASE ~ j < first
    <3>1. j \in first .. N - 1 /\ j \notin B
      BY <2>2 DEF Rest
    <3>2. PICK m \in M : j \in m.j .. m.j + m.size - 1
      BY <3>1
    <3> DEFINE i == m.i + (j - m.j)
    <3>3. i \in m.i .. m.i + m.size - 1 /\ i - m.i = j - m.j /\ i \in 0 .. N - 1
      BY <1>1, <3>1, <3>2
    <3> HIDE DEF i
    <3>4. i \in Rest(N, A)
      BY <3>3 DEF Rest
    <3> QED BY <3>2, <3>3, <3>4
  <2> QED BY <2>1, <2>2
<1>4. ASSUME NEW i \in Rest(N, A) PROVE \E j \in Rest(N, B) : Linked(i, j)
  <2>1. CASE i < first
    <3>1. i \in Rest(N, B)
      BY <2>1 DEF Rest
    <3> QED BY <2>1, <3>1
  <2>2. CASE ~ i < first
    <3>1. i \in first .. N - 1 /\ i \notin A
      BY <2>2 DEF Rest
    <3>2. PICK m \in M : i \in m.i .. m.i + m.size - 1
      BY <3>1
    <3> DEFINE j == m.j + (i - m.i)
    <3>3. j \in m.j .. m.j + m.size - 1 /\ i - m.i = j - m.j /\ j \in 0 .. N - 1
      BY <1>1, <3>1, <3>2
    <3> HIDE DEF j
    <3>4. j \in Rest(N, B)
      BY <3>3 DEF Rest
    <3> QED BY <3>2, <3>3, <3>4
  <2> QED BY <2>1, <2>2
<1>5. ASSUME NEW i \in 0 .. N - 1, NEW j \in 0 .. N - 1, Linked(i, j)
      PROVE  a[i + 1] = b[j + 1]
  <2>1. CASE i < first /\ i = j
    <3>1. i + 1 \in 1 .. first
      BY <2>1
    <3> QED BY <2>1, <3>1
  <2>2. ASSUME NEW m \in M, i \in m.i .. m.i + m.size - 1,
               j \in m.j .. m.j + m.size - 1, i - m.i = j - m.j
        PROVE  a[i + 1] = b[j + 1]
    <3> DEFINE t == i - m.i
    <3>1. t \in 0 .. m.size - 1 /\ m.i + t + 1 = i + 1 /\ m.j + t + 1 = j + 1
      BY <1>1, <2>2
    <3> HIDE DEF t
    <3> QED BY <1>1, <3>1
  <2> QED BY <1>5, <2>1, <2>2
<1>6. ASSUME NEW i \in 0 .. N - 1, NEW j \in 0 .. N - 1, Linked(i, j),
             NEW i1 \in 0 .. N - 1, NEW j1 \in 0 .. N - 1, Linked(i1, j1)
      PROVE  j < j1 <=> i < i1
  <2>1. CASE i < first /\ i = j /\ i1 < first /\ i1 = j1
    BY <2>1
  <2>2. ASSUME NEW m \in M, i \in m.i .. m.i + m.size - 1, j \in m.j .. m.j + m.size - 1
        PROVE  first <= i /\ first <= j
    BY <1>1, <2>2
  <2>3. ASSUME NEW m \in M, i1 \in m.i .. m.i + m.size - 1, j1 \in m.j .. m.j + m.size - 1
        PROVE  first <= i1 /\ first <= j1
    BY <1>1, <2>3
  <2>4. ASSUME NEW m \in M, i \in m.i .. m.i + m.size - 1,
               j \in m.j .. m.j + m.size - 1, i - m.i = j - m.j,
               NEW k \in M, i1 \in k.i .. k.i + k.size - 1,
               j1 \in k.j .. k.j + k.size - 1, i1 - k.i = j1 - k.j
        PROVE  j < j1 <=> i < i1
    <3>1. /\ m.i \in Nat /\ m.j \in Nat /\ m.size \in Nat
          /\ k.i \in Nat /\ k.j \in Nat /\ k.size \in Nat
      BY <1>1
    <3>2. CASE m = k
      BY <2>4, <3>1, <3>2
    <3>3. CASE Before(m, k)
      BY <2>4, <3>1, <3>3 DEF Before
    <3>4. CASE Before(k, m)
      BY <2>4, <3>1, <3>4 DEF Before
    <3> QED BY <1>2, <3>2, <3>3, <3>4
  <2> QED BY <1>6, <2>1, <2>2, <2>3, <2>4
<1>7. \A i \in Rest(N, A) : i \in 0 .. N - 1
  BY DEF Rest
<1>8. \A j \in Rest(N, B) : j \in 0 .. N - 1
  BY DEF Rest
<1>9. ASSUME NEW i \in Rest(N, A), NEW j \in Rest(N, B), a[i + 1] = b[j + 1]
      PROVE  Linked(i, j)
  <2>1. PICK k \in Rest(N, B) : Linked(i, k)
    BY <1>4
  <2> HIDE DEF Linked
  <2>2. a[i + 1] = b[k + 1]
    BY <1>5, <1>7, <1>8, <2>1
  <2>3. j + 1 \in 1 .. N /\ k + 1 \in 1 .. N /\ j \in Int /\ k \in Int
    BY <1>8
  <2>4. j + 1 = k + 1
    BY <1>9, <2>2, <2>3 DEF IsInjectiveList
  <2>5. j = k
    BY <2>3, <2>4
  <2> QED BY <2>1, <2>5
<1> HIDE DEF Linked
<1>10. \A q \in Rest(N, B) : \E p \in Rest(N, A) : a[p + 1] = b[q + 1]
  BY <1>3, <1>5, <1>7, <1>8
<1>11. \A p \in Rest(N, A) : \E q \in Rest(N, B) : a[p + 1] = b[q + 1]
  BY <1>4, <1>5, <1>7, <1>8
<1>12. ASSUME NEW p \in Rest(N, A), NEW p1 \in Rest(N, A),
              NEW q \in Rest(N, B), NEW q1 \in Rest(N, B),
              a[p + 1] = b[q + 1], a[p1 + 1] = b[q1 + 1]
       PROVE  q < q1 <=> p < p1
  <2>1. Linked(p, q) /\ Linked(p1, q1)
    BY <1>9, <1>12
  <2> QED BY <1>6, <1>7, <1>8, <2>1
<1>13. \A p, p1 \in Rest(N, A), q, q1 \in Rest(N, B) :
         a[p + 1] = b[q + 1] /\ a[p1 + 1] = b[q1 + 1] => (q < q1 <=> p < p1)
  BY <1>12
<1> QED BY <1>10, <1>11, <1>13 DEF IsExact

(***************************************************************************)
(* SharedRows: the rows that both results have.                             *)
(***************************************************************************)

\* prev and next as calculate gets them: lists of np and nq table rows, each row
\* at most once, npos only in prev.
AreResults(prev, next, np, nq) ==
  /\ prev \in [1 .. np -> Int] /\ next \in [1 .. nq -> Int]
  /\ \A k, l \in 1 .. np : prev[k] = prev[l] /\ prev[k] # npos => k = l
  /\ IsInjectiveList(next, nq)
  /\ \A k \in 1 .. nq : next[k] # npos

\* The rows of the old results that are gone from the table.
Gone(prev, np) == {p \in 0 .. np - 1 : prev[p + 1] = npos}

AreShared(rows, N, prev, next, np, nq) ==
  /\ DOMAIN rows = 1 .. N /\ rows = [k \in 1 .. N |-> rows[k]]
  /\ \A k \in 1 .. N : /\ rows[k].tv_index \in 0 .. nq - 1
                       /\ rows[k].prev_tv_index \in 0 .. np - 1
                       /\ next[rows[k].tv_index + 1] = rows[k].row_index
                       /\ prev[rows[k].prev_tv_index + 1] = rows[k].row_index
                       /\ rows[k].shifted_tv_index
                            = unshift(Gone(prev, np), rows[k].prev_tv_index)
  /\ \A k, l \in 1 .. N : k < l => rows[k].tv_index < rows[l].tv_index
  /\ \A p \in 0 .. np - 1, q \in 0 .. nq - 1 :
       prev[p + 1] = next[q + 1] =>
         \E k \in 1 .. N : rows[k].tv_index = q /\ rows[k].prev_tv_index = p

\* Numbers in their order.
LEMMA SortedNumbers ==
  ASSUME NEW S, IsFiniteSet(S), \A x \in S : x \in Int,
         NEW s, s = SortedBy(S, {e \in S \X S : e[1] < e[2]})
  PROVE  /\ Cardinality(S) \in Nat
         /\ s \in [1 .. Cardinality(S) -> S]
         /\ \A x \in S : \E k \in 1 .. Cardinality(S) : s[k] = x
         /\ \A k, l \in 1 .. Cardinality(S) : k < l <=> s[k] < s[l]
<1> DEFINE before == {e \in S \X S : e[1] < e[2]}
<1>1. \A x, y \in S : <<x, y>> \in before <=> x < y
  OBVIOUS
<1> HIDE DEF before
<1>2. IsStrictOrder(before, S)
  <2>1. \A x, y \in S : <<x, y>> \in before => <<y, x>> \notin before
    BY <1>1
  <2>2. \A x, y, z \in S : <<x, y>> \in before /\ <<y, z>> \in before => <<x, z>> \in before
    BY <1>1
  <2>3. ASSUME NEW x \in S, NEW y \in S
        PROVE  x = y \/ <<x, y>> \in before \/ <<y, x>> \in before
    <3>1. x \in Int /\ y \in Int
      OBVIOUS
    <3>2. x = y \/ x < y \/ y < x
      BY <3>1
    <3> QED BY <1>1, <3>2
  <2> QED BY <2>1, <2>2, <2>3 DEF IsStrictOrder
<1>3. s = SortedBy(S, before)
  BY Zenon DEF before
<1>4. /\ Cardinality(S) \in Nat
      /\ s \in [1 .. Cardinality(S) -> S]
      /\ \A x \in S : \E k \in 1 .. Cardinality(S) : s[k] = x
      /\ \A k, l \in 1 .. Cardinality(S) : k < l <=> <<s[k], s[l]>> \in before
  <2> DEFINE t == SortedBy(S, before)
  <2>1. /\ Cardinality(S) \in Nat
        /\ t \in [1 .. Cardinality(S) -> S]
        /\ \A x \in S : \E k \in 1 .. Cardinality(S) : t[k] = x
        /\ \A k, l \in 1 .. Cardinality(S) : k < l <=> <<t[k], t[l]>> \in before
    BY <1>2, SortedByOrders
  <2>2. s = t
    BY <1>3
  <2> HIDE DEF t
  <2> QED BY <2>1, <2>2
<1> QED BY <1>1, <1>4

\* SharedRows pairs the rows that are in both results.
LEMMA SharedRowsAreShared ==
  ASSUME NEW np \in Nat, NEW nq \in Nat, NEW prev, NEW next, AreResults(prev, next, np, nq)
  PROVE  \E N \in Nat : AreShared(SharedRows(prev, next), N, prev, next, np, nq)
<1> DEFINE shared == {n \in DOMAIN next : next[n] \in Range(prev)}
           s == SortedBy(shared, {e \in shared \X shared : e[1] < e[2]})
           was(n) == CHOOSE p \in DOMAIN prev : prev[p] = next[n]
           gone(n) == {q \in 0 .. was(n) - 2 : prev[q + 1] = npos}
           row(n) == [row_index |-> next[n], tv_index |-> n - 1, prev_tv_index |-> was(n) - 1,
                      shifted_tv_index |-> was(n) - 1 - Cardinality(gone(n))]
           rows == SharedRows(prev, next)
           N == Cardinality(shared)
<1>1. rows = [k \in DOMAIN s |-> row(s[k])]
  BY Zenon DEF SharedRows
<1>2. DOMAIN prev = 1 .. np /\ DOMAIN next = 1 .. nq
  BY DEF AreResults
<1>3. IsFiniteSet(shared) /\ \A x \in shared : x \in Int
  <2>1. IsFiniteSet(1 .. nq)
    BY FS_Interval
  <2>2. shared \in SUBSET (1 .. nq)
    BY <1>2
  <2> HIDE DEF shared
  <2>3. IsFiniteSet(shared)
    BY <2>1, <2>2, FS_Subset
  <2> QED BY <2>2, <2>3
<1>4. ASSUME NEW n \in shared
      PROVE  was(n) \in 1 .. np /\ prev[was(n)] = next[n] /\ n \in 1 .. nq
  <2>1. \E p \in DOMAIN prev : prev[p] = next[n]
    BY DEF Range
  <2> QED BY <1>2, <2>1, Zenon
<1>5. ASSUME NEW p \in 1 .. np, NEW n \in 1 .. nq, prev[p] = next[n]
      PROVE  n \in shared /\ was(n) = p
  <2>1. n \in shared
    BY <1>2, <1>5 DEF Range
  <2>2. was(n) \in 1 .. np /\ prev[was(n)] = next[n]
    BY <1>4, <2>1
  <2> HIDE DEF was
  <2> QED BY <1>5, <2>1, <2>2 DEF AreResults
<1>a. ASSUME NEW n \in shared
      PROVE  was(n) - 1 - Cardinality(gone(n)) = unshift(Gone(prev, np), was(n) - 1)
  <2>1. was(n) \in 1 .. np
    BY <1>4
  <2> HIDE DEF was
  <2>2. gone(n) = {i \in Gone(prev, np) : 0 <= i /\ i < was(n) - 1}
    BY <2>1 DEF Gone
  <2> QED BY <2>2 DEF unshift, count
<1> HIDE DEF shared, was, gone
<1>6. /\ N \in Nat
      /\ s \in [1 .. N -> shared]
      /\ \A x \in shared : \E k \in 1 .. N : s[k] = x
      /\ \A k, l \in 1 .. N : k < l <=> s[k] < s[l]
  BY <1>3, SortedNumbers
<1> HIDE DEF s, N
<1>7. DOMAIN rows = 1 .. N /\ rows = [k \in 1 .. N |-> rows[k]]
  BY <1>1, <1>6
<1>8. ASSUME NEW k \in 1 .. N
      PROVE  /\ rows[k].row_index = next[s[k]]
             /\ rows[k].tv_index = s[k] - 1
             /\ rows[k].prev_tv_index = was(s[k]) - 1
             /\ rows[k].shifted_tv_index = was(s[k]) - 1 - Cardinality(gone(s[k]))
  <2>1. rows[k] = row(s[k])
    BY <1>1, <1>6
  <2> HIDE DEF rows
  <2> QED BY <2>1
<1> HIDE DEF rows, row
<1>9. ASSUME NEW k \in 1 .. N
      PROVE  /\ rows[k].tv_index \in 0 .. nq - 1
             /\ rows[k].prev_tv_index \in 0 .. np - 1
             /\ next[rows[k].tv_index + 1] = rows[k].row_index
             /\ prev[rows[k].prev_tv_index + 1] = rows[k].row_index
             /\ rows[k].shifted_tv_index = unshift(Gone(prev, np), rows[k].prev_tv_index)
  <2>1. s[k] \in shared
    BY <1>6
  <2>2. was(s[k]) \in 1 .. np /\ prev[was(s[k])] = next[s[k]] /\ s[k] \in 1 .. nq
    BY <1>4, <2>1
  <2>3. rows[k].tv_index + 1 = s[k] /\ rows[k].prev_tv_index + 1 = was(s[k])
    BY <1>8, <2>2
  <2>4. rows[k].shifted_tv_index = unshift(Gone(prev, np), rows[k].prev_tv_index)
    BY <1>a, <1>8, <2>1
  <2> QED BY <1>8, <2>2, <2>3, <2>4
<1>10. ASSUME NEW k \in 1 .. N, NEW l \in 1 .. N, k < l
       PROVE  rows[k].tv_index < rows[l].tv_index
  <2>1. s[k] \in Int /\ s[l] \in Int /\ s[k] < s[l]
    BY <1>3, <1>6, <1>10
  <2> QED BY <1>8, <2>1
<1>11. ASSUME NEW p \in 0 .. np - 1, NEW q \in 0 .. nq - 1, prev[p + 1] = next[q + 1]
       PROVE  \E k \in 1 .. N : rows[k].tv_index = q /\ rows[k].prev_tv_index = p
  <2>1. q + 1 \in shared /\ was(q + 1) = p + 1
    <3>1. p + 1 \in 1 .. np /\ q + 1 \in 1 .. nq
      OBVIOUS
    <3> QED BY <1>5, <1>11, <3>1
  <2>2. PICK k \in 1 .. N : s[k] = q + 1
    BY <1>6, <2>1
  <2> QED BY <1>8, <2>1, <2>2
<1>12. AreShared(rows, N, prev, next, np, nq)
  BY <1>7, <1>9, <1>10, <1>11 DEF AreShared
<1> QED BY <1>6, <1>12 DEF rows

(***************************************************************************)
(* calculate_moves_sorted.                                                  *)
(***************************************************************************)

\* The shared rows in the order of the old results.
ByPrev(rows) ==
  SortedBy(Range(rows), {e \in Range(rows) \X Range(rows) :
                           e[1].prev_tv_index < e[2].prev_tv_index})

AreByPrev(byPrev, rows, N) ==
  /\ byPrev \in [1 .. N -> Range(rows)]
  /\ \A k \in 1 .. N : \E l \in 1 .. N : byPrev[l] = rows[k]
  /\ \A k \in 1 .. N : \E l \in 1 .. N : byPrev[k] = rows[l]
  /\ \A k, l \in 1 .. N : k < l <=> byPrev[k].prev_tv_index < byPrev[l].prev_tv_index

\* A table row is shared at most once.
LEMMA SharedOnce ==
  ASSUME NEW np \in Nat, NEW nq \in Nat, NEW prev, NEW next, AreResults(prev, next, np, nq),
         NEW N \in Nat, NEW rows, AreShared(rows, N, prev, next, np, nq),
         NEW k \in 1 .. N, NEW l \in 1 .. N, rows[k].row_index = rows[l].row_index
  PROVE  k = l
<1>2. next[rows[k].tv_index + 1] = next[rows[l].tv_index + 1]
  BY DEF AreShared
<1>3. rows[k].tv_index \in 0 .. nq - 1 /\ rows[l].tv_index \in 0 .. nq - 1
  BY DEF AreShared
<1>4. rows[k].tv_index = rows[l].tv_index
  <2> DEFINE x == rows[k].tv_index  y == rows[l].tv_index
  <2>1. x + 1 \in 1 .. nq /\ y + 1 \in 1 .. nq /\ next[x + 1] = next[y + 1] /\ x \in Int /\ y \in Int
    BY <1>2, <1>3
  <2> HIDE DEF x, y
  <2>2. x + 1 = y + 1
    BY <2>1 DEF AreResults, IsInjectiveList
  <2>3. x = y
    BY <2>1, <2>2
  <2> QED BY <2>3 DEF x, y
<1>5. (k < l => rows[k].tv_index < rows[l].tv_index) /\ (l < k => rows[l].tv_index < rows[k].tv_index)
  BY DEF AreShared
<1> QED BY <1>3, <1>4, <1>5

\* ByPrev lists the same pairs in the order of the old results.
LEMMA SharedRowsByPrev ==
  ASSUME NEW np \in Nat, NEW nq \in Nat, NEW prev, NEW next, AreResults(prev, next, np, nq),
         NEW N \in Nat, NEW rows, AreShared(rows, N, prev, next, np, nq)
  PROVE  AreByPrev(ByPrev(rows), rows, N)
<1> DEFINE S == Range(rows)
           before == {e \in S \X S : e[1].prev_tv_index < e[2].prev_tv_index}
<1>1. \A r \in S : \E k \in 1 .. N : r = rows[k]
  BY DEF AreShared, Range
<1>2. \A k \in 1 .. N : rows[k] \in S
  BY DEF AreShared, Range
<1>3. ASSUME NEW k \in 1 .. N, NEW l \in 1 .. N, rows[k].prev_tv_index = rows[l].prev_tv_index
      PROVE  k = l
  <2>1. /\ prev[rows[k].prev_tv_index + 1] = rows[k].row_index
        /\ prev[rows[l].prev_tv_index + 1] = rows[l].row_index
    BY DEF AreShared
  <2>2. rows[k].row_index = rows[l].row_index
    BY <1>3, <2>1
  <2> QED BY <2>2, SharedOnce
<1>4. IsFiniteSet(S) /\ Cardinality(S) = N
  <2> DEFINE f == [k \in 1 .. N |-> rows[k]]
  <2>1. f \in [1 .. N -> S]
    BY <1>2
  <2>2. \A x, y \in 1 .. N : f[x] = f[y] => x = y
    BY <1>3
  <2>3. \A r \in S : \E k \in 1 .. N : f[k] = r
    BY <1>1
  <2> HIDE DEF f, S
  <2>4. f \in Bijection(1 .. N, S)
    BY <2>1, <2>2, <2>3, Zenon DEF Bijection, Injection, Surjection, IsInjective
  <2>5. ExistsBijection(1 .. N, S)
    BY <2>4, Zenon DEF ExistsBijection
  <2>6. IsFiniteSet(S)
    BY <2>5, FS_NatBijection
  <2>7. Cardinality(S) = N
    BY <2>5, FS_CountingElements
  <2> QED BY <2>6, <2>7
<1>5. \A r \in S : r.prev_tv_index \in Int
  BY <1>1 DEF AreShared
<1>6. \A r, t \in S : r = t \/ r.prev_tv_index # t.prev_tv_index
  BY <1>1, <1>3
<1>7. \A x, y \in S : <<x, y>> \in before <=> x.prev_tv_index < y.prev_tv_index
  OBVIOUS
<1>8. ByPrev(rows) = SortedBy(S, before)
  BY Zenon DEF ByPrev
<1> HIDE DEF S, before
<1>9. IsStrictOrder(before, S)
  <2>1. \A x, y \in S : <<x, y>> \in before => <<y, x>> \notin before
    BY <1>5, <1>7
  <2>2. \A x, y, z \in S : <<x, y>> \in before /\ <<y, z>> \in before => <<x, z>> \in before
    BY <1>5, <1>7
  <2>3. ASSUME NEW x \in S, NEW y \in S
        PROVE  x = y \/ <<x, y>> \in before \/ <<y, x>> \in before
    <3>1. x = y \/ x.prev_tv_index # y.prev_tv_index
      BY <1>6
    <3>2. x.prev_tv_index \in Int /\ y.prev_tv_index \in Int
      BY <1>5
    <3>3. x = y \/ x.prev_tv_index < y.prev_tv_index \/ y.prev_tv_index < x.prev_tv_index
      BY <3>1, <3>2
    <3> QED BY <1>7, <3>3
  <2> QED BY <2>1, <2>2, <2>3 DEF IsStrictOrder
<1> DEFINE s == SortedBy(S, before)
<1>10. /\ s \in [1 .. Cardinality(S) -> S]
       /\ \A x \in S : \E k \in 1 .. Cardinality(S) : s[k] = x
       /\ \A k, l \in 1 .. Cardinality(S) : k < l <=> <<s[k], s[l]>> \in before
  BY <1>4, <1>9, SortedByOrders
<1> HIDE DEF s
<1>11. /\ s \in [1 .. N -> S]
       /\ \A x \in S : \E k \in 1 .. N : s[k] = x
       /\ \A k, l \in 1 .. N : k < l <=> <<s[k], s[l]>> \in before
  BY <1>4, <1>10
<1>12. \A k, l \in 1 .. N : k < l <=> s[k].prev_tv_index < s[l].prev_tv_index
  <2> SUFFICES ASSUME NEW k \in 1 .. N, NEW l \in 1 .. N
               PROVE  k < l <=> s[k].prev_tv_index < s[l].prev_tv_index
    OBVIOUS
  <2>1. s[k] \in S /\ s[l] \in S
    BY <1>11
  <2>2. k < l <=> <<s[k], s[l]>> \in before
    BY <1>11
  <2> QED BY <1>7, <2>1, <2>2
<1>13. \A k \in 1 .. N : \E l \in 1 .. N : s[l] = rows[k]
  BY <1>2, <1>11
<1>14. \A k \in 1 .. N : \E l \in 1 .. N : s[k] = rows[l]
  BY <1>1, <1>11
<1> QED BY <1>8, <1>11, <1>12, <1>13, <1>14 DEF AreByPrev, s, S

Changes ==
  [deletions : SUBSET Int, insertions : SUBSET Int, modifications : SUBSET Int,
   moves : {<<>>}, move_mapping : {<<>>}]

OldRows(byPrev, N) == [k \in 1 .. N |-> byPrev[k].row_index]
NewRows(rows, N) == [k \in 1 .. N |-> rows[k].row_index]

\* d is c with the rows A of the shared ones by their old index deleted and the
\* rows B of them by their new index inserted.
AreMoves(A, B, rows, byPrev, N, c, d) ==
  /\ \A x \in A : x \in 0 .. N - 1
  /\ \A x \in B : x \in 0 .. N - 1
  /\ IsExact(OldRows(byPrev, N), NewRows(rows, N), N, N, A, B)
  /\ d.deletions = c.deletions \union {byPrev[i + 1].prev_tv_index : i \in A}
  /\ d.insertions = c.insertions \union {rows[j + 1].tv_index : j \in B}
  /\ d.modifications = c.modifications
  /\ DOMAIN d = DOMAIN c

\* calculate_moves_sorted deletes and inserts exactly the shared rows outside the
\* blocks of the longest matches.
LEMMA MovesSortedAreExact ==
  ASSUME NEW np \in Nat, NEW nq \in Nat, NEW prev, NEW next, AreResults(prev, next, np, nq),
         NEW N \in Nat, NEW rows, AreShared(rows, N, prev, next, np, nq),
         NEW c \in Changes, NEW d, d = calculate_moves_sorted(rows, c)
  PROVE  \E A, B : AreMoves(A, B, rows, ByPrev(rows), N, c, d)
<1> DEFINE byPrev == ByPrev(rows)
           a == [k \in DOMAIN rows |-> byPrev[k].row_index]
           b == [k \in DOMAIN rows |-> rows[k].row_index]
           differs == {k \in DOMAIN rows : a[k] # b[k]}
           least == CHOOSE k \in differs : \A l \in differs : k <= l
           first == least - 1
           M == find_longest_matches(a, b, first, c.modifications)
           A == {i \in first .. Len(a) - 1 : \A m \in M : i \notin m.i .. m.i + m.size - 1}
           B == {j \in first .. Len(b) - 1 : \A m \in M : j \notin m.j .. m.j + m.size - 1}
           moved == [c EXCEPT
                      !.deletions = @ \union {byPrev[i + 1].prev_tv_index : i \in A},
                      !.insertions = @ \union {rows[j + 1].tv_index : j \in B}]
<1>1. d = IF differs = {} THEN c ELSE moved
  BY Zenon DEF calculate_moves_sorted, ByPrev
<1>2. AreByPrev(byPrev, rows, N)
  BY SharedRowsByPrev
<1> HIDE DEF byPrev
<1>3. DOMAIN rows = 1 .. N
  BY DEF AreShared
<1>4. a = OldRows(byPrev, N) /\ b = NewRows(rows, N)
  BY <1>3 DEF OldRows, NewRows
<1>5. /\ DOMAIN a = 1 .. N /\ \A k \in 1 .. N : a[k] = byPrev[k].row_index
      /\ DOMAIN b = 1 .. N /\ \A k \in 1 .. N : b[k] = rows[k].row_index
  BY <1>3
<1>6. a \in Seq({a[k] : k \in 1 .. N}) /\ b \in Seq({b[k] : k \in 1 .. N}) /\ Len(a) = N /\ Len(b) = N
  BY <1>3
<1> HIDE DEF a, b
<1>7. IsInjectiveList(b, N)
  <2> SUFFICES ASSUME NEW k \in 1 .. N, NEW l \in 1 .. N, b[k] = b[l] PROVE k = l
    BY DEF IsInjectiveList
  <2>1. rows[k].row_index = rows[l].row_index
    BY <1>5
  <2> QED BY <2>1, SharedOnce
<1>8. IsInjectiveList(a, N)
  <2> SUFFICES ASSUME NEW k \in 1 .. N, NEW l \in 1 .. N, a[k] = a[l] PROVE k = l
    BY DEF IsInjectiveList
  <2>1. PICK k1 \in 1 .. N : byPrev[k] = rows[k1]
    BY <1>2 DEF AreByPrev
  <2>2. PICK l1 \in 1 .. N : byPrev[l] = rows[l1]
    BY <1>2 DEF AreByPrev
  <2>3. rows[k1].row_index = rows[l1].row_index
    BY <1>5, <2>1, <2>2
  <2>4. k1 = l1
    BY <2>3, SharedOnce
  <2>5. byPrev[k].prev_tv_index = byPrev[l].prev_tv_index /\ byPrev[k].prev_tv_index \in Int
    BY <2>1, <2>2, <2>4 DEF AreShared
  <2>6. /\ k < l <=> byPrev[k].prev_tv_index < byPrev[l].prev_tv_index
        /\ l < k <=> byPrev[l].prev_tv_index < byPrev[k].prev_tv_index
    BY <1>2 DEF AreByPrev
  <2> QED BY <2>5, <2>6
<1>9. CASE differs = {}
  <2>1. d = c
    BY <1>1, <1>9
  <2>2. \A k \in 1 .. N : a[k] = b[k]
    BY <1>3, <1>9
  <2>3. IsExact(a, b, N, N, {}, {})
    <3>1. Rest(N, {}) = 0 .. N - 1 /\ \A i \in 0 .. N - 1 : i + 1 \in 1 .. N /\ i \in Int
      BY DEF Rest
    <3>2. \A i, j \in 0 .. N - 1 : a[i + 1] = b[j + 1] => i = j
      <4> SUFFICES ASSUME NEW i \in 0 .. N - 1, NEW j \in 0 .. N - 1, a[i + 1] = b[j + 1]
                   PROVE  i = j
        OBVIOUS
      <4>1. b[i + 1] = b[j + 1]
        BY <2>2, <3>1
      <4>2. i + 1 = j + 1
        BY <1>7, <3>1, <4>1 DEF IsInjectiveList
      <4> QED BY <3>1, <4>2
    <3>3. \A i \in 0 .. N - 1 : a[i + 1] = b[i + 1]
      BY <2>2, <3>1
    <3>4. \A p, p1 \in 0 .. N - 1, q, q1 \in 0 .. N - 1 :
            a[p + 1] = b[q + 1] /\ a[p1 + 1] = b[q1 + 1] => (q < q1 <=> p < p1)
      BY <3>2
    <3> QED BY <3>1, <3>3, <3>4, Zenon DEF IsExact
  <2>4. AreMoves({}, {}, rows, byPrev, N, c, d)
    BY <1>4, <2>1, <2>3 DEF AreMoves
  <2> QED BY <2>4 DEF byPrev
<1>10. CASE differs # {}
  <2>1. least \in differs /\ \A l \in differs : least <= l
    <3>1. differs \in SUBSET Nat
      BY <1>3
    <3> HIDE DEF differs
    <3>2. \E k \in differs : \A l \in differs : k <= l
      BY <1>10, <3>1, LeastNat
    <3> QED BY <3>2, Zenon
  <2> HIDE DEF least
  <2>2. least \in 1 .. N
    BY <1>3, <2>1
  <2>3. first \in 0 .. N
    BY <2>2
  <2>4. \A k \in 1 .. first : a[k] = b[k]
    <3> SUFFICES ASSUME NEW k \in 1 .. first PROVE a[k] = b[k]
      OBVIOUS
    <3>1. k \in DOMAIN rows /\ ~ least <= k
      BY <1>3, <2>2
    <3> QED BY <2>1, <3>1
  <2> HIDE DEF first
  <2>5. IsChain(a, b, M, <<first, N, first, N>>)
    <3>1. \A x \in c.modifications : x \in Int
      BY DEF Changes
    <3>2. IsChain(a, b, M, <<first, Len(a), first, Len(a)>>)
      BY <1>6, <2>3, <3>1, LongestMatchesAreChain
    <3> QED BY <1>6, <3>2
  <2> HIDE DEF M
  <2>6. /\ A = {i \in first .. N - 1 : \A m \in M : i \notin m.i .. m.i + m.size - 1}
        /\ B = {j \in first .. N - 1 : \A m \in M : j \notin m.j .. m.j + m.size - 1}
    BY <1>6
  <2> HIDE DEF A, B
  <2>7. IsExact(a, b, N, N, A, B)
    BY <1>7, <1>8, <2>3, <2>4, <2>5, <2>6, ChainIsExact
  <2>8. (\A x \in A : x \in 0 .. N - 1) /\ (\A x \in B : x \in 0 .. N - 1)
    BY <2>3, <2>6
  <2>9. /\ d.deletions = c.deletions \union {byPrev[i + 1].prev_tv_index : i \in A}
        /\ d.insertions = c.insertions \union {rows[j + 1].tv_index : j \in B}
        /\ d.modifications = c.modifications
        /\ DOMAIN d = DOMAIN c
    BY <1>1, <1>10 DEF Changes
  <2>10. AreMoves(A, B, rows, byPrev, N, c, d)
    BY <1>4, <2>7, <2>8, <2>9 DEF AreMoves
  <2> QED BY <2>10 DEF byPrev
<1> QED BY <1>9, <1>10

(***************************************************************************)
(* calculate, for sorted results.                                           *)
(***************************************************************************)

\* A change d that holds for prev and next, before finalize.
IsCalculated(d, prev, next, np, nq, changed) ==
  /\ \A x \in d.deletions : x \in 0 .. np - 1
  /\ \A x \in d.insertions : x \in 0 .. nq - 1
  /\ IsExact(prev, next, np, nq, d.deletions, d.insertions)
  /\ d.modifications = {q \in 0 .. nq - 1 : /\ next[q + 1] \in changed
                                            /\ \E p \in 0 .. np - 1 : prev[p + 1] = next[q + 1]}

\* Indices from 1 as indices from 0.
LEMMA FromZero ==
  ASSUME NEW n \in Nat, NEW P, \A x \in P : x \in 1 .. n
  PROVE  \A x : x \in {p - 1 : p \in P} <=> x \in 0 .. n - 1 /\ x + 1 \in P
<1> SUFFICES ASSUME NEW x PROVE x \in {p - 1 : p \in P} <=> x \in 0 .. n - 1 /\ x + 1 \in P
  OBVIOUS
<1>1. ASSUME x \in {p - 1 : p \in P} PROVE x \in 0 .. n - 1 /\ x + 1 \in P
  <2>1. PICK p \in P : x = p - 1
    BY <1>1
  <2>2. x + 1 = p /\ x \in 0 .. n - 1
    BY <2>1
  <2> QED BY <2>2
<1>2. ASSUME x \in 0 .. n - 1, x + 1 \in P PROVE x \in {p - 1 : p \in P}
  <2>1. x = (x + 1) - 1
    BY <1>2
  <2> QED BY <1>2, <2>1
<1> QED BY <1>1, <1>2

\* The values of a list, by index from 0.
LEMMA RangeFromZero ==
  ASSUME NEW n \in Nat, NEW f, DOMAIN f = 1 .. n, NEW v
  PROVE  v \in Range(f) <=> \E q \in 0 .. n - 1 : v = f[q + 1]
<1>1. ASSUME v \in Range(f) PROVE \E q \in 0 .. n - 1 : v = f[q + 1]
  <2>1. PICK k \in 1 .. n : v = f[k]
    BY <1>1 DEF Range
  <2>2. k - 1 \in 0 .. n - 1 /\ (k - 1) + 1 = k
    OBVIOUS
  <2> QED BY <2>1, <2>2
<1>2. ASSUME NEW q \in 0 .. n - 1, v = f[q + 1] PROVE v \in Range(f)
  <2>1. q + 1 \in 1 .. n
    OBVIOUS
  <2> QED BY <1>2, <2>1 DEF Range
<1> QED BY <1>1, <1>2

\* What calculate starts from: the rows gone from the table, those no longer in
\* the results, the new ones, and the shared ones that changed.
AreFound(gone, removed, new, modified, prev, next, np, nq, changed) ==
  /\ \A x : x \in gone <=> x \in 0 .. np - 1 /\ prev[x + 1] = npos
  /\ \A x : x \in removed <=> /\ x \in 0 .. np - 1 /\ prev[x + 1] # npos
                               /\ \A q \in 0 .. nq - 1 : prev[x + 1] # next[q + 1]
  /\ \A x : x \in new <=> /\ x \in 0 .. nq - 1
                           /\ \A p \in 0 .. np - 1 : prev[p + 1] # next[x + 1]
  /\ \A x : x \in modified <=> /\ x \in 0 .. nq - 1 /\ next[x + 1] \in changed
                                /\ \E p \in 0 .. np - 1 : prev[p + 1] = next[x + 1]

\* The rows that calculate finds gone, removed, new and modified are those.
LEMMA CalculateFinds ==
  ASSUME NEW np \in Nat, NEW nq \in Nat, NEW prev, NEW next, AreResults(prev, next, np, nq),
         NEW changed, NEW N \in Nat, NEW rows, AreShared(rows, N, prev, next, np, nq)
  PROVE  AreFound({p - 1 : p \in {q \in DOMAIN prev : prev[q] = npos}},
                  {p - 1 : p \in {q \in DOMAIN prev : prev[q] # npos
                                                      /\ prev[q] \notin Range(next)}},
                  {n - 1 : n \in {k \in DOMAIN next : next[k] \notin Range(prev)}},
                  {r.tv_index : r \in {q \in Range(rows) : q.row_index \in changed}},
                  prev, next, np, nq, changed)
<1> DEFINE gone    == {p - 1 : p \in {q \in DOMAIN prev : prev[q] = npos}}
           removed == {p - 1 : p \in {q \in DOMAIN prev : prev[q] # npos
                                                           /\ prev[q] \notin Range(next)}}
           new == {n - 1 : n \in {k \in DOMAIN next : next[k] \notin Range(prev)}}
           modified == {r.tv_index : r \in {q \in Range(rows) : q.row_index \in changed}}
<1>3. DOMAIN rows = 1 .. N
  BY DEF AreShared
<1>4. \A k \in 1 .. N : /\ rows[k].tv_index \in 0 .. nq - 1
                         /\ rows[k].prev_tv_index \in 0 .. np - 1
                         /\ next[rows[k].tv_index + 1] = rows[k].row_index
                         /\ prev[rows[k].prev_tv_index + 1] = rows[k].row_index
  BY DEF AreShared
<1>5. \A p \in 0 .. np - 1, q \in 0 .. nq - 1 :
         prev[p + 1] = next[q + 1] =>
           \E k \in 1 .. N : rows[k].tv_index = q /\ rows[k].prev_tv_index = p
  BY DEF AreShared
<1>6. DOMAIN prev = 1 .. np /\ DOMAIN next = 1 .. nq
  BY DEF AreResults
<1>7. \A x : x \in gone <=> x \in 0 .. np - 1 /\ prev[x + 1] = npos
  <2> DEFINE P == {q \in DOMAIN prev : prev[q] = npos}
  <2>1. \A x \in P : x \in 1 .. np
    BY <1>6
  <2>2. \A x : x + 1 \in P <=> x + 1 \in 1 .. np /\ prev[x + 1] = npos
    BY <1>6
  <2> HIDE DEF P
  <2>3. \A x : x \in {p - 1 : p \in P} <=> x \in 0 .. np - 1 /\ x + 1 \in P
    BY <2>1, FromZero
  <2>4. \A x \in 0 .. np - 1 : x + 1 \in 1 .. np
    OBVIOUS
  <2>5. gone = {p - 1 : p \in P}
    BY DEF P
  <2> HIDE DEF gone
  <2> QED BY <2>2, <2>3, <2>4, <2>5
<1>8. \A x : x \in removed <=> /\ x \in 0 .. np - 1 /\ prev[x + 1] # npos
                               /\ \A q \in 0 .. nq - 1 : prev[x + 1] # next[q + 1]
  <2> DEFINE P == {q \in DOMAIN prev : prev[q] # npos /\ prev[q] \notin Range(next)}
  <2>1. \A x \in P : x \in 1 .. np
    BY <1>6
  <2>2. \A x : x + 1 \in P <=> /\ x + 1 \in 1 .. np /\ prev[x + 1] # npos
                               /\ prev[x + 1] \notin Range(next)
    BY <1>6
  <2> HIDE DEF P
  <2>3. \A x : x \in {p - 1 : p \in P} <=> x \in 0 .. np - 1 /\ x + 1 \in P
    BY <2>1, FromZero
  <2>4. \A x \in 0 .. np - 1 : x + 1 \in 1 .. np
    OBVIOUS
  <2>5. removed = {p - 1 : p \in P}
    BY DEF P
  <2>6. \A v : v \in Range(next) <=> \E q \in 0 .. nq - 1 : v = next[q + 1]
    BY <1>6, RangeFromZero
  <2> HIDE DEF removed
  <2>7. \A x : x \in removed <=> /\ x \in 0 .. np - 1 /\ prev[x + 1] # npos
                                 /\ prev[x + 1] \notin Range(next)
    BY <2>2, <2>3, <2>4, <2>5
  <2> QED BY <2>6, <2>7
<1>9. \A x : x \in new <=> /\ x \in 0 .. nq - 1
                           /\ \A p \in 0 .. np - 1 : prev[p + 1] # next[x + 1]
  <2> DEFINE P == {k \in DOMAIN next : next[k] \notin Range(prev)}
  <2>1. \A x \in P : x \in 1 .. nq
    BY <1>6
  <2>2. \A x : x + 1 \in P <=> x + 1 \in 1 .. nq /\ next[x + 1] \notin Range(prev)
    BY <1>6
  <2> HIDE DEF P
  <2>3. \A x : x \in {p - 1 : p \in P} <=> x \in 0 .. nq - 1 /\ x + 1 \in P
    BY <2>1, FromZero
  <2>4. \A x \in 0 .. nq - 1 : x + 1 \in 1 .. nq
    OBVIOUS
  <2>5. new = {p - 1 : p \in P}
    BY DEF P
  <2>6. \A v : v \in Range(prev) <=> \E q \in 0 .. np - 1 : v = prev[q + 1]
    BY <1>6, RangeFromZero
  <2> HIDE DEF new
  <2>7. \A x : x \in new <=> x \in 0 .. nq - 1 /\ next[x + 1] \notin Range(prev)
    BY <2>2, <2>3, <2>4, <2>5
  <2> QED BY <2>6, <2>7
<1>10. \A x : x \in modified <=>
               /\ x \in 0 .. nq - 1 /\ next[x + 1] \in changed
               /\ \E p \in 0 .. np - 1 : prev[p + 1] = next[x + 1]
  <2> SUFFICES ASSUME NEW x
               PROVE  x \in modified <=> /\ x \in 0 .. nq - 1 /\ next[x + 1] \in changed
                                         /\ \E p \in 0 .. np - 1 : prev[p + 1] = next[x + 1]
    OBVIOUS
  <2>1. ASSUME x \in modified
        PROVE  /\ x \in 0 .. nq - 1 /\ next[x + 1] \in changed
               /\ \E p \in 0 .. np - 1 : prev[p + 1] = next[x + 1]
    <3>1. PICK r \in Range(rows) : r.row_index \in changed /\ x = r.tv_index
      BY <2>1
    <3>2. PICK k \in 1 .. N : r = rows[k]
      BY <1>3 DEF Range
    <3>3. /\ r.tv_index \in 0 .. nq - 1 /\ r.prev_tv_index \in 0 .. np - 1
          /\ next[r.tv_index + 1] = r.row_index /\ prev[r.prev_tv_index + 1] = r.row_index
      BY <1>4, <3>2, Zenon
    <3> QED BY <3>1, <3>3
  <2>2. ASSUME NEW p \in 0 .. np - 1, x \in 0 .. nq - 1, next[x + 1] \in changed,
               prev[p + 1] = next[x + 1]
        PROVE  x \in modified
    <3>1. PICK k \in 1 .. N : rows[k].tv_index = x /\ rows[k].prev_tv_index = p
      BY <1>5, <2>2, Zenon
    <3>2. rows[k] \in Range(rows) /\ rows[k].row_index \in changed
      BY <1>3, <1>4, <2>2, <3>1 DEF Range
    <3> QED BY <3>1, <3>2
  <2> HIDE DEF modified
  <2> QED BY <2>1, <2>2
<1> HIDE DEF gone, removed, new, modified
<1>11. AreFound(gone, removed, new, modified, prev, next, np, nq, changed)
  BY <1>7, <1>8, <1>9, <1>10 DEF AreFound
<1> QED BY <1>11 DEF gone, removed, new, modified

\* calculate, with a sort: the change is exact and tells of every modified row.
LEMMA CalculateIsExact ==
  ASSUME NEW np \in Nat, NEW nq \in Nat, NEW prev, NEW next, AreResults(prev, next, np, nq),
         NEW changed, NEW candidates,
         NEW d, d = calculate(prev, next, changed, FALSE, candidates)
  PROVE  IsCalculated(d, prev, next, np, nq, changed)
<1> DEFINE rows    == SharedRows(prev, next)
           gone    == {p - 1 : p \in {q \in DOMAIN prev : prev[q] = npos}}
           removed == {p - 1 : p \in {q \in DOMAIN prev : prev[q] # npos
                                                           /\ prev[q] \notin Range(next)}}
           new == {n - 1 : n \in {k \in DOMAIN next : next[k] \notin Range(prev)}}
           modified == {r.tv_index : r \in {q \in Range(rows) : q.row_index \in changed}}
           c == [EmptyChange EXCEPT !.deletions = gone, !.insertions = new,
                                    !.modifications = modified]
           d0 == calculate_moves_sorted(rows, c)
<1>1. d = [d0 EXCEPT !.deletions = @ \union removed]
  BY Zenon DEF calculate
<1>2. PICK N \in Nat : AreShared(rows, N, prev, next, np, nq)
  BY SharedRowsAreShared
<1> HIDE DEF rows
<1>3. DOMAIN rows = 1 .. N
  BY <1>2 DEF AreShared
<1>4. \A k \in 1 .. N : /\ rows[k].tv_index \in 0 .. nq - 1
                         /\ rows[k].prev_tv_index \in 0 .. np - 1
                         /\ next[rows[k].tv_index + 1] = rows[k].row_index
                         /\ prev[rows[k].prev_tv_index + 1] = rows[k].row_index
  BY <1>2 DEF AreShared
<1>5. \A p \in 0 .. np - 1, q \in 0 .. nq - 1 :
         prev[p + 1] = next[q + 1] =>
           \E k \in 1 .. N : rows[k].tv_index = q /\ rows[k].prev_tv_index = p
  BY <1>2 DEF AreShared
<1>a. AreFound(gone, removed, new, modified, prev, next, np, nq, changed)
  BY <1>2, CalculateFinds
<1> HIDE DEF gone, removed, new, modified
<1>7. \A x : x \in gone <=> x \in 0 .. np - 1 /\ prev[x + 1] = npos
  BY <1>a DEF AreFound
<1>8. \A x : x \in removed <=> /\ x \in 0 .. np - 1 /\ prev[x + 1] # npos
                               /\ \A q \in 0 .. nq - 1 : prev[x + 1] # next[q + 1]
  BY <1>a DEF AreFound
<1>9. \A x : x \in new <=> /\ x \in 0 .. nq - 1
                           /\ \A p \in 0 .. np - 1 : prev[p + 1] # next[x + 1]
  BY <1>a DEF AreFound
<1>10. \A x : x \in modified <=>
               /\ x \in 0 .. nq - 1 /\ next[x + 1] \in changed
               /\ \E p \in 0 .. np - 1 : prev[p + 1] = next[x + 1]
  BY <1>a DEF AreFound
<1>11. c \in Changes /\ c.deletions = gone /\ c.insertions = new /\ c.modifications = modified
  <2>1. gone \in SUBSET Int /\ new \in SUBSET Int /\ modified \in SUBSET Int
    BY <1>7, <1>9, <1>10
  <2> QED BY <2>1 DEF EmptyChange, Changes
<1> HIDE DEF c
<1> DEFINE byPrev == ByPrev(rows)
<1>12. PICK A, B : AreMoves(A, B, rows, byPrev, N, c, d0)
  BY <1>2, <1>11, MovesSortedAreExact
<1>13. AreByPrev(byPrev, rows, N)
  BY <1>2, SharedRowsByPrev
<1> HIDE DEF d0, byPrev
<1> DEFINE DA == {byPrev[i + 1].prev_tv_index : i \in A}
           IB == {rows[j + 1].tv_index : j \in B}
<1>14. /\ d.deletions = gone \union DA \union removed
       /\ d.insertions = new \union IB
       /\ d.modifications = modified
  <2>1. /\ d0.deletions = gone \union DA /\ d0.insertions = new \union IB
        /\ d0.modifications = modified
        /\ DOMAIN d0 = {"deletions", "insertions", "modifications", "moves", "move_mapping"}
    BY <1>11, <1>12 DEF AreMoves, Changes
  <2> HIDE DEF DA, IB
  <2> QED BY <1>1, <2>1
<1> HIDE DEF DA, IB
<1>15. /\ \A x \in A : x \in 0 .. N - 1
       /\ \A x \in B : x \in 0 .. N - 1
       /\ IsExact(OldRows(byPrev, N), NewRows(rows, N), N, N, A, B)
  BY <1>12 DEF AreMoves
<1>16. ASSUME NEW k \in 1 .. N
       PROVE  /\ byPrev[k].tv_index \in 0 .. nq - 1 /\ byPrev[k].prev_tv_index \in 0 .. np - 1
              /\ next[byPrev[k].tv_index + 1] = byPrev[k].row_index
              /\ prev[byPrev[k].prev_tv_index + 1] = byPrev[k].row_index
  <2>1. PICK l \in 1 .. N : byPrev[k] = rows[l]
    BY <1>13 DEF AreByPrev
  <2> QED BY <1>4, <2>1
<1>17. \A x \in DA : x \in 0 .. np - 1
  <2> SUFFICES ASSUME NEW i \in A PROVE byPrev[i + 1].prev_tv_index \in 0 .. np - 1
    BY DEF DA
  <2>1. i + 1 \in 1 .. N
    BY <1>15
  <2> QED BY <1>16, <2>1
<1>18. \A x \in IB : x \in 0 .. nq - 1
  <2> SUFFICES ASSUME NEW j \in B PROVE rows[j + 1].tv_index \in 0 .. nq - 1
    BY DEF IB
  <2>1. j + 1 \in 1 .. N
    BY <1>15
  <2> QED BY <1>4, <2>1
<1>19. /\ \A x \in d.deletions : x \in 0 .. np - 1
       /\ \A x \in d.insertions : x \in 0 .. nq - 1
  BY <1>7, <1>8, <1>9, <1>14, <1>17, <1>18
\* A row that the change keeps is a shared one outside A and B.
<1>20. ASSUME NEW k \in 1 .. N, rows[k].tv_index \notin IB
       PROVE  k - 1 \in Rest(N, B)
  <2>1. k - 1 \in 0 .. N - 1 /\ (k - 1) + 1 = k
    OBVIOUS
  <2>2. k - 1 \notin B
    <3> SUFFICES ASSUME k - 1 \in B PROVE FALSE
      OBVIOUS
    <3>1. rows[(k - 1) + 1].tv_index \in IB
      BY DEF IB
    <3> QED BY <1>20, <2>1, <3>1
  <2> QED BY <2>1, <2>2 DEF Rest
<1>21. ASSUME NEW k \in 1 .. N, byPrev[k].prev_tv_index \notin DA
       PROVE  k - 1 \in Rest(N, A)
  <2>1. k - 1 \in 0 .. N - 1 /\ (k - 1) + 1 = k
    OBVIOUS
  <2>2. k - 1 \notin A
    <3> SUFFICES ASSUME k - 1 \in A PROVE FALSE
      OBVIOUS
    <3>1. byPrev[(k - 1) + 1].prev_tv_index \in DA
      BY DEF DA
    <3> QED BY <1>21, <2>1, <3>1
  <2> QED BY <2>1, <2>2 DEF Rest
<1>22. ASSUME NEW j \in Rest(N, B)
       PROVE  rows[j + 1].tv_index \in Rest(nq, d.insertions)
  <2>1. j + 1 \in 1 .. N /\ j \notin B /\ j \in Int
    BY DEF Rest
  <2> DEFINE q == rows[j + 1].tv_index
  <2>2. q \in 0 .. nq - 1 /\ q \notin new
    BY <1>9, <1>4, <2>1
  <2>3. q \notin IB
    <3> SUFFICES ASSUME q \in IB PROVE FALSE
      OBVIOUS
    <3>1. PICK j1 \in B : q = rows[j1 + 1].tv_index
      BY DEF IB
    <3>2. j1 + 1 \in 1 .. N /\ j1 \in Int
      BY <1>15
    <3>3. rows[j + 1].tv_index \in Int
      BY <1>4, <2>1
    <3>4. /\ j + 1 < j1 + 1 => rows[j + 1].tv_index < rows[j1 + 1].tv_index
          /\ j1 + 1 < j + 1 => rows[j1 + 1].tv_index < rows[j + 1].tv_index
      BY <1>2, <2>1, <3>2 DEF AreShared
    <3>5. j = j1
      BY <2>1, <3>1, <3>2, <3>3, <3>4
    <3> QED BY <2>1, <3>5
  <2> QED BY <1>14, <2>2, <2>3 DEF Rest
<1>23. ASSUME NEW i \in Rest(N, A)
       PROVE  byPrev[i + 1].prev_tv_index \in Rest(np, d.deletions)
  <2>1. i + 1 \in 1 .. N /\ i \notin A /\ i \in Int
    BY DEF Rest
  <2> DEFINE p == byPrev[i + 1].prev_tv_index
             q == byPrev[i + 1].tv_index
  <2>2. p \in 0 .. np - 1 /\ q \in 0 .. nq - 1 /\ prev[p + 1] = next[q + 1]
    BY <1>16, <2>1
  <2>3. prev[p + 1] # npos
    <3> HIDE DEF p, q
    <3>1. q + 1 \in 1 .. nq
      BY <2>2
    <3> QED BY <2>2, <3>1 DEF AreResults
  <2>4. p \notin gone /\ p \notin removed
    <3> HIDE DEF p, q
    <3> QED BY <1>7, <1>8, <2>2, <2>3
  <2>5. p \notin DA
    <3> SUFFICES ASSUME p \in DA PROVE FALSE
      OBVIOUS
    <3>1. PICK i1 \in A : p = byPrev[i1 + 1].prev_tv_index
      BY DEF DA
    <3>2. i1 + 1 \in 1 .. N /\ i1 \in Int
      BY <1>15
    <3>3. /\ i + 1 < i1 + 1 <=> byPrev[i + 1].prev_tv_index < byPrev[i1 + 1].prev_tv_index
          /\ i1 + 1 < i + 1 <=> byPrev[i1 + 1].prev_tv_index < byPrev[i + 1].prev_tv_index
      BY <1>13, <2>1, <3>2 DEF AreByPrev
    <3>4. i = i1
      BY <2>1, <2>2, <3>1, <3>2, <3>3
    <3> QED BY <2>1, <3>4
  <2> HIDE DEF p
  <2>6. p \in Rest(np, d.deletions)
    BY <1>14, <2>2, <2>4, <2>5 DEF Rest
  <2> QED BY <2>6 DEF p
\* The rows of the new results that stay, by their old place.
<1> DEFINE At(i, j, p, q) == /\ byPrev[i + 1].prev_tv_index = p /\ rows[j + 1].tv_index = q
                             /\ byPrev[i + 1].row_index = rows[j + 1].row_index
<1>24. ASSUME NEW p \in Rest(np, d.deletions), NEW q \in Rest(nq, d.insertions),
              prev[p + 1] = next[q + 1]
       PROVE  \E i \in Rest(N, A), j \in Rest(N, B) : At(i, j, p, q)
  <2>1. p \in 0 .. np - 1 /\ q \in 0 .. nq - 1 /\ p \notin DA /\ q \notin IB
    BY <1>14 DEF Rest
  <2>2. PICK k \in 1 .. N : rows[k].tv_index = q /\ rows[k].prev_tv_index = p
    BY <1>5, <1>24, <2>1
  <2>3. PICK l \in 1 .. N : byPrev[l] = rows[k]
    BY <1>13 DEF AreByPrev
  <2>4. k - 1 \in Rest(N, B) /\ l - 1 \in Rest(N, A)
    BY <1>20, <1>21, <2>1, <2>2, <2>3
  <2>5. (k - 1) + 1 = k /\ (l - 1) + 1 = l
    OBVIOUS
  <2> QED BY <2>2, <2>3, <2>4, <2>5
<1>25. \A i \in 0 .. N - 1 : /\ i + 1 \in 1 .. N /\ i \in Int
                            /\ OldRows(byPrev, N)[i + 1] = byPrev[i + 1].row_index
                            /\ NewRows(rows, N)[i + 1] = rows[i + 1].row_index
  BY DEF OldRows, NewRows
<1>26. (\A i \in Rest(N, A) : i \in 0 .. N - 1) /\ (\A j \in Rest(N, B) : j \in 0 .. N - 1)
  BY DEF Rest
<1>27. ASSUME NEW q \in Rest(nq, d.insertions)
       PROVE  \E p \in Rest(np, d.deletions) : prev[p + 1] = next[q + 1]
  <2>1. q \in 0 .. nq - 1 /\ q \notin new /\ q \notin IB
    BY <1>14 DEF Rest
  <2>a. PICK p \in 0 .. np - 1 : prev[p + 1] = next[q + 1]
    BY <1>9, <2>1
  <2>2. PICK k \in 1 .. N : rows[k].tv_index = q /\ rows[k].prev_tv_index = p
    BY <1>5, <2>1, <2>a, Zenon
  <2> DEFINE j == k - 1
  <2>3. j \in Rest(N, B) /\ j + 1 = k
    BY <1>20, <2>1, <2>2
  <2> HIDE DEF j
  <2>4. PICK i \in Rest(N, A) : OldRows(byPrev, N)[i + 1] = NewRows(rows, N)[j + 1]
    BY <1>15, <2>3 DEF IsExact
  <2>5. byPrev[i + 1].row_index = rows[k].row_index
    BY <1>25, <1>26, <2>3, <2>4
  <2>6. prev[byPrev[i + 1].prev_tv_index + 1] = next[q + 1]
    BY <1>16, <1>4, <1>25, <1>26, <2>2, <2>5
  <2> QED BY <1>23, <2>6
<1>28. ASSUME NEW p \in Rest(np, d.deletions)
       PROVE  \E q \in Rest(nq, d.insertions) : prev[p + 1] = next[q + 1]
  <2>1. p \in 0 .. np - 1 /\ p \notin gone /\ p \notin removed /\ p \notin DA
    BY <1>14 DEF Rest
  <2>2. PICK k \in 1 .. N : rows[k].prev_tv_index = p
    BY <1>7, <1>8, <1>5, <2>1
  <2>3. PICK l \in 1 .. N : byPrev[l] = rows[k]
    BY <1>13 DEF AreByPrev
  <2> DEFINE i == l - 1
  <2>4. i \in Rest(N, A) /\ i + 1 = l
    BY <1>21, <2>1, <2>2, <2>3
  <2> HIDE DEF i
  <2>5. PICK j \in Rest(N, B) : OldRows(byPrev, N)[i + 1] = NewRows(rows, N)[j + 1]
    BY <1>15, <2>4 DEF IsExact
  <2>6. byPrev[l].row_index = rows[j + 1].row_index
    BY <1>25, <1>26, <2>4, <2>5
  <2>7. prev[p + 1] = next[rows[j + 1].tv_index + 1]
    BY <1>16, <1>4, <1>25, <1>26, <2>2, <2>3, <2>6
  <2> QED BY <1>22, <2>7
<1>29. \A p, p1 \in Rest(np, d.deletions), q, q1 \in Rest(nq, d.insertions) :
         prev[p + 1] = next[q + 1] /\ prev[p1 + 1] = next[q1 + 1] => (q < q1 <=> p < p1)
  <2> TAKE p, p1 \in Rest(np, d.deletions), q, q1 \in Rest(nq, d.insertions)
  <2> HAVE prev[p + 1] = next[q + 1] /\ prev[p1 + 1] = next[q1 + 1]
  <2> HIDE DEF At
  <2>1. PICK i \in Rest(N, A), j \in Rest(N, B) : At(i, j, p, q)
    BY <1>24, Zenon
  <2>2. PICK i1 \in Rest(N, A), j1 \in Rest(N, B) : At(i1, j1, p1, q1)
    BY <1>24, Zenon
  <2> USE DEF At
  <2>3. /\ i + 1 \in 1 .. N /\ i1 + 1 \in 1 .. N /\ j + 1 \in 1 .. N /\ j1 + 1 \in 1 .. N
        /\ i \in Int /\ i1 \in Int /\ j \in Int /\ j1 \in Int
    BY <1>25, <1>26
  <2>4. i + 1 < i1 + 1 <=> p < p1
    BY <1>13, <2>1, <2>2, <2>3 DEF AreByPrev
  <2>5. j < j1 <=> i < i1
    <3>1. /\ OldRows(byPrev, N)[i + 1] = NewRows(rows, N)[j + 1]
          /\ OldRows(byPrev, N)[i1 + 1] = NewRows(rows, N)[j1 + 1]
      BY <1>25, <1>26, <2>1, <2>2
    <3> QED BY <1>15, <3>1 DEF IsExact
  <2>6. (j + 1 < j1 + 1 => q < q1) /\ (j1 + 1 < j + 1 => q1 < q) /\ (j = j1 => q = q1)
    BY <1>2, <2>1, <2>2, <2>3 DEF AreShared
  <2>7. q \in Int /\ q1 \in Int
    BY DEF Rest
  <2> QED BY <2>3, <2>4, <2>5, <2>6, <2>7
<1>30. IsExact(prev, next, np, nq, d.deletions, d.insertions)
  BY <1>27, <1>28, <1>29 DEF IsExact
<1>31. modified = {q \in 0 .. nq - 1 : /\ next[q + 1] \in changed
                                       /\ \E p \in 0 .. np - 1 : prev[p + 1] = next[q + 1]}
  BY <1>10
<1> QED BY <1>14, <1>19, <1>30, <1>31 DEF IsCalculated

\* What a change c promises the callback, over the old results prev and the new
\* ones next: the sizes fit; every row of next that is not inserted is the row of
\* prev, not deleted, that its index leads back to, and each of these is reached;
\* and the modified rows are the rows of prev, not deleted, that changed.
IsTrueChange(c, prev, next, np, nq, changed) ==
  /\ \A x \in c.deletions : x \in 0 .. np - 1
  /\ \A x \in c.insertions : x \in 0 .. nq - 1
  /\ np - Cardinality(c.deletions) + Cardinality(c.insertions) = nq
  /\ \A q \in Rest(nq, c.insertions) :
       LET p == shift(c.deletions, unshift(c.insertions, q))
       IN p \in Rest(np, c.deletions) /\ prev[p + 1] = next[q + 1]
  /\ \A p \in Rest(np, c.deletions) :
       \E q \in Rest(nq, c.insertions) : p = shift(c.deletions, unshift(c.insertions, q))
  /\ c.modifications = {p \in Rest(np, c.deletions) : prev[p + 1] \in changed}

\* For any two sorted results the change that calculate finds turns the one into
\* the other: deleting and inserting its rows leaves every other row in its
\* place (the check that calculate makes in debug builds only, applying the
\* change to prev_rows), and the rows it reports as modified, in the numbering
\* before the change, are those row_did_change tells of.
THEOREM CalculatedChangeIsTrue ==
  ASSUME NEW np \in Nat, NEW nq \in Nat, NEW prev, NEW next, AreResults(prev, next, np, nq),
         NEW changed, NEW candidates,
         NEW c, c = finalize(calculate(prev, next, changed, FALSE, candidates))
  PROVE  IsTrueChange(c, prev, next, np, nq, changed)
<1> DEFINE d == calculate(prev, next, changed, FALSE, candidates)
           D == d.deletions
           I == d.insertions
<1>1. IsCalculated(d, prev, next, np, nq, changed)
  BY CalculateIsExact
<1>2. /\ c.deletions = D /\ c.insertions = I
      /\ c.modifications = {shift(D, i) : i \in {unshift(I, i) : i \in d.modifications \ I}}
  BY DEF finalize, shift_for_insert_at, erase_at
<1> HIDE DEF d
<1>3. /\ \A x \in D : x \in 0 .. np - 1
      /\ \A x \in I : x \in 0 .. nq - 1
      /\ IsExact(prev, next, np, nq, D, I)
  BY <1>1 DEF IsCalculated
<1>4. \A q : q \in d.modifications <=> /\ q \in 0 .. nq - 1 /\ next[q + 1] \in changed
                                       /\ \E p \in 0 .. np - 1 : prev[p + 1] = next[q + 1]
  BY <1>1 DEF IsCalculated
<1> HIDE DEF D, I
<1>5. PICK w : /\ IsMatching(w, np, D, nq, I)
               /\ \A q \in Rest(nq, I) : prev[w[q] + 1] = next[q + 1]
  <2>1. \E w : IsRowMatching(w, prev, next, np, D, nq, I)
    BY <1>3, ExactIsMatching
  <2> QED BY <2>1 DEF IsRowMatching
<1>6. /\ \A q \in Rest(nq, I) : shift(D, unshift(I, q)) = w[q]
      /\ np - Cardinality(D) + Cardinality(I) = nq
  <2>1. ArePlaces(w, np, D, nq, I)
    BY <1>3, <1>5, MatchingPlaces
  <2> QED BY <2>1 DEF ArePlaces
<1>7. /\ \A q \in Rest(nq, I) : w[q] \in Rest(np, D)
      /\ \A p \in Rest(np, D) : \E q \in Rest(nq, I) : w[q] = p
  BY <1>5 DEF IsMatching
<1>8. \A q \in Rest(nq, I) : /\ shift(D, unshift(I, q)) \in Rest(np, D)
                             /\ prev[shift(D, unshift(I, q)) + 1] = next[q + 1]
  BY <1>5, <1>6, <1>7
<1>9. d.modifications \ I = {q \in Rest(nq, I) : next[q + 1] \in changed}
  <2>1. \A q \in Rest(nq, I) : \E p \in 0 .. np - 1 : prev[p + 1] = next[q + 1]
    <3>1. \A p \in Rest(np, D) : p \in 0 .. np - 1
      BY DEF Rest
    <3>2. \A q \in Rest(nq, I) : w[q] \in Rest(np, D) /\ prev[w[q] + 1] = next[q + 1]
      BY <1>5, <1>7
    <3> QED BY <3>1, <3>2
  <2>2. \A q : q \in Rest(nq, I) <=> q \in 0 .. nq - 1 /\ q \notin I
    BY DEF Rest
  <2>3. \A q : q \in d.modifications /\ q \notin I <=>
                q \in Rest(nq, I) /\ next[q + 1] \in changed
    BY <1>4, <2>1, <2>2, Zenon
  <2>4. \A q : q \in d.modifications \ I <=>
                q \in {r \in Rest(nq, I) : next[r + 1] \in changed}
    BY <2>3
  <2> QED BY <2>4
<1>10. c.modifications = {p \in Rest(np, D) : prev[p + 1] \in changed}
  <2>1. \A x : x \in c.modifications <=> \E q \in d.modifications \ I : x = shift(D, unshift(I, q))
    BY <1>2
  <2>2. \A x : x \in c.modifications <=> \E q \in Rest(nq, I) : next[q + 1] \in changed /\ x = w[q]
    <3>1. \A q : q \in d.modifications \ I <=> q \in Rest(nq, I) /\ next[q + 1] \in changed
      BY <1>9
    <3>2. \A q \in Rest(nq, I) : shift(D, unshift(I, q)) = w[q]
      BY <1>6
    <3> QED BY <2>1, <3>1, <3>2, Zenon
  <2>3. \A x : x \in c.modifications <=> x \in Rest(np, D) /\ prev[x + 1] \in changed
    <3> SUFFICES ASSUME NEW x
                 PROVE  x \in c.modifications <=> x \in Rest(np, D) /\ prev[x + 1] \in changed
      OBVIOUS
    <3>1. ASSUME x \in c.modifications PROVE x \in Rest(np, D) /\ prev[x + 1] \in changed
      <4>1. PICK q \in Rest(nq, I) : next[q + 1] \in changed /\ x = w[q]
        BY <2>2, <3>1
      <4> QED BY <1>5, <1>7, <4>1
    <3>2. ASSUME x \in Rest(np, D), prev[x + 1] \in changed PROVE x \in c.modifications
      <4>1. PICK q \in Rest(nq, I) : w[q] = x
        BY <1>7, <3>2
      <4>2. next[q + 1] \in changed
        BY <1>5, <3>2, <4>1
      <4> QED BY <2>2, <4>1, <4>2
    <3> QED BY <3>1, <3>2
  <2> QED BY <2>3
<1>11. \A p \in Rest(np, D) : \E q \in Rest(nq, I) : p = shift(D, unshift(I, q))
  BY <1>6, <1>7
<1> DEFINE Holds(E, J, m) ==
             /\ \A x \in E : x \in 0 .. np - 1
             /\ \A x \in J : x \in 0 .. nq - 1
             /\ np - Cardinality(E) + Cardinality(J) = nq
             /\ \A q \in Rest(nq, J) : LET p == shift(E, unshift(J, q))
                                       IN p \in Rest(np, E) /\ prev[p + 1] = next[q + 1]
             /\ \A p \in Rest(np, E) : \E q \in Rest(nq, J) : p = shift(E, unshift(J, q))
             /\ m = {p \in Rest(np, E) : prev[p + 1] \in changed}
<1>12. Holds(D, I, c.modifications)
  BY <1>3, <1>6, <1>8, <1>10, <1>11, Zenon
<1>13. Holds(c.deletions, c.insertions, c.modifications)
  <2> HIDE DEF Holds
  <2> QED BY <1>2, <1>12
<1> QED BY <1>13 DEF IsTrueChange
=============================================================================
