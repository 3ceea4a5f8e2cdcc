-------------------------- MODULE ChangeMergeProofs --------------------------
(***************************************************************************)
(* Theorems about successive changes: that merging two true changes gives   *)
(* a true change, and that the rows of results in table order are placed    *)
(* truly after any log of move_last_over.                                   *)
(***************************************************************************)
EXTENDS CollectionChangeProofs, SequenceTheorems

(***************************************************************************)
(* Where the rows of an exact change are.                                   *)
(***************************************************************************)

\* The row of the old list that row q of the new one was, and the converse.
Was(D, I, q) == shift(D, unshift(I, q))
Becomes(D, I, p) == shift(I, unshift(D, p))

IsPlaced(prev, next, np, nq, D, I) ==
  /\ \A q \in Rest(nq, I) : /\ Was(D, I, q) \in Rest(np, D)
                            /\ prev[Was(D, I, q) + 1] = next[q + 1]
  /\ \A p \in Rest(np, D) : /\ Becomes(D, I, p) \in Rest(nq, I)
                            /\ prev[p + 1] = next[Becomes(D, I, p) + 1]
  /\ np - Cardinality(D) + Cardinality(I) = nq

\* An exact change takes every row that stays to its equal, in both directions.
LEMMA ExactPlaces ==
  ASSUME NEW prev, NEW next, NEW np \in Nat, NEW nq \in Nat, NEW D, NEW I,
         \A x \in D : x \in 0 .. np - 1, \A x \in I : x \in 0 .. nq - 1,
         IsExact(prev, next, np, nq, D, I)
  PROVE  IsPlaced(prev, next, np, nq, D, I)
<1>1. PICK w : IsRowMatching(w, prev, next, np, D, nq, I)
  BY ExactIsMatching
<1>2. IsMatching(w, np, D, nq, I) /\ \A q \in Rest(nq, I) : prev[w[q] + 1] = next[q + 1]
  BY <1>1 DEF IsRowMatching
<1>3. /\ \A q \in Rest(nq, I) : shift(D, unshift(I, q)) = w[q]
      /\ np - Cardinality(D) + Cardinality(I) = nq
  <2>1. ArePlaces(w, np, D, nq, I)
    BY <1>2, MatchingPlaces
  <2> QED BY <2>1 DEF ArePlaces
<1>4. /\ \A q \in Rest(nq, I) : w[q] \in Rest(np, D)
      /\ \A p \in Rest(np, D) : \E q \in Rest(nq, I) : w[q] = p
  BY <1>2 DEF IsMatching
<1>5. \A q \in Rest(nq, I) : /\ Was(D, I, q) \in Rest(np, D)
                             /\ prev[Was(D, I, q) + 1] = next[q + 1]
  BY <1>2, <1>3, <1>4 DEF Was
<1>6. /\ \A x \in D : x \in Nat
      /\ \A x \in I : x \in Nat
      /\ IsFiniteSet(D) /\ IsFiniteSet(I)
  <2>1. IsFiniteSet(0 .. np - 1) /\ IsFiniteSet(0 .. nq - 1)
    <3>1. 0 \in Int /\ np - 1 \in Int /\ nq - 1 \in Int
      OBVIOUS
    <3> QED BY <3>1, FS_Interval
  <2>2. D \subseteq 0 .. np - 1 /\ I \subseteq 0 .. nq - 1
    OBVIOUS
  <2>3. IsFiniteSet(D) /\ IsFiniteSet(I)
    BY <2>1, <2>2, FS_Subset
  <2> QED BY <2>3
<1>7. ASSUME NEW p \in Rest(np, D)
      PROVE  /\ Becomes(D, I, p) \in Rest(nq, I)
             /\ prev[p + 1] = next[Becomes(D, I, p) + 1]
  <2>1. PICK q \in Rest(nq, I) : w[q] = p
    BY <1>4
  <2>2. q \in Nat \ I
    BY DEF Rest
  <2>3. unshift(I, q) \in Nat
    BY <1>6, <2>2, UnshiftType
  <2>4. unshift(D, p) = unshift(I, q)
    BY <1>3, <1>6, <2>1, <2>3, ShiftSpec
  <2>5. shift(I, unshift(I, q)) = q
    BY <1>6, <2>2, ShiftUnshift
  <2>6. Becomes(D, I, p) = q
    BY <2>4, <2>5 DEF Becomes
  <2> QED BY <1>2, <2>1, <2>6
<1> QED BY <1>3, <1>5, <1>7 DEF IsPlaced

\* Rows that stay have as many staying rows before them in both lists.
LEMMA SameRank ==
  ASSUME NEW prev, NEW next, NEW np \in Nat, NEW nq \in Nat, NEW D, NEW I,
         \A x \in D : x \in 0 .. np - 1, \A x \in I : x \in 0 .. nq - 1,
         IsExact(prev, next, np, nq, D, I), IsInjectiveList(prev, np),
         NEW p \in Rest(np, D), NEW q \in Rest(nq, I), prev[p + 1] = next[q + 1]
  PROVE  unshift(D, p) = unshift(I, q)
<1>1. Was(D, I, q) \in Rest(np, D) /\ prev[Was(D, I, q) + 1] = next[q + 1]
  <2>1. IsPlaced(prev, next, np, nq, D, I)
    BY ExactPlaces
  <2> QED BY <2>1 DEF IsPlaced
<1>2. Was(D, I, q) = p
  <2> DEFINE o == Was(D, I, q)
  <2>1. o \in 0 .. np - 1 /\ p \in 0 .. np - 1
    BY <1>1 DEF Rest
  <2>2. prev[o + 1] = prev[p + 1]
    BY <1>1
  <2> HIDE DEF o
  <2>3. o + 1 \in 1 .. np /\ p + 1 \in 1 .. np
    BY <2>1
  <2>4. o + 1 = p + 1
    BY <2>2, <2>3 DEF IsInjectiveList
  <2>5. o = p
    BY <2>1, <2>4
  <2> QED BY <2>5 DEF o
<1>3. IsFiniteSet(D) /\ \A x \in D : x \in Nat
  <2>1. 0 \in Int /\ np - 1 \in Int
    OBVIOUS
  <2>2. IsFiniteSet(0 .. np - 1) /\ D \subseteq 0 .. np - 1
    BY <2>1, FS_Interval
  <2>3. IsFiniteSet(D)
    BY <2>2, FS_Subset
  <2> QED BY <2>3
<1>4. unshift(I, q) \in Nat
  <2>1. q \in Nat /\ \A x \in I : x \in Nat
    BY DEF Rest
  <2> QED BY <2>1, UnshiftType
<1> QED BY <1>2, <1>3, <1>4, ShiftSpec DEF Was

(***************************************************************************)
(* merge: the deletions and insertions of a change from list a to b and one *)
(* from b to e.                                                             *)
(***************************************************************************)

MergedDeletions(D1, I1, D2) == add_shifted_by(D1, I1, D2)
MergedInsertions(I1, D2, I2) == insert_at(erase_at(I1, D2), I2)

\* The members of both sets.
LEMMA MergedMembers ==
  ASSUME NEW D1, NEW I1, NEW D2, NEW I2
  PROVE  /\ \A x : x \in MergedDeletions(D1, I1, D2) <=>
               x \in D1 \/ \E i \in D2 : i \notin I1 /\ x = Was(D1, I1, i)
         /\ \A x : x \in MergedInsertions(I1, D2, I2) <=>
               x \in I2 \/ \E i \in I1 : i \notin D2 /\ x = Becomes(D2, I2, i)
BY DEF MergedDeletions, MergedInsertions, add_shifted_by, insert_at, erase_at,
       shift_for_insert_at, Was, Becomes

AreRows(S, n) == \A x \in S : x \in 0 .. n - 1

IsExactChange(prev, next, np, nq, D, I) ==
  /\ AreRows(D, np)
  /\ AreRows(I, nq)
  /\ IsExact(prev, next, np, nq, D, I)

\* What stays in both changes, in the order of both.
LEMMA MergedIsExact ==
  ASSUME NEW a, NEW b, NEW e, NEW na \in Nat, NEW nb \in Nat, NEW ne \in Nat,
         IsInjectiveList(a, na), IsInjectiveList(b, nb), IsInjectiveList(e, ne),
         NEW D1, NEW I1, IsExactChange(a, b, na, nb, D1, I1),
         NEW D2, NEW I2, IsExactChange(b, e, nb, ne, D2, I2)
  PROVE  IsExactChange(a, e, na, ne, MergedDeletions(D1, I1, D2), MergedInsertions(I1, D2, I2))
<1> DEFINE D == MergedDeletions(D1, I1, D2)
           I == MergedInsertions(I1, D2, I2)
<1>1. /\ \A x : x \in D <=> x \in D1 \/ \E i \in D2 : i \notin I1 /\ x = Was(D1, I1, i)
      /\ \A x : x \in I <=> x \in I2 \/ \E i \in I1 : i \notin D2 /\ x = Becomes(D2, I2, i)
  BY MergedMembers
<1>2. /\ \A x \in D1 : x \in 0 .. na - 1
      /\ \A x \in I1 : x \in 0 .. nb - 1
      /\ \A x \in D2 : x \in 0 .. nb - 1
      /\ \A x \in I2 : x \in 0 .. ne - 1
      /\ IsExact(a, b, na, nb, D1, I1)
      /\ IsExact(b, e, nb, ne, D2, I2)
  BY DEF IsExactChange, AreRows
<1>3. IsPlaced(a, b, na, nb, D1, I1) /\ IsPlaced(b, e, nb, ne, D2, I2)
  BY <1>2, ExactPlaces
<1>4. /\ \A i \in 0 .. nb - 1 : i \notin I1 =>
           /\ Was(D1, I1, i) \in 0 .. na - 1 /\ Was(D1, I1, i) \notin D1
           /\ a[Was(D1, I1, i) + 1] = b[i + 1]
      /\ \A i \in 0 .. nb - 1 : i \notin D2 =>
           /\ Becomes(D2, I2, i) \in 0 .. ne - 1 /\ Becomes(D2, I2, i) \notin I2
           /\ b[i + 1] = e[Becomes(D2, I2, i) + 1]
  BY <1>3 DEF IsPlaced, Rest
<1> HIDE DEF D, I
<1>5. AreRows(D, na) /\ AreRows(I, ne)
  BY <1>1, <1>2, <1>4 DEF AreRows
<1>6. /\ \A x, y \in 0 .. na - 1 : a[x + 1] = a[y + 1] => x = y
      /\ \A x, y \in 0 .. nb - 1 : b[x + 1] = b[y + 1] => x = y
      /\ \A x, y \in 0 .. ne - 1 : e[x + 1] = e[y + 1] => x = y
  <2>1. ASSUME NEW f, NEW n \in Nat, IsInjectiveList(f, n)
        PROVE  \A x, y \in 0 .. n - 1 : f[x + 1] = f[y + 1] => x = y
    <3> SUFFICES ASSUME NEW x \in 0 .. n - 1, NEW y \in 0 .. n - 1, f[x + 1] = f[y + 1]
                 PROVE  x = y
      OBVIOUS
    <3>1. x + 1 \in 1 .. n /\ y + 1 \in 1 .. n
      OBVIOUS
    <3>2. x + 1 = y + 1
      BY <2>1, <3>1 DEF IsInjectiveList
    <3> QED BY <3>2
  <2> QED BY <2>1
\* A row that stays in the end came through a row of b that stays in both.
<1>7. ASSUME NEW r \in Rest(ne, I)
      PROVE  \E q \in 0 .. nb - 1, p \in Rest(na, D) :
               /\ q \in Rest(nb, D2) /\ q \in Rest(nb, I1)
               /\ p \in Rest(na, D1)
               /\ a[p + 1] = b[q + 1] /\ b[q + 1] = e[r + 1]
  <2>1. r \in 0 .. ne - 1 /\ r \notin I /\ r \notin I2
    BY <1>1 DEF Rest
  <2>2. PICK q \in 0 .. nb - 1 : q \notin D2 /\ b[q + 1] = e[r + 1]
    BY <1>2, <2>1 DEF IsExact, Rest
  <2>3. q \notin I1
    <3>1. ASSUME q \in I1 PROVE FALSE
      <4>1. Becomes(D2, I2, q) = r
        BY <1>4, <1>6, <2>1, <2>2
      <4> QED BY <1>1, <2>1, <2>2, <3>1, <4>1
    <3> QED BY <3>1
  <2> DEFINE p == Was(D1, I1, q)
  <2>4. p \in 0 .. na - 1 /\ p \notin D1 /\ a[p + 1] = b[q + 1]
    BY <1>4, <2>3
  <2> HIDE DEF p
  <2>5. p \notin D
    <3>1. ASSUME NEW i \in D2, i \notin I1, p = Was(D1, I1, i) PROVE FALSE
      <4>1. i \in 0 .. nb - 1 /\ b[i + 1] = b[q + 1]
        BY <1>2, <1>4, <2>4, <3>1
      <4> QED BY <1>6, <2>2, <4>1
    <3> QED BY <1>1, <2>4, <3>1
  <2> QED BY <2>2, <2>3, <2>4, <2>5 DEF Rest
<1>8. ASSUME NEW p \in Rest(na, D)
      PROVE  \E r \in Rest(ne, I) : a[p + 1] = e[r + 1]
  <2>1. p \in 0 .. na - 1 /\ p \notin D /\ p \notin D1
    BY <1>1 DEF Rest
  <2>2. PICK q \in 0 .. nb - 1 : q \notin I1 /\ a[p + 1] = b[q + 1]
    BY <1>2, <2>1 DEF IsExact, Rest
  <2>3. q \notin D2
    <3>1. ASSUME q \in D2 PROVE FALSE
      <4>1. Was(D1, I1, q) = p
        BY <1>4, <1>6, <2>1, <2>2
      <4> QED BY <1>1, <2>1, <2>2, <3>1, <4>1
    <3> QED BY <3>1
  <2> DEFINE r == Becomes(D2, I2, q)
  <2>4. r \in 0 .. ne - 1 /\ r \notin I2 /\ b[q + 1] = e[r + 1]
    BY <1>4, <2>3
  <2> HIDE DEF r
  <2>5. r \notin I
    <3>1. ASSUME NEW i \in I1, i \notin D2, r = Becomes(D2, I2, i) PROVE FALSE
      <4>1. i \in 0 .. nb - 1 /\ b[i + 1] = b[q + 1]
        BY <1>2, <1>4, <2>4, <3>1
      <4> QED BY <1>6, <2>2, <4>1
    <3> QED BY <1>1, <2>4, <3>1
  <2> QED BY <2>2, <2>4, <2>5 DEF Rest
<1>9. ASSUME NEW p \in Rest(na, D), NEW p1 \in Rest(na, D), NEW r \in Rest(ne, I),
             NEW r1 \in Rest(ne, I), a[p + 1] = e[r + 1], a[p1 + 1] = e[r1 + 1]
      PROVE  r < r1 <=> p < p1
  <2>1. PICK q \in 0 .. nb - 1, o \in Rest(na, D) :
               /\ q \in Rest(nb, D2) /\ q \in Rest(nb, I1)
               /\ o \in Rest(na, D1)
               /\ a[o + 1] = b[q + 1] /\ b[q + 1] = e[r + 1]
    BY <1>7
  <2>2. PICK q1 \in 0 .. nb - 1, o1 \in Rest(na, D) :
               /\ q1 \in Rest(nb, D2) /\ q1 \in Rest(nb, I1)
               /\ o1 \in Rest(na, D1)
               /\ a[o1 + 1] = b[q1 + 1] /\ b[q1 + 1] = e[r1 + 1]
    BY <1>7
  <2>3. o = p /\ o1 = p1
    <3>1. \A x \in Rest(na, D) : x \in 0 .. na - 1
      BY DEF Rest
    <3> QED BY <1>6, <1>9, <2>1, <2>2, <3>1
  <2>4. r \in Rest(ne, I2) /\ r1 \in Rest(ne, I2)
    BY <1>1 DEF Rest
  <2>5. r < r1 <=> q < q1
    BY <1>2, <2>1, <2>2, <2>4 DEF IsExact
  <2>6. q < q1 <=> p < p1
    BY <1>2, <2>1, <2>2, <2>3 DEF IsExact
  <2> QED BY <2>5, <2>6
<1>10. IsExact(a, e, na, ne, D, I)
  BY <1>7, <1>8, <1>9 DEF IsExact
<1>11. IsExactChange(a, e, na, ne, D, I)
  BY <1>5, <1>10 DEF IsExactChange
<1> QED BY <1>11 DEF D, I
\* A row outside S keeps its order with the others when S is taken out.
LEMMA ApartUnshift ==
  ASSUME NEW S, \A x \in S : x \in Nat, NEW i \in Nat, NEW j \in Nat, i \notin S
  PROVE  /\ i < j => unshift(S, i) < unshift(S, j)
         /\ j < i => unshift(S, j) <= unshift(S, i)
<1>1. CASE i < j
  BY <1>1, UnshiftMonotone
<1>2. CASE j <= i
  BY <1>2, UnshiftMonotone
<1> QED BY <1>1, <1>2

\* A deleted and an inserted row that are the same one and have as many staying
\* rows before them may stay as well.
LEMMA DroppedMoveIsExact ==
  ASSUME NEW a, NEW b, NEW na \in Nat, NEW nb \in Nat,
         IsInjectiveList(a, na), IsInjectiveList(b, nb),
         NEW D, NEW I, IsExactChange(a, b, na, nb, D, I),
         NEW from \in D, NEW to \in I, a[from + 1] = b[to + 1],
         unshift(D, from) = unshift(I, to)
  PROVE  IsExactChange(a, b, na, nb, D \ {from}, I \ {to})
<1> DEFINE E == D \ {from}
           J == I \ {to}
<1>1. /\ \A x \in D : x \in 0 .. na - 1
      /\ \A x \in I : x \in 0 .. nb - 1
      /\ IsExact(a, b, na, nb, D, I)
      /\ from \in 0 .. na - 1 /\ to \in 0 .. nb - 1
  BY DEF IsExactChange, AreRows
<1>2. /\ \A p : p \in Rest(na, E) <=> p \in Rest(na, D) \/ p = from
      /\ \A q : q \in Rest(nb, J) <=> q \in Rest(nb, I) \/ q = to
  BY <1>1 DEF Rest
<1>3. /\ \A x, y \in 0 .. na - 1 : a[x + 1] = a[y + 1] => x = y
      /\ \A x, y \in 0 .. nb - 1 : b[x + 1] = b[y + 1] => x = y
  <2>1. ASSUME NEW f, NEW n \in Nat, IsInjectiveList(f, n)
        PROVE  \A x, y \in 0 .. n - 1 : f[x + 1] = f[y + 1] => x = y
    <3> SUFFICES ASSUME NEW x \in 0 .. n - 1, NEW y \in 0 .. n - 1, f[x + 1] = f[y + 1]
                 PROVE  x = y
      OBVIOUS
    <3>1. x + 1 \in 1 .. n /\ y + 1 \in 1 .. n
      OBVIOUS
    <3>2. x + 1 = y + 1
      BY <2>1, <3>1 DEF IsInjectiveList
    <3> QED BY <3>2
  <2> QED BY <2>1
<1>4. ASSUME NEW p \in Rest(na, D), NEW q \in Rest(nb, I), a[p + 1] = b[q + 1]
      PROVE  (q < to <=> p < from) /\ (to < q <=> from < p)
  <2>1. unshift(D, p) = unshift(I, q)
    <3>1. /\ \A x \in D : x \in 0 .. na - 1
          /\ \A x \in I : x \in 0 .. nb - 1
          /\ IsExact(a, b, na, nb, D, I)
      BY <1>1
    <3>2. a[p + 1] = b[q + 1]
      BY <1>4
    <3> QED BY <3>1, <3>2, SameRank
  <2>2. /\ p \in Nat /\ p \notin D /\ q \in Nat /\ q \notin I
        /\ from \in Nat /\ to \in Nat
        /\ \A x \in D : x \in Nat
        /\ \A x \in I : x \in Nat
    BY <1>1 DEF Rest
  <2>3. p # from /\ q # to
    BY <2>2
  <2>4. /\ p < from => unshift(D, p) < unshift(D, from)
        /\ from < p => unshift(D, from) <= unshift(D, p)
    BY <2>2, ApartUnshift
  <2>5. /\ q < to => unshift(I, q) < unshift(I, to)
        /\ to < q => unshift(I, to) <= unshift(I, q)
    BY <2>2, ApartUnshift
  <2>6. unshift(D, p) \in Nat /\ unshift(D, from) \in Nat
    BY <2>2, UnshiftType
  <2> QED BY <2>1, <2>2, <2>3, <2>4, <2>5, <2>6
<1>5. /\ \A q \in Rest(nb, I) : \E p \in Rest(na, D) : a[p + 1] = b[q + 1]
      /\ \A p \in Rest(na, D) : \E q \in Rest(nb, I) : a[p + 1] = b[q + 1]
      /\ \A p, p1 \in Rest(na, D), q, q1 \in Rest(nb, I) :
           a[p + 1] = b[q + 1] /\ a[p1 + 1] = b[q1 + 1] => (q < q1 <=> p < p1)
  BY <1>1 DEF IsExact
<1> HIDE DEF E, J
<1>6. /\ \A q \in Rest(nb, J) : \E p \in Rest(na, E) : a[p + 1] = b[q + 1]
      /\ \A p \in Rest(na, E) : \E q \in Rest(nb, J) : a[p + 1] = b[q + 1]
  BY <1>2, <1>5
<1>7. /\ \A p \in Rest(na, D) : p \in 0 .. na - 1 /\ p # from
      /\ \A q \in Rest(nb, I) : q \in 0 .. nb - 1 /\ q # to
  BY DEF Rest
<1>8. ASSUME NEW p \in Rest(na, E), NEW q \in Rest(nb, J), a[p + 1] = b[q + 1]
      PROVE  (p = from /\ q = to) \/ (p \in Rest(na, D) /\ q \in Rest(nb, I))
  <2>1. CASE p = from
    <3>1. b[q + 1] = b[to + 1]
      BY <1>8, <2>1
    <3>2. q \in 0 .. nb - 1
      BY DEF Rest
    <3>3. q = to
      BY <1>1, <1>3, <3>1, <3>2, Zenon
    <3> QED BY <2>1, <3>3
  <2>2. CASE q = to
    <3>1. a[p + 1] = a[from + 1]
      BY <1>8, <2>2
    <3>2. p \in 0 .. na - 1
      BY DEF Rest
    <3>3. p = from
      BY <1>1, <1>3, <3>1, <3>2, Zenon
    <3> QED BY <2>2, <3>3
  <2> QED BY <1>2, <2>1, <2>2
<1>9. ASSUME NEW p \in Rest(na, E), NEW p1 \in Rest(na, E), NEW q \in Rest(nb, J),
             NEW q1 \in Rest(nb, J), a[p + 1] = b[q + 1], a[p1 + 1] = b[q1 + 1]
      PROVE  q < q1 <=> p < p1
  <2>1. CASE p = from /\ q = to /\ p1 = from /\ q1 = to
    BY <1>1, <2>1
  <2>2. CASE p = from /\ q = to /\ p1 \in Rest(na, D) /\ q1 \in Rest(nb, I)
    BY <1>4, <1>9, <2>2
  <2>3. CASE p \in Rest(na, D) /\ q \in Rest(nb, I) /\ p1 = from /\ q1 = to
    BY <1>4, <1>9, <2>3
  <2>4. CASE p \in Rest(na, D) /\ q \in Rest(nb, I) /\ p1 \in Rest(na, D) /\ q1 \in Rest(nb, I)
    BY <1>5, <1>9, <2>4
  <2> QED BY <1>8, <1>9, <2>1, <2>2, <2>3, <2>4
<1>10. IsExact(a, b, na, nb, E, J)
  BY <1>6, <1>9 DEF IsExact
<1>11. AreRows(E, na) /\ AreRows(J, nb)
  BY <1>1 DEF E, J, AreRows
<1>12. IsExactChange(a, b, na, nb, E, J)
  BY <1>10, <1>11 DEF IsExactChange
<1> QED BY <1>12 DEF E, J
(***************************************************************************)
(* Lists with contents, and what a change says of its moves and of the      *)
(* rows whose contents changed.  a and b are the rows of the old and of the *)
(* new list, x and y their contents.                                        *)
(***************************************************************************)

MoveList == Seq([from : Nat, to : Nat])

IsTrueMove(m, a, b, D, I) == m.from \in D /\ m.to \in I /\ a[m.from + 1] = b[m.to + 1]

FromOnce(moves) == \A k, l \in 1 .. Len(moves) : moves[k].from = moves[l].from => k = l

AreTrueMoves(moves, a, b, D, I) ==
  /\ moves \in MoveList
  /\ \A k \in 1 .. Len(moves) : IsTrueMove(moves[k], a, b, D, I)
  /\ FromOnce(moves)

IsTold(M, moves, a, x, na, b, y, nb, D) ==
  \A p \in 0 .. na - 1, q \in 0 .. nb - 1 :
    /\ a[p + 1] = b[q + 1] /\ x[p + 1] # y[q + 1]
    /\ p \notin D \/ \E k \in 1 .. Len(moves) : moves[k].from = p
    => q \in M

\* A change that is exact, moves only what is the same row, and reports every
\* row that stays or moves with other contents as modified.
IsTrueOf(c, a, x, na, b, y, nb) ==
  /\ IsExactChange(a, b, na, nb, c.deletions, c.insertions)
  /\ AreRows(c.modifications, nb)
  /\ AreTrueMoves(c.moves, a, b, c.deletions, c.insertions)
  /\ IsTold(c.modifications, c.moves, a, x, na, b, y, nb, c.deletions)

(***************************************************************************)
(* Following the moves of the first change through the second.              *)
(***************************************************************************)

\* The moves without the k-th, whose place the last one takes.
Taken(moves, k) == SubSeq([moves EXCEPT ![k] = moves[Len(moves)]], 1, Len(moves) - 1)

\* Taking a move out leaves moves that were there, from a row each.
LEMMA TakenMoves ==
  ASSUME NEW moves \in MoveList, FromOnce(moves), NEW k \in 1 .. Len(moves)
  PROVE  /\ Taken(moves, k) \in MoveList
         /\ FromOnce(Taken(moves, k))
         /\ \A j \in 1 .. Len(Taken(moves, k)) :
              \E l \in 1 .. Len(moves) : Taken(moves, k)[j] = moves[l]
<1> DEFINE n == Len(moves)
           s == [moves EXCEPT ![k] = moves[n]]
           t == Taken(moves, k)
           at(j) == IF j = k THEN n ELSE j
<1>1. n \in Nat /\ n \in 1 .. n /\ n - 1 \in 0 .. n
  BY DEF MoveList
<1>2. s \in MoveList /\ Len(s) = n /\ \A j \in 1 .. n : s[j] = moves[at(j)]
  <2>1. moves[n] \in [from : Nat, to : Nat]
    BY <1>1, ElementOfSeq DEF MoveList
  <2> DEFINE e == moves[n]
  <2> HIDE DEF e
  <2>2. /\ [moves EXCEPT ![k] = e] \in Seq([from : Nat, to : Nat])
        /\ Len([moves EXCEPT ![k] = e]) = Len(moves)
        /\ \A j \in 1 .. Len(moves) : [moves EXCEPT ![k] = e][j] = IF j = k THEN e ELSE moves[j]
    <3>1. e \in [from : Nat, to : Nat]
      BY <2>1 DEF e
    <3> QED BY <3>1, ExceptSeq DEF MoveList
  <2> QED BY <2>2 DEF e, MoveList
<1>3. t \in MoveList /\ Len(t) = n - 1 /\ \A j \in 1 .. n - 1 : t[j] = s[j]
  <2>1. t = SubSeq(s, 1, n - 1)
    BY DEF Taken
  <2> HIDE DEF s, n, t
  <2>2. 1 \in Int /\ n - 1 \in Int
    BY <1>1
  <2>3. \A j \in 1 .. n - 1 : s[j] \in [from : Nat, to : Nat]
    <3>1. \A j \in 1 .. Len(s) : s[j] \in [from : Nat, to : Nat]
      BY <1>2, ElementOfSeq DEF MoveList
    <3> QED BY <1>1, <1>2, <3>1
  <2>4. /\ SubSeq(s, 1, n - 1) \in Seq([from : Nat, to : Nat])
        /\ Len(SubSeq(s, 1, n - 1)) = IF 1 <= n - 1 THEN (n - 1) - 1 + 1 ELSE 0
        /\ \A i \in 1 .. (n - 1) - 1 + 1 : SubSeq(s, 1, n - 1)[i] = s[1 + i - 1]
    BY <2>2, <2>3, SubSeqProperties
  <2>5. \A i \in 1 .. n - 1 : 1 + i - 1 = i /\ i \in 1 .. (n - 1) - 1 + 1
    BY <1>1
  <2> QED BY <1>1, <2>1, <2>4, <2>5 DEF MoveList
<1>4. \A j \in 1 .. n - 1 : at(j) \in 1 .. n /\ t[j] = moves[at(j)]
  BY <1>1, <1>2, <1>3
<1>5. \A i, j \in 1 .. n - 1 : at(i) = at(j) => i = j
  BY <1>1
<1>6. FromOnce(t)
  <2> HIDE DEF t, n, at
  <2> SUFFICES ASSUME NEW i \in 1 .. n - 1, NEW j \in 1 .. n - 1, t[i].from = t[j].from
               PROVE  i = j
    BY <1>3 DEF FromOnce
  <2>1. at(i) \in 1 .. n /\ at(j) \in 1 .. n /\ moves[at(i)].from = moves[at(j)].from
    BY <1>4
  <2>2. at(i) = at(j)
    BY <2>1 DEF FromOnce, n
  <2> QED BY <1>5, <2>2
<1> HIDE DEF at, t
<1> QED BY <1>3, <1>4, <1>6 DEF t

FollowState == [kept : MoveList, next : MoveList, modified : SUBSET Nat]

\* What following one move does.
FollowResult(t, c, s, old, r) ==
  \/ \E k \in 1 .. Len(s.next) :
       /\ s.next[k].from = old.to
       /\ r.kept = Append(s.kept, [from |-> old.from, to |-> s.next[k].to])
       /\ r.next = Taken(s.next, k)
       /\ s.modified \subseteq r.modified
       /\ r.modified \subseteq s.modified \union {s.next[k].to}
       /\ old.to \in t.modifications => s.next[k].to \in r.modified
  \/ r = s
  \/ /\ old.to \notin c.deletions
     /\ r.kept = Append(s.kept, [from |-> old.from,
                                 to |-> Becomes(c.deletions, c.insertions, old.to)])
     /\ r.next = s.next
     /\ r.modified = s.modified

\* follow_move does one of the cases.
LEMMA FollowCases ==
  ASSUME NEW t, NEW c, NEW s \in FollowState, NEW old \in [from : Nat, to : Nat], NEW r,
         r = follow_move(t, c, s, old)
  PROVE  FollowResult(t, c, s, old, r) /\ DOMAIN r = DOMAIN s
<1> DEFINE again == {k \in DOMAIN s.next : s.next[k].from = old.to}
           k == CHOOSE k \in again : TRUE
           to == s.next[k].to
<1>1. s.next \in MoveList /\ s.kept \in MoveList /\ DOMAIN s.next = 1 .. Len(s.next)
      /\ DOMAIN s = {"kept", "next", "modified"}
  BY DEF FollowState, MoveList
<1>2. CASE again # {}
  <2>1. k \in again
    BY <1>2
  <2>2. k \in 1 .. Len(s.next) /\ s.next[k].from = old.to
    BY <1>1, <2>1
  <2>3. r = [kept |-> Append(s.kept, [old EXCEPT !.to = to]),
             next |-> SubSeq([s.next EXCEPT ![k] = s.next[Len(s.next)]], 1, Len(s.next) - 1),
             modified |-> s.modified \union (IF old.to \in t.modifications THEN {to} ELSE {})]
    BY <1>2 DEF follow_move
  <2>4. [old EXCEPT !.to = to] = [from |-> old.from, to |-> to]
    OBVIOUS
  <2> HIDE DEF k, again
  <2>5. /\ r.kept = Append(s.kept, [from |-> old.from, to |-> s.next[k].to])
        /\ r.next = Taken(s.next, k)
        /\ DOMAIN r = {"kept", "next", "modified"}
    BY <2>3, <2>4 DEF Taken
  <2>6. r.modified = s.modified \union (IF old.to \in t.modifications THEN {to} ELSE {})
    BY <2>3
  <2>7. /\ s.modified \subseteq r.modified
        /\ r.modified \subseteq s.modified \union {s.next[k].to}
        /\ old.to \in t.modifications => s.next[k].to \in r.modified
    BY <2>6
  <2> QED BY <1>1, <2>2, <2>5, <2>7 DEF FollowResult
<1>3. CASE again = {} /\ old.to \in c.deletions
  <2>1. r = s
    BY <1>3 DEF follow_move
  <2> QED BY <2>1 DEF FollowResult
<1>4. CASE again = {} /\ old.to \notin c.deletions
  <2> DEFINE new == shift(c.insertions, unshift(c.deletions, old.to))
  <2>1. r = [s EXCEPT !.kept = Append(@, [old EXCEPT !.to = new])]
    BY <1>4 DEF follow_move
  <2>2. [old EXCEPT !.to = new] = [from |-> old.from, to |-> new]
    OBVIOUS
  <2>3. /\ r.kept = Append(s.kept, [from |-> old.from, to |-> new])
        /\ r.next = s.next /\ r.modified = s.modified /\ DOMAIN r = DOMAIN s
    BY <1>1, <2>1, <2>2
  <2> QED BY <1>4, <2>3 DEF FollowResult, Becomes
<1> QED BY <1>2, <1>3, <1>4
\* Two changes, one after the other.
AreSuccessive(t, c, a, x, na, b, y, nb, e, z, ne) ==
  /\ na \in Nat /\ nb \in Nat /\ ne \in Nat
  /\ IsInjectiveList(a, na) /\ IsInjectiveList(b, nb) /\ IsInjectiveList(e, ne)
  /\ IsTrueOf(t, a, x, na, b, y, nb)
  /\ IsTrueOf(c, b, y, nb, e, z, ne)

AllInsertions(t, c) == MergedInsertions(t.insertions, c.deletions, c.insertions)
AllDeletions(t, c) == MergedDeletions(t.deletions, t.insertions, c.deletions)

\* The rows modified by the first change that the second leaves where they are.
Carried(t, c) == shift_for_insert_at(erase_at(t.modifications, c.deletions), c.insertions)

\* The merged deletions: those of t, and those of c renumbered.
LEMMA AllDeletionsAre ==
  ASSUME NEW t, NEW c
  PROVE  \A d : d \in AllDeletions(t, c) <=>
           \/ d \in t.deletions
           \/ \E i \in c.deletions : /\ i \notin t.insertions
                                      /\ d = Was(t.deletions, t.insertions, i)
BY DEF AllDeletions, MergedDeletions, add_shifted_by, Was

\* The merged insertions: those of c, and those of t renumbered.
LEMMA AllInsertionsAre ==
  ASSUME NEW t, NEW c
  PROVE  \A d : d \in AllInsertions(t, c) <=>
           \/ d \in c.insertions
           \/ \E i \in t.insertions : /\ i \notin c.deletions
                                       /\ d = Becomes(c.deletions, c.insertions, i)
BY DEF AllInsertions, MergedInsertions, insert_at, erase_at, shift_for_insert_at, Becomes

\* The members of Carried.
LEMMA CarriedMembers ==
  ASSUME NEW t, NEW c
  PROVE  \A r : r \in Carried(t, c) <=>
           \E m \in t.modifications : /\ m \notin c.deletions
                                      /\ r = Becomes(c.deletions, c.insertions, m)
BY DEF Carried, shift_for_insert_at, erase_at, Becomes

\* m is a move of the merged change, and told when M is.
IsFollowed(m, M, t, c, a, x, e, z) ==
  /\ m.from \in AllDeletions(t, c) /\ m.to \in AllInsertions(t, c)
  /\ a[m.from + 1] = e[m.to + 1]
  /\ x[m.from + 1] # z[m.to + 1] => m.to \in M \/ m.to \in Carried(t, c)

SuccessiveFacts(t, c, a, x, na, b, y, nb, e, z, ne) ==
  /\ \A d \in t.deletions : d \in 0 .. na - 1
  /\ \A d \in t.insertions : d \in 0 .. nb - 1
  /\ \A d \in t.modifications : d \in 0 .. nb - 1
  /\ \A d \in c.deletions : d \in 0 .. nb - 1
  /\ \A d \in c.insertions : d \in 0 .. ne - 1
  /\ \A d \in c.modifications : d \in 0 .. ne - 1
  /\ \A i \in 0 .. nb - 1 : i \notin t.insertions =>
       LET o == Was(t.deletions, t.insertions, i)
       IN o \in 0 .. na - 1 /\ o \notin t.deletions /\ a[o + 1] = b[i + 1]
  /\ \A i \in 0 .. nb - 1 : i \notin c.deletions =>
       LET r == Becomes(c.deletions, c.insertions, i)
       IN r \in 0 .. ne - 1 /\ r \notin c.insertions /\ b[i + 1] = e[r + 1]

\* What is used of two successive changes.
LEMMA SuccessiveAre ==
  ASSUME NEW t, NEW c, NEW a, NEW x, NEW na, NEW b, NEW y, NEW nb, NEW e, NEW z, NEW ne,
         AreSuccessive(t, c, a, x, na, b, y, nb, e, z, ne)
  PROVE  SuccessiveFacts(t, c, a, x, na, b, y, nb, e, z, ne)
<1>1. na \in Nat /\ nb \in Nat /\ ne \in Nat
  BY DEF AreSuccessive
<1>2. /\ \A d \in t.deletions : d \in 0 .. na - 1
      /\ \A d \in t.insertions : d \in 0 .. nb - 1
      /\ \A d \in t.modifications : d \in 0 .. nb - 1
      /\ \A d \in c.deletions : d \in 0 .. nb - 1
      /\ \A d \in c.insertions : d \in 0 .. ne - 1
      /\ \A d \in c.modifications : d \in 0 .. ne - 1
      /\ IsExact(a, b, na, nb, t.deletions, t.insertions)
      /\ IsExact(b, e, nb, ne, c.deletions, c.insertions)
  BY DEF AreSuccessive, IsTrueOf, IsExactChange, AreRows
<1>3. IsPlaced(a, b, na, nb, t.deletions, t.insertions)
  BY <1>1, <1>2, ExactPlaces
<1>4. IsPlaced(b, e, nb, ne, c.deletions, c.insertions)
  BY <1>1, <1>2, ExactPlaces
<1>5. \A i \in 0 .. nb - 1 : i \notin t.insertions =>
        LET o == Was(t.deletions, t.insertions, i)
        IN o \in 0 .. na - 1 /\ o \notin t.deletions /\ a[o + 1] = b[i + 1]
  BY <1>3 DEF IsPlaced, Rest
<1>6. \A i \in 0 .. nb - 1 : i \notin c.deletions =>
        LET r == Becomes(c.deletions, c.insertions, i)
        IN r \in 0 .. ne - 1 /\ r \notin c.insertions /\ b[i + 1] = e[r + 1]
  BY <1>4 DEF IsPlaced, Rest
<1> QED BY <1>2, <1>5, <1>6 DEF SuccessiveFacts

\* What is known of a move.
IsToldMove(m, c, a, x, b, y) ==
  /\ m \in [from : Nat, to : Nat]
  /\ m.from \in c.deletions /\ m.to \in c.insertions
  /\ a[m.from + 1] = b[m.to + 1]
  /\ x[m.from + 1] # y[m.to + 1] => m.to \in c.modifications

\* A move of a true change is of one row, and told when its contents changed.
LEMMA MoveFacts ==
  ASSUME NEW c, NEW a, NEW x, NEW na \in Nat, NEW b, NEW y, NEW nb \in Nat,
         IsTrueOf(c, a, x, na, b, y, nb), NEW k \in 1 .. Len(c.moves)
  PROVE  IsToldMove(c.moves[k], c, a, x, b, y)
<1> DEFINE m == c.moves[k]
<1>1. m \in [from : Nat, to : Nat]
  BY ElementOfSeq DEF IsTrueOf, AreTrueMoves, MoveList
<1>2. m.from \in c.deletions /\ m.to \in c.insertions /\ a[m.from + 1] = b[m.to + 1]
  BY DEF IsTrueOf, AreTrueMoves, IsTrueMove
<1>3. m.from \in 0 .. na - 1 /\ m.to \in 0 .. nb - 1
  BY <1>2 DEF IsTrueOf, IsExactChange, AreRows
<1>4. \E l \in 1 .. Len(c.moves) : c.moves[l].from = m.from
  OBVIOUS
<1>5. x[m.from + 1] # y[m.to + 1] => m.to \in c.modifications
  <2> HIDE DEF m
  <2> QED BY <1>2, <1>3, <1>4 DEF IsTrueOf, IsTold
<1> QED BY <1>1, <1>2, <1>5 DEF IsToldMove

\* A move that moves again.
LEMMA FollowedAgain ==
  ASSUME NEW t, NEW c, NEW a, NEW x, NEW na, NEW b, NEW y, NEW nb, NEW e, NEW z, NEW ne,
         AreSuccessive(t, c, a, x, na, b, y, nb, e, z, ne),
         NEW l \in 1 .. Len(t.moves), NEW k \in 1 .. Len(c.moves),
         c.moves[k].from = t.moves[l].to,
         NEW M, c.modifications \subseteq M,
         t.moves[l].to \in t.modifications => c.moves[k].to \in M
  PROVE  IsFollowed([from |-> t.moves[l].from, to |-> c.moves[k].to], M, t, c, a, x, e, z)
<1> DEFINE old == t.moves[l]
           new == c.moves[k]
<1>1. na \in Nat /\ nb \in Nat /\ ne \in Nat
      /\ IsTrueOf(t, a, x, na, b, y, nb) /\ IsTrueOf(c, b, y, nb, e, z, ne)
  BY DEF AreSuccessive
<1>2. /\ old.from \in t.deletions
      /\ a[old.from + 1] = b[old.to + 1]
      /\ x[old.from + 1] # y[old.to + 1] => old.to \in t.modifications
  <2>1. IsToldMove(t.moves[l], t, a, x, b, y)
    BY <1>1, MoveFacts
  <2> QED BY <2>1 DEF IsToldMove
<1>3. /\ new.to \in c.insertions
      /\ b[new.from + 1] = e[new.to + 1]
      /\ y[new.from + 1] # z[new.to + 1] => new.to \in c.modifications
  <2>1. IsToldMove(c.moves[k], c, b, y, e, z)
    BY <1>1, MoveFacts
  <2> QED BY <2>1 DEF IsToldMove
<1>4. old.from \in AllDeletions(t, c) /\ new.to \in AllInsertions(t, c)
  BY <1>2, <1>3, AllDeletionsAre, AllInsertionsAre
<1>5. new.from = old.to /\ (old.to \in t.modifications => new.to \in M)
  OBVIOUS
<1> HIDE DEF old, new
<1>6. x[old.from + 1] # z[new.to + 1] => new.to \in M
  BY <1>2, <1>3, <1>5
<1>7. IsFollowed([from |-> old.from, to |-> new.to], M, t, c, a, x, e, z)
  BY <1>2, <1>3, <1>4, <1>5, <1>6 DEF IsFollowed
<1> QED BY <1>7 DEF old, new

\* A move whose row the second change leaves alone.
LEMMA FollowedOn ==
  ASSUME NEW t, NEW c, NEW a, NEW x, NEW na, NEW b, NEW y, NEW nb, NEW e, NEW z, NEW ne,
         AreSuccessive(t, c, a, x, na, b, y, nb, e, z, ne),
         NEW l \in 1 .. Len(t.moves), t.moves[l].to \notin c.deletions,
         NEW M, c.modifications \subseteq M
  PROVE  /\ IsFollowed([from |-> t.moves[l].from,
                        to |-> Becomes(c.deletions, c.insertions, t.moves[l].to)],
                       M, t, c, a, x, e, z)
         /\ Becomes(c.deletions, c.insertions, t.moves[l].to) \in Nat
<1> DEFINE old == t.moves[l]
           to == Becomes(c.deletions, c.insertions, old.to)
<1>1. na \in Nat /\ nb \in Nat /\ ne \in Nat
      /\ IsTrueOf(t, a, x, na, b, y, nb) /\ IsTrueOf(c, b, y, nb, e, z, ne)
  BY DEF AreSuccessive
<1>2. /\ old.from \in t.deletions /\ old.to \in t.insertions
      /\ a[old.from + 1] = b[old.to + 1]
      /\ x[old.from + 1] # y[old.to + 1] => old.to \in t.modifications
  <2>1. IsToldMove(t.moves[l], t, a, x, b, y)
    BY <1>1, MoveFacts
  <2> QED BY <2>1 DEF IsToldMove
<1>3. SuccessiveFacts(t, c, a, x, na, b, y, nb, e, z, ne)
  BY SuccessiveAre
<1>4. old.to \in 0 .. nb - 1
  BY <1>2, <1>3 DEF SuccessiveFacts
<1>5. to \in 0 .. ne - 1 /\ to \notin c.insertions /\ b[old.to + 1] = e[to + 1]
  BY <1>3, <1>4 DEF SuccessiveFacts
<1>6. old.from \in AllDeletions(t, c) /\ to \in AllInsertions(t, c)
  BY <1>2, AllDeletionsAre, AllInsertionsAre
<1>7. old.to \in t.modifications => to \in Carried(t, c)
  BY CarriedMembers
<1>8. old.to \notin c.deletions
  OBVIOUS
<1> HIDE DEF old, to
<1>9. y[old.to + 1] # z[to + 1] => to \in c.modifications
  BY <1>1, <1>4, <1>5, <1>8 DEF IsTrueOf, IsTold
<1>10. x[old.from + 1] # z[to + 1] => to \in M \/ to \in Carried(t, c)
  BY <1>2, <1>7, <1>9
<1>11. IsFollowed([from |-> old.from, to |-> to], M, t, c, a, x, e, z)
  BY <1>2, <1>5, <1>6, <1>10 DEF IsFollowed
<1>12. to \in Nat
  BY <1>5
<1> QED BY <1>11, <1>12 DEF old, to
\* The moves kept are moves of the merged change, each from one of the first n of
\* the first change.
AreFollowed(kept, M, n, t, c, a, x, e, z) ==
  /\ kept \in MoveList
  /\ FromOnce(kept)
  /\ \A k \in 1 .. Len(kept) : IsFollowed(kept[k], M, t, c, a, x, e, z)
  /\ \A k \in 1 .. Len(kept) : \E l \in 1 .. n : kept[k].from = t.moves[l].from

\* Moves of the second change only.
AreLeft(next, c) ==
  /\ next \in MoveList
  /\ FromOnce(next)
  /\ \A k \in 1 .. Len(next) : \E l \in 1 .. Len(c.moves) : next[k] = c.moves[l]

FollowInv(s, n, t, c, a, x, e, z, ne) ==
  /\ s \in FollowState
  /\ AreFollowed(s.kept, s.modified, n, t, c, a, x, e, z)
  /\ AreLeft(s.next, c)
  /\ c.modifications \subseteq s.modified
  /\ AreRows(s.modified, ne)

\* One more move is kept.
LEMMA OneMoreFollowed ==
  ASSUME NEW t, NEW c, NEW a, NEW x, NEW e, NEW z, NEW kept, NEW L, NEW M, L \subseteq M,
         NEW n \in Nat, n + 1 \in 1 .. Len(t.moves), FromOnce(t.moves), t.moves \in MoveList,
         AreFollowed(kept, L, n, t, c, a, x, e, z),
         NEW m \in [from : Nat, to : Nat], m.from = t.moves[n + 1].from,
         IsFollowed(m, M, t, c, a, x, e, z)
  PROVE  AreFollowed(Append(kept, m), M, n + 1, t, c, a, x, e, z)
<1> DEFINE new == Append(kept, m)
           N == Len(kept)
<1>1. kept \in Seq([from : Nat, to : Nat])
  BY DEF AreFollowed, MoveList
<1>2. N \in Nat
  BY <1>1, LenProperties
<1>3. /\ new \in MoveList /\ Len(new) = N + 1
      /\ \A k \in 1 .. N : new[k] = kept[k]
      /\ new[N + 1] = m
  BY <1>1, AppendProperties DEF MoveList
<1> HIDE DEF new, N
<1>4. \A k \in 1 .. N + 1 : k \in 1 .. N \/ k = N + 1
  BY <1>2
<1>5. /\ \A k \in 1 .. N : IsFollowed(kept[k], L, t, c, a, x, e, z)
      /\ \A k \in 1 .. N : \E l \in 1 .. n : kept[k].from = t.moves[l].from
      /\ \A k, l \in 1 .. N : kept[k].from = kept[l].from => k = l
  BY DEF AreFollowed, FromOnce, N
<1>6. \A k \in 1 .. N : kept[k].from # m.from
  <2> SUFFICES ASSUME NEW k \in 1 .. N, kept[k].from = m.from PROVE FALSE
    OBVIOUS
  <2>1. PICK l \in 1 .. n : t.moves[l].from = t.moves[n + 1].from
    BY <1>5
  <2>2. l \in 1 .. Len(t.moves)
    BY DEF MoveList
  <2>3. l = n + 1
    BY <2>1, <2>2 DEF FromOnce
  <2> QED BY <2>3
<1>7. FromOnce(new)
  <2> SUFFICES ASSUME NEW k \in 1 .. N + 1, NEW l \in 1 .. N + 1, new[k].from = new[l].from
               PROVE  k = l
    BY <1>3 DEF FromOnce
  <2>1. CASE k \in 1 .. N /\ l \in 1 .. N
    BY <1>3, <1>5, <2>1
  <2>2. CASE k = N + 1 \/ l = N + 1
    BY <1>3, <1>4, <1>6, <2>2
  <2> QED BY <1>4, <2>1, <2>2
<1>8. \A k \in 1 .. N + 1 : IsFollowed(new[k], M, t, c, a, x, e, z)
  <2>1. \A k \in 1 .. N : IsFollowed(kept[k], M, t, c, a, x, e, z)
    BY <1>5 DEF IsFollowed
  <2> QED BY <1>3, <1>4, <2>1
<1>9. \A k \in 1 .. N + 1 : \E l \in 1 .. n + 1 : new[k].from = t.moves[l].from
  <2>1. n + 1 \in 1 .. n + 1 /\ \A l \in 1 .. n : l \in 1 .. n + 1
    OBVIOUS
  <2> QED BY <1>3, <1>4, <1>5, <2>1
<1>10. AreFollowed(new, M, n + 1, t, c, a, x, e, z)
  BY <1>3, <1>7, <1>8, <1>9 DEF AreFollowed
<1> QED BY <1>10 DEF new

\* Following one more move keeps what is known of those followed.
LEMMA FollowKeeps ==
  ASSUME NEW t, NEW c, NEW a, NEW x, NEW na, NEW b, NEW y, NEW nb, NEW e, NEW z, NEW ne,
         AreSuccessive(t, c, a, x, na, b, y, nb, e, z, ne),
         NEW n \in Nat, n + 1 \in 1 .. Len(t.moves), NEW s,
         FollowInv(s, n, t, c, a, x, e, z, ne),
         NEW r, r = follow_move(t, c, s, t.moves[n + 1])
  PROVE  FollowInv(r, n + 1, t, c, a, x, e, z, ne)
<1> DEFINE old == t.moves[n + 1]
<1>1. na \in Nat /\ nb \in Nat /\ ne \in Nat
      /\ IsTrueOf(t, a, x, na, b, y, nb) /\ IsTrueOf(c, b, y, nb, e, z, ne)
  BY DEF AreSuccessive
<1>2. t.moves \in MoveList /\ FromOnce(t.moves) /\ c.moves \in MoveList
  BY <1>1 DEF IsTrueOf, AreTrueMoves
<1>3. old \in [from : Nat, to : Nat]
  BY <1>2, ElementOfSeq DEF MoveList
<1>4. s \in FollowState /\ AreLeft(s.next, c) /\ c.modifications \subseteq s.modified
      /\ AreRows(s.modified, ne) /\ s.modified \in SUBSET Nat
      /\ AreFollowed(s.kept, s.modified, n, t, c, a, x, e, z)
  BY DEF FollowInv, FollowState
<1>5. FollowResult(t, c, s, old, r) /\ DOMAIN r = DOMAIN s
  <2> HIDE DEF old
  <2> QED BY <1>3, <1>4, FollowCases DEF old
<1>6. DOMAIN r = {"kept", "next", "modified"}
  BY <1>4, <1>5 DEF FollowState
<1>7. r.kept \in MoveList /\ r.next \in MoveList /\ r.modified \in SUBSET Nat => r \in FollowState
  <2>1. r = follow_move(t, c, s, old)
    OBVIOUS
  <2>2. \/ \E k, n1, m1 : r = [kept |-> k, next |-> n1, modified |-> m1]
        \/ r = s
        \/ \E k : r = [s EXCEPT !.kept = k]
    <3> HIDE DEF old
    <3> QED BY <2>1 DEF follow_move
  <2> QED BY <1>4, <2>2 DEF FollowState
<1>8. CASE \E k \in 1 .. Len(s.next) :
             /\ s.next[k].from = old.to
             /\ r.kept = Append(s.kept, [from |-> old.from, to |-> s.next[k].to])
             /\ r.next = Taken(s.next, k)
             /\ s.modified \subseteq r.modified
             /\ r.modified \subseteq s.modified \union {s.next[k].to}
             /\ old.to \in t.modifications => s.next[k].to \in r.modified
  <2>1. PICK k \in 1 .. Len(s.next) :
             /\ s.next[k].from = old.to
             /\ r.kept = Append(s.kept, [from |-> old.from, to |-> s.next[k].to])
             /\ r.next = Taken(s.next, k)
             /\ s.modified \subseteq r.modified
             /\ r.modified \subseteq s.modified \union {s.next[k].to}
             /\ old.to \in t.modifications => s.next[k].to \in r.modified
    BY <1>8
  <2>2. PICK l \in 1 .. Len(c.moves) : s.next[k] = c.moves[l]
    BY <1>4 DEF AreLeft
  <2>3. IsToldMove(c.moves[l], c, b, y, e, z)
    BY <1>1, MoveFacts
  <2> DEFINE m == [from |-> old.from, to |-> c.moves[l].to]
  <2>4. c.moves[l].to \in Nat /\ c.moves[l].to \in 0 .. ne - 1
    <3>1. c.moves[l].to \in c.insertions /\ c.moves[l] \in [from : Nat, to : Nat]
      BY <2>3 DEF IsToldMove
    <3> QED BY <1>1, <3>1 DEF IsTrueOf, IsExactChange, AreRows
  <2>5. m \in [from : Nat, to : Nat]
    BY <1>3, <2>4
  <2>6. IsFollowed(m, r.modified, t, c, a, x, e, z)
    <3>1. c.modifications \subseteq r.modified
      BY <1>4, <2>1
    <3>2. c.moves[l].from = t.moves[n + 1].to
      BY <2>1, <2>2
    <3>3. t.moves[n + 1].to \in t.modifications => c.moves[l].to \in r.modified
      BY <2>1, <2>2
    <3> QED BY <3>1, <3>2, <3>3, FollowedAgain
  <2>7. AreFollowed(r.kept, r.modified, n + 1, t, c, a, x, e, z)
    <3>1. m.from = t.moves[n + 1].from /\ r.kept = Append(s.kept, m)
      BY <2>1, <2>2
    <3> HIDE DEF m
    <3>2. AreFollowed(Append(s.kept, m), r.modified, n + 1, t, c, a, x, e, z)
      BY <1>2, <1>4, <2>1, <2>5, <2>6, <3>1, OneMoreFollowed
    <3> QED BY <3>1, <3>2
  <2>8. AreLeft(r.next, c)
    <3>1. s.next \in MoveList /\ FromOnce(s.next)
          /\ \A j \in 1 .. Len(s.next) : \E i \in 1 .. Len(c.moves) : s.next[j] = c.moves[i]
      BY <1>4 DEF AreLeft
    <3>2. /\ r.next \in MoveList /\ FromOnce(r.next)
          /\ \A j \in 1 .. Len(r.next) : \E i \in 1 .. Len(s.next) : r.next[j] = s.next[i]
      <4>1. /\ Taken(s.next, k) \in MoveList
            /\ FromOnce(Taken(s.next, k))
            /\ \A j \in 1 .. Len(Taken(s.next, k)) :
                 \E i \in 1 .. Len(s.next) : Taken(s.next, k)[j] = s.next[i]
        <5> DEFINE moves == s.next
        <5>1. moves \in MoveList /\ FromOnce(moves) /\ k \in 1 .. Len(moves)
          BY <3>1
        <5> HIDE DEF moves
        <5>2. /\ Taken(moves, k) \in MoveList
              /\ FromOnce(Taken(moves, k))
              /\ \A j \in 1 .. Len(Taken(moves, k)) :
                   \E i \in 1 .. Len(moves) : Taken(moves, k)[j] = moves[i]
          BY <5>1, TakenMoves
        <5> QED BY <5>2 DEF moves
      <4>2. r.next = Taken(s.next, k)
        BY <2>1
      <4> QED BY <4>1, <4>2, Zenon
    <3>3. \A j \in 1 .. Len(r.next) : \E i \in 1 .. Len(c.moves) : r.next[j] = c.moves[i]
      <4> TAKE j \in 1 .. Len(r.next)
      <4>1. PICK i \in 1 .. Len(s.next) : r.next[j] = s.next[i]
        BY <3>2
      <4>2. PICK i1 \in 1 .. Len(c.moves) : s.next[i] = c.moves[i1]
        BY <3>1
      <4> QED BY <4>1, <4>2
    <3> QED BY <3>2, <3>3, Zenon DEF AreLeft
  <2>9. c.modifications \subseteq r.modified /\ AreRows(r.modified, ne)
        /\ r.modified \in SUBSET Nat
    BY <1>4, <2>1, <2>2, <2>4 DEF AreRows
  <2>10. r.kept \in MoveList /\ r.next \in MoveList
    BY <2>7, <2>8 DEF AreFollowed, AreLeft
  <2> QED BY <1>7, <2>7, <2>8, <2>9, <2>10 DEF FollowInv
<1>9. CASE r = s
  <2>1. AreFollowed(s.kept, s.modified, n + 1, t, c, a, x, e, z)
    <3>1. \A l \in 1 .. n : l \in 1 .. n + 1
      OBVIOUS
    <3> QED BY <1>4, <3>1 DEF AreFollowed
  <2> QED BY <1>4, <1>9, <2>1 DEF FollowInv
<1>10. CASE /\ old.to \notin c.deletions
            /\ r.kept = Append(s.kept, [from |-> old.from,
                                        to |-> Becomes(c.deletions, c.insertions, old.to)])
            /\ r.next = s.next
            /\ r.modified = s.modified
  <2> DEFINE m == [from |-> old.from, to |-> Becomes(c.deletions, c.insertions, old.to)]
  <2>1. /\ IsFollowed(m, r.modified, t, c, a, x, e, z)
        /\ Becomes(c.deletions, c.insertions, old.to) \in Nat
    <3>1. t.moves[n + 1].to \notin c.deletions /\ c.modifications \subseteq r.modified
      BY <1>4, <1>10
    <3> QED BY <3>1, FollowedOn
  <2>2. m \in [from : Nat, to : Nat] /\ m.from = t.moves[n + 1].from
    BY <1>3, <2>1
  <2>3. r.kept = Append(s.kept, m) /\ r.next = s.next /\ r.modified = s.modified
    BY <1>10
  <2> HIDE DEF m
  <2>4. AreFollowed(Append(s.kept, m), r.modified, n + 1, t, c, a, x, e, z)
    BY <1>2, <1>4, <2>1, <2>2, <2>3, OneMoreFollowed
  <2>5. AreFollowed(r.kept, r.modified, n + 1, t, c, a, x, e, z)
    BY <2>3, <2>4
  <2>6. r.kept \in MoveList /\ r.next \in MoveList /\ r.modified \in SUBSET Nat
    BY <1>4, <2>3, <2>5 DEF AreFollowed, AreLeft
  <2> QED BY <1>4, <1>7, <2>3, <2>5, <2>6 DEF FollowInv
<1> HIDE DEF old
<1> QED BY <1>5, <1>8, <1>9, <1>10 DEF FollowResult
(***************************************************************************)
(* A recursive function over 0 .. N whose n-th value is in P[n], as long as *)
(* its step G goes from P[n - 1] to P[n].                                   *)
(***************************************************************************)

\* g takes the step G wherever its value before is as it should be.
Steps(g, base, G, P, N) ==
  /\ g[0] = base
  /\ \A n \in 1 .. N : g[n - 1] \in P[n - 1] => g[n] = G[<<g[n - 1], n>>]

Stays(g, P, N) == \A n \in 0 .. N : g[n] \in P[n]

\* Each value is in its set.
LEMMA StepsStay ==
  ASSUME NEW N \in Nat, NEW P, NEW base \in P[0], NEW G,
         \A n \in 1 .. N : \A s \in P[n - 1] : G[<<s, n>>] \in P[n],
         NEW g, Steps(g, base, G, P, N)
  PROVE  Stays(g, P, N)
<1> DEFINE T == {n \in Nat : n \in 0 .. N => g[n] \in P[n]}
<1>1. 0 \in T
  BY DEF Steps
<1>2. ASSUME NEW n \in T PROVE n + 1 \in T
  <2>1. CASE n + 1 \in 0 .. N
    <3>1. n \in 0 .. N /\ n + 1 \in 1 .. N /\ (n + 1) - 1 = n
      BY <2>1
    <3>2. g[n] \in P[n]
      BY <3>1
    <3>3. g[n + 1] = G[<<g[n], n + 1>>]
      BY <3>1, <3>2 DEF Steps
    <3>4. g[n + 1] \in P[n + 1]
      BY <3>1, <3>2, <3>3
    <3> QED BY <3>4
  <2> QED BY <2>1
<1>3. \A n \in Nat : n \in T
  <2>1. T \in SUBSET Nat
    OBVIOUS
  <2> HIDE DEF T
  <2> QED BY <1>1, <1>2, <2>1, SetInduction
<1> QED BY <1>3 DEF Stays

\* There is such a function.
LEMMA StepsExist ==
  ASSUME NEW N \in Nat, NEW S, NEW P, \A n \in 0 .. N : P[n] \subseteq S,
         NEW base \in P[0], NEW G \in [S \X Nat -> S],
         \A n \in 1 .. N : \A s \in P[n - 1] : G[<<s, n>>] \in P[n]
  PROVE  \E f \in [0 .. N -> S] : Stays(f, P, N) /\ IsIteration(f, base, G, N)
<1>1. base \in S
  <2>1. 0 \in 0 .. N
    OBVIOUS
  <2> QED BY <2>1
<1>2. PICK f \in [0 .. N -> S] : IsIteration(f, base, G, N)
  BY <1>1, Iteration
<1>3. Steps(f, base, G, P, N)
  BY <1>2 DEF IsIteration, Steps
<1>4. Stays(f, P, N)
  BY <1>3, StepsStay
<1> QED BY <1>2, <1>4

\* All the moves of the first change are followed.
LEMMA MovesFollowed ==
  ASSUME NEW t, NEW c, NEW a, NEW x, NEW na, NEW b, NEW y, NEW nb, NEW e, NEW z, NEW ne,
         AreSuccessive(t, c, a, x, na, b, y, nb, e, z, ne)
  PROVE  FollowInv(follow_moves(t, c), Len(t.moves), t, c, a, x, e, z, ne)
<1> DEFINE N == Len(t.moves)
           base == [kept |-> <<>>, next |-> c.moves, modified |-> c.modifications]
           step(s, n) == follow_move(t, c, s, t.moves[n])
           body(f) == [n \in 0 .. N |-> IF n = 0 THEN base ELSE step(f[n - 1], n)]
           round == CHOOSE f : f = body(f)
           S == FollowState
           G == [v \in S \X Nat |-> IF step(v[1], v[2]) \in S THEN step(v[1], v[2]) ELSE base]
           P == [n \in 0 .. N |-> {s \in S : FollowInv(s, n, t, c, a, x, e, z, ne)}]
<1>1. follow_moves(t, c) = round[N]
  BY Zenon DEF follow_moves
<1>2. /\ ne \in Nat
      /\ t.moves \in MoveList
      /\ c.moves \in MoveList /\ FromOnce(c.moves) /\ AreRows(c.modifications, ne)
  BY DEF AreSuccessive, IsTrueOf, AreTrueMoves
<1>3. N \in Nat
  BY <1>2, LenProperties DEF MoveList
<1>4. base \in S /\ FollowInv(base, 0, t, c, a, x, e, z, ne)
  <2>1. <<>> \in MoveList /\ Len(<<>>) = 0
    BY EmptySeq DEF MoveList
  <2>2. base \in S
    BY <1>2, <2>1 DEF FollowState, AreRows
  <2>3. AreLeft(c.moves, c)
    BY <1>2 DEF AreLeft
  <2>4. AreFollowed(<<>>, c.modifications, 0, t, c, a, x, e, z)
    <3>1. 1 .. 0 = {}
      OBVIOUS
    <3> QED BY <2>1, <3>1 DEF AreFollowed, FromOnce
  <2>5. base.kept = <<>> /\ base.next = c.moves /\ base.modified = c.modifications
    OBVIOUS
  <2> HIDE DEF base
  <2> QED BY <1>2, <2>2, <2>3, <2>4, <2>5 DEF FollowInv
<1>5. ASSUME NEW n \in 1 .. N, NEW s, FollowInv(s, n - 1, t, c, a, x, e, z, ne)
      PROVE  step(s, n) \in S /\ FollowInv(step(s, n), n, t, c, a, x, e, z, ne)
  <2>1. n - 1 \in Nat /\ (n - 1) + 1 = n
    BY <1>3
  <2> DEFINE i == n - 1
  <2>2. i + 1 = n /\ i \in Nat /\ i + 1 \in 1 .. Len(t.moves)
    BY <2>1
  <2> HIDE DEF i
  <2>3. FollowInv(follow_move(t, c, s, t.moves[i + 1]), i + 1, t, c, a, x, e, z, ne)
    <3>1. FollowInv(s, i, t, c, a, x, e, z, ne)
      BY <1>5 DEF i
    <3> QED BY <2>2, <3>1, FollowKeeps
  <2>4. FollowInv(step(s, n), n, t, c, a, x, e, z, ne)
    BY <2>2, <2>3
  <2> HIDE DEF step
  <2> QED BY <2>4 DEF FollowInv
<1> HIDE DEF base, step, S, N
<1>6. G \in [S \X Nat -> S]
  BY <1>4
<1>7. ASSUME NEW n \in 1 .. N, NEW s \in P[n - 1]
      PROVE  s \in S /\ FollowInv(s, n - 1, t, c, a, x, e, z, ne) /\ G[<<s, n>>] = step(s, n)
             /\ G[<<s, n>>] \in P[n]
  <2>1. n - 1 \in 0 .. N /\ n \in 0 .. N /\ n \in Nat
    BY <1>3
  <2>2. s \in S /\ FollowInv(s, n - 1, t, c, a, x, e, z, ne)
    BY <2>1
  <2>3. step(s, n) \in S /\ FollowInv(step(s, n), n, t, c, a, x, e, z, ne)
    BY <1>5, <2>2
  <2>4. <<s, n>> \in S \X Nat
    BY <2>1, <2>2
  <2>5. G[<<s, n>>] = step(s, n)
    BY <2>3, <2>4
  <2> QED BY <2>1, <2>2, <2>3, <2>5
<1>8. base \in P[0]
  BY <1>3, <1>4
<1>9. \A n \in 0 .. N : P[n] \subseteq S
  OBVIOUS
<1> HIDE DEF G
<1>10. PICK f \in [0 .. N -> S] : Stays(f, P, N) /\ IsIteration(f, base, G, N)
  <2> HIDE DEF P
  <2> QED BY <1>3, <1>6, <1>7, <1>8, <1>9, StepsExist
<1>11. f = body(f)
  <2>1. ASSUME NEW n \in 0 .. N
        PROVE  f[n] = IF n = 0 THEN base ELSE step(f[n - 1], n)
    <3>1. CASE n = 0
      BY <1>10, <3>1 DEF IsIteration
    <3>2. CASE n # 0
      <4>1. n \in 1 .. N /\ n - 1 \in 0 .. N
        BY <1>3, <3>2
      <4>2. f[n - 1] \in P[n - 1] /\ f[n] = G[<<f[n - 1], n>>]
        <5> HIDE DEF P
        <5> QED BY <1>10, <4>1 DEF IsIteration, Stays
      <4> HIDE DEF P
      <4> QED BY <1>7, <3>2, <4>1, <4>2
    <3> QED BY <3>1, <3>2
  <2> QED BY <2>1
<1>12. round = body(round)
  <2> HIDE DEF body
  <2> QED BY <1>11, Zenon
<1>13. \A n \in 0 .. N : round[n] = IF n = 0 THEN base ELSE step(round[n - 1], n)
  <2> HIDE DEF round
  <2> QED BY <1>12
<1> HIDE DEF round
<1>14. Steps(round, base, G, P, N)
  <2>1. round[0] = base
    BY <1>3, <1>13
  <2>2. ASSUME NEW n \in 1 .. N, round[n - 1] \in P[n - 1]
        PROVE  round[n] = G[<<round[n - 1], n>>]
    <3>1. n \in 0 .. N /\ n # 0
      BY <1>3
    <3>2. round[n] = step(round[n - 1], n)
      BY <1>13, <3>1
    <3> HIDE DEF P
    <3> QED BY <1>7, <2>2, <3>2
  <2> HIDE DEF P
  <2> QED BY <2>1, <2>2 DEF Steps
<1>15. Stays(round, P, N)
  <2> HIDE DEF P
  <2> QED BY <1>3, <1>7, <1>8, <1>14, StepsStay
<1>16. round[N] \in P[N] /\ N \in 0 .. N
  <2> HIDE DEF P
  <2> QED BY <1>3, <1>15 DEF Stays
<1>17. FollowInv(round[N], N, t, c, a, x, e, z, ne)
  BY <1>16
<1> QED BY <1>1, <1>17 DEF N
(***************************************************************************)
(* clean_up_stale_moves.                                                    *)
(***************************************************************************)

ChangeSets ==
  [deletions : SUBSET Nat, insertions : SUBSET Nat, modifications : SUBSET Nat,
   moves : MoveList, move_mapping : {<<>>}]

\* Rows by their index from 0.
LEMMA InjectiveRows ==
  ASSUME NEW f, NEW n \in Nat, IsInjectiveList(f, n)
  PROVE  \A i, j \in 0 .. n - 1 : f[i + 1] = f[j + 1] => i = j
<1> SUFFICES ASSUME NEW i \in 0 .. n - 1, NEW j \in 0 .. n - 1, f[i + 1] = f[j + 1]
             PROVE  i = j
  OBVIOUS
<1>1. i + 1 \in 1 .. n /\ j + 1 \in 1 .. n
  OBVIOUS
<1>2. i + 1 = j + 1
  BY <1>1 DEF IsInjectiveList
<1> QED BY <1>2

\* After n moves: those kept are among them and true, those to come are true, and
\* a row is no longer deleted only if it was one of them.
CleanInv(s, n, d, a, na, e, ne) ==
  /\ s \in ChangeSets
  /\ s.modifications = d.modifications
  /\ IsExactChange(a, e, na, ne, s.deletions, s.insertions)
  /\ AreTrueMoves(s.moves, a, e, s.deletions, s.insertions)
  /\ \A k \in 1 .. Len(s.moves) : \E l \in 1 .. n : s.moves[k] = d.moves[l]
  /\ \A l \in n + 1 .. Len(d.moves) : IsTrueMove(d.moves[l], a, e, s.deletions, s.insertions)
  /\ \A p \in 0 .. na - 1 : p \notin s.deletions =>
       p \notin d.deletions \/ \E l \in 1 .. Len(d.moves) : d.moves[l].from = p

\* Looking at one more move keeps the change exact: a move is dropped only if its
\* row may stay.
LEMMA CleanKeeps ==
  ASSUME NEW a, NEW na \in Nat, NEW e, NEW ne \in Nat,
         IsInjectiveList(a, na), IsInjectiveList(e, ne),
         NEW d \in ChangeSets, FromOnce(d.moves),
         NEW n \in Nat, n + 1 \in 1 .. Len(d.moves), NEW s,
         CleanInv(s, n, d, a, na, e, ne),
         NEW r, r = clean_up_stale_move(s, d.moves[n + 1])
  PROVE  CleanInv(r, n + 1, d, a, na, e, ne)
<1> DEFINE m == d.moves[n + 1]
           D == s.deletions
           I == s.insertions
           N == Len(d.moves)
<1>1. d.moves \in MoveList /\ N \in Nat
  BY LenProperties DEF ChangeSets, MoveList
<1>2. m \in [from : Nat, to : Nat]
  BY <1>1, ElementOfSeq DEF MoveList
<1>3. /\ s \in ChangeSets
      /\ s.modifications = d.modifications
      /\ IsExactChange(a, e, na, ne, D, I)
      /\ s.moves \in MoveList /\ FromOnce(s.moves)
      /\ \A k \in 1 .. Len(s.moves) : IsTrueMove(s.moves[k], a, e, D, I)
      /\ \A k \in 1 .. Len(s.moves) : \E l \in 1 .. n : s.moves[k] = d.moves[l]
      /\ \A l \in n + 1 .. N : IsTrueMove(d.moves[l], a, e, D, I)
      /\ \A p \in 0 .. na - 1 : p \notin D =>
           p \notin d.deletions \/ \E l \in 1 .. N : d.moves[l].from = p
  BY DEF CleanInv, AreTrueMoves
<1>4. m.from \in D /\ m.to \in I /\ a[m.from + 1] = e[m.to + 1]
  <2>1. n + 1 \in n + 1 .. N
    OBVIOUS
  <2>2. IsTrueMove(m, a, e, D, I)
    BY <1>3, <2>1
  <2> QED BY <2>2 DEF IsTrueMove
<1>5. (\A p \in D : p \in 0 .. na - 1) /\ (\A q \in I : q \in 0 .. ne - 1)
  BY <1>3 DEF IsExactChange, AreRows
<1>6. r = IF unshift(D, m.from) = unshift(I, m.to)
            THEN [s EXCEPT !.deletions = @ \ {m.from}, !.insertions = @ \ {m.to}]
            ELSE [s EXCEPT !.moves = Append(@, m)]
  BY DEF clean_up_stale_move
<1>7. /\ \A l \in 1 .. n : l \in 1 .. N /\ l # n + 1 /\ l \in 1 .. n + 1
      /\ \A l \in n + 2 .. N : l \in 1 .. N /\ l # n + 1 /\ l \in n + 1 .. N
      /\ n + 1 \in 1 .. N /\ n + 1 \in 1 .. n + 1 /\ (n + 1) + 1 = n + 2
  BY <1>1
<1>8. \A l \in 1 .. N : l # n + 1 => d.moves[l].from # m.from
  BY <1>7 DEF FromOnce
<1>9. CASE unshift(D, m.from) = unshift(I, m.to)
  <2> DEFINE E == D \ {m.from}
             J == I \ {m.to}
  <2>1. /\ r.deletions = E /\ r.insertions = J /\ r.moves = s.moves
        /\ r.modifications = s.modifications /\ r \in ChangeSets
    <3>1. r = [s EXCEPT !.deletions = @ \ {m.from}, !.insertions = @ \ {m.to}]
      BY <1>6, <1>9
    <3>2. s \in ChangeSets
      BY <1>3
    <3> HIDE DEF m
    <3>3. r.deletions = E /\ r.insertions = J
      BY <3>1, <3>2 DEF ChangeSets
    <3>4. r.moves = s.moves /\ r.modifications = s.modifications
      BY <3>1, <3>2 DEF ChangeSets
    <3>5. r \in ChangeSets
      BY <3>1, <3>2 DEF ChangeSets
    <3> QED BY <3>3, <3>4, <3>5
  <2>2. IsExactChange(a, e, na, ne, E, J)
    <3> DEFINE from == m.from
               to == m.to
    <3>1. from \in D /\ to \in I /\ a[from + 1] = e[to + 1] /\ unshift(D, from) = unshift(I, to)
          /\ IsExactChange(a, e, na, ne, D, I)
      BY <1>3, <1>4, <1>9
    <3> HIDE DEF from, to, D, I
    <3>2. IsExactChange(a, e, na, ne, D \ {from}, I \ {to})
      BY <3>1, DroppedMoveIsExact
    <3> QED BY <3>2 DEF from, to
  <2> HIDE DEF m, D, I
  <2>3. ASSUME NEW o, IsTrueMove(o, a, e, D, I), o.from # m.from
        PROVE  IsTrueMove(o, a, e, E, J)
    <3>1. o.from \in D /\ o.to \in I /\ a[o.from + 1] = e[o.to + 1]
      BY <2>3 DEF IsTrueMove
    <3>2. o.to # m.to
      <4>1. o.from \in 0 .. na - 1 /\ m.from \in 0 .. na - 1
        BY <1>4, <1>5, <3>1
      <4>2. o.to = m.to => a[o.from + 1] = a[m.from + 1]
        BY <1>4, <3>1
      <4>3. o.to = m.to => o.from = m.from
        BY <4>1, <4>2, InjectiveRows
      <4> QED BY <2>3, <4>3
    <3> QED BY <2>3, <3>1, <3>2 DEF IsTrueMove
  <2>4. \A k \in 1 .. Len(s.moves) : IsTrueMove(s.moves[k], a, e, E, J)
    <3> TAKE k \in 1 .. Len(s.moves)
    <3>1. PICK l \in 1 .. n : s.moves[k] = d.moves[l]
      BY <1>3
    <3>2. s.moves[k].from # m.from
      BY <1>7, <1>8, <3>1
    <3>3. IsTrueMove(s.moves[k], a, e, D, I)
      BY <1>3
    <3> HIDE DEF E, J
    <3> QED BY <2>3, <3>2, <3>3
  <2>5. \A l \in n + 2 .. N : IsTrueMove(d.moves[l], a, e, E, J)
    <3> TAKE l \in n + 2 .. N
    <3>1. d.moves[l].from # m.from /\ IsTrueMove(d.moves[l], a, e, D, I)
      BY <1>3, <1>7, <1>8
    <3> HIDE DEF E, J
    <3> QED BY <2>3, <3>1
  <2>6. \A p \in 0 .. na - 1 : p \notin E =>
           p \notin d.deletions \/ \E l \in 1 .. N : d.moves[l].from = p
    <3>1. \A p : p \notin E => p \notin D \/ p = d.moves[n + 1].from
      BY DEF m
    <3> QED BY <1>3, <1>7, <3>1
  <2>7. \A k \in 1 .. Len(s.moves) : \E l \in 1 .. n + 1 : s.moves[k] = d.moves[l]
    BY <1>3, <1>7
  <2> HIDE DEF E, J
  <2> QED BY <1>3, <1>7, <2>1, <2>2, <2>4, <2>5, <2>6, <2>7 DEF CleanInv, AreTrueMoves
<1>10. CASE unshift(D, m.from) # unshift(I, m.to)
  <2> DEFINE L == Len(s.moves)
             new == Append(s.moves, m)
  <2>1. /\ r.deletions = D /\ r.insertions = I /\ r.moves = new
        /\ r.modifications = s.modifications
    BY <1>3, <1>6, <1>10 DEF ChangeSets
  <2>2. /\ new \in MoveList /\ Len(new) = L + 1 /\ L \in Nat
        /\ \A k \in 1 .. L : new[k] = s.moves[k]
        /\ new[L + 1] = m
    BY <1>2, <1>3, AppendProperties, LenProperties DEF MoveList
  <2>3. r \in ChangeSets
    <3> HIDE DEF new, m, D, I
    <3>1. r = [s EXCEPT !.moves = Append(@, m)]
      BY <1>6, <1>10
    <3>2. r = [s EXCEPT !.moves = new]
      BY <3>1 DEF new
    <3> QED BY <1>3, <2>2, <3>2 DEF ChangeSets
  <2> HIDE DEF m, D, I, new, L
  <2>4. \A k \in 1 .. L + 1 : k \in 1 .. L \/ k = L + 1
    BY <2>2
  <2>5. IsTrueMove(m, a, e, D, I)
    BY <1>4 DEF IsTrueMove
  <2>6. \A k \in 1 .. L + 1 : IsTrueMove(new[k], a, e, D, I)
    BY <1>3, <2>2, <2>4, <2>5 DEF L
  <2>7. \A k \in 1 .. L + 1 : \E l \in 1 .. n + 1 : new[k] = d.moves[l]
    <3>1. \A k \in 1 .. L : \E l \in 1 .. n : new[k] = d.moves[l]
      BY <1>3, <2>2 DEF L
    <3> QED BY <1>7, <2>2, <2>4, <3>1 DEF m
  <2>8. \A k \in 1 .. L : new[k].from # m.from
    <3> TAKE k \in 1 .. L
    <3>1. PICK l \in 1 .. n : s.moves[k] = d.moves[l]
      BY <1>3 DEF L
    <3> QED BY <1>7, <1>8, <2>2, <3>1
  <2>9. FromOnce(new)
    <3> SUFFICES ASSUME NEW k \in 1 .. L + 1, NEW l \in 1 .. L + 1, new[k].from = new[l].from
                 PROVE  k = l
      BY <2>2 DEF FromOnce
    <3>1. CASE k \in 1 .. L /\ l \in 1 .. L
      BY <1>3, <2>2, <3>1 DEF FromOnce, L
    <3>2. CASE k = L + 1 \/ l = L + 1
      BY <2>2, <2>4, <2>8, <3>2
    <3> QED BY <2>4, <3>1, <3>2
  <2>10. AreTrueMoves(new, a, e, D, I)
    BY <2>2, <2>6, <2>9 DEF AreTrueMoves
  <2>11. \A l \in n + 2 .. N : IsTrueMove(d.moves[l], a, e, D, I)
    BY <1>3, <1>7
  <2> QED BY <1>3, <1>7, <2>1, <2>2, <2>3, <2>7, <2>10, <2>11 DEF CleanInv
<1> QED BY <1>9, <1>10
\* After clean_up_stale_moves the change is exact and its moves are true.
LEMMA CleanedUp ==
  ASSUME NEW a, NEW na \in Nat, NEW e, NEW ne \in Nat,
         IsInjectiveList(a, na), IsInjectiveList(e, ne),
         NEW d \in ChangeSets, IsExactChange(a, e, na, ne, d.deletions, d.insertions),
         AreTrueMoves(d.moves, a, e, d.deletions, d.insertions)
  PROVE  CleanInv(clean_up_stale_moves(d), Len(d.moves), d, a, na, e, ne)
<1> DEFINE N == Len(d.moves)
           base == [d EXCEPT !.moves = <<>>]
           step(s, n) == clean_up_stale_move(s, d.moves[n])
           body(f) == [n \in 0 .. N |-> IF n = 0 THEN base ELSE step(f[n - 1], n)]
           round == CHOOSE f : f = body(f)
           S == ChangeSets
           G == [v \in S \X Nat |-> IF step(v[1], v[2]) \in S THEN step(v[1], v[2]) ELSE base]
           P == [n \in 0 .. N |-> {s \in S : CleanInv(s, n, d, a, na, e, ne)}]
<1>1. clean_up_stale_moves(d) = round[N]
  BY Zenon DEF clean_up_stale_moves
<1>2. d.moves \in MoveList /\ FromOnce(d.moves)
  BY DEF AreTrueMoves
<1>3. N \in Nat
  BY <1>2, LenProperties DEF MoveList
<1>4. base \in S /\ CleanInv(base, 0, d, a, na, e, ne)
  <2>1. <<>> \in MoveList /\ Len(<<>>) = 0 /\ 1 .. 0 = {}
    BY EmptySeq DEF MoveList
  <2>2. base \in S
    BY <2>1 DEF ChangeSets
  <2>3. base.moves = <<>> /\ base.deletions = d.deletions /\ base.insertions = d.insertions
        /\ base.modifications = d.modifications
    BY DEF ChangeSets
  <2> HIDE DEF base
  <2>4. AreTrueMoves(base.moves, a, e, base.deletions, base.insertions)
    BY <2>1, <2>3 DEF AreTrueMoves, FromOnce
  <2>5. \A l \in 0 + 1 .. N : IsTrueMove(d.moves[l], a, e, base.deletions, base.insertions)
    BY <2>3 DEF AreTrueMoves
  <2> QED BY <2>1, <2>2, <2>3, <2>4, <2>5 DEF CleanInv
<1>5. ASSUME NEW n \in 1 .. N, NEW s, CleanInv(s, n - 1, d, a, na, e, ne)
      PROVE  step(s, n) \in S /\ CleanInv(step(s, n), n, d, a, na, e, ne)
  <2>1. n - 1 \in Nat /\ (n - 1) + 1 = n
    BY <1>3
  <2> DEFINE i == n - 1
  <2>2. i + 1 = n /\ i \in Nat /\ i + 1 \in 1 .. Len(d.moves)
    BY <2>1
  <2> HIDE DEF i
  <2>3. CleanInv(clean_up_stale_move(s, d.moves[i + 1]), i + 1, d, a, na, e, ne)
    <3>1. CleanInv(s, i, d, a, na, e, ne)
      BY <1>5 DEF i
    <3> QED BY <1>2, <2>2, <3>1, CleanKeeps
  <2>4. CleanInv(step(s, n), n, d, a, na, e, ne)
    BY <2>2, <2>3
  <2> HIDE DEF step
  <2> QED BY <2>4 DEF CleanInv
<1> HIDE DEF base, step, S, N
<1>6. G \in [S \X Nat -> S]
  BY <1>4
<1>7. ASSUME NEW n \in 1 .. N, NEW s \in P[n - 1]
      PROVE  s \in S /\ CleanInv(s, n - 1, d, a, na, e, ne) /\ G[<<s, n>>] = step(s, n)
             /\ G[<<s, n>>] \in P[n]
  <2>1. n - 1 \in 0 .. N /\ n \in 0 .. N /\ n \in Nat
    BY <1>3
  <2>2. s \in S /\ CleanInv(s, n - 1, d, a, na, e, ne)
    BY <2>1
  <2>3. step(s, n) \in S /\ CleanInv(step(s, n), n, d, a, na, e, ne)
    BY <1>5, <2>2
  <2>4. <<s, n>> \in S \X Nat
    BY <2>1, <2>2
  <2>5. G[<<s, n>>] = step(s, n)
    BY <2>3, <2>4
  <2> QED BY <2>1, <2>2, <2>3, <2>5
<1>8. base \in P[0]
  BY <1>3, <1>4
<1>9. \A n \in 0 .. N : P[n] \subseteq S
  OBVIOUS
<1> HIDE DEF G
<1>10. PICK f \in [0 .. N -> S] : Stays(f, P, N) /\ IsIteration(f, base, G, N)
  <2> HIDE DEF P
  <2> QED BY <1>3, <1>6, <1>7, <1>8, <1>9, StepsExist
<1>11. f = body(f)
  <2>1. ASSUME NEW n \in 0 .. N
        PROVE  f[n] = IF n = 0 THEN base ELSE step(f[n - 1], n)
    <3>1. CASE n = 0
      BY <1>10, <3>1 DEF IsIteration
    <3>2. CASE n # 0
      <4>1. n \in 1 .. N /\ n - 1 \in 0 .. N
        BY <1>3, <3>2
      <4>2. f[n - 1] \in P[n - 1] /\ f[n] = G[<<f[n - 1], n>>]
        <5> HIDE DEF P
        <5> QED BY <1>10, <4>1 DEF IsIteration, Stays
      <4> HIDE DEF P
      <4> QED BY <1>7, <3>2, <4>1, <4>2
    <3> QED BY <3>1, <3>2
  <2> QED BY <2>1
<1>12. round = body(round)
  <2> HIDE DEF body
  <2> QED BY <1>11, Zenon
<1>13. \A n \in 0 .. N : round[n] = IF n = 0 THEN base ELSE step(round[n - 1], n)
  <2> HIDE DEF round
  <2> QED BY <1>12
<1> HIDE DEF round
<1>14. Steps(round, base, G, P, N)
  <2>1. round[0] = base
    BY <1>3, <1>13
  <2>2. ASSUME NEW n \in 1 .. N, round[n - 1] \in P[n - 1]
        PROVE  round[n] = G[<<round[n - 1], n>>]
    <3>1. n \in 0 .. N /\ n # 0
      BY <1>3
    <3>2. round[n] = step(round[n - 1], n)
      BY <1>13, <3>1
    <3> HIDE DEF P
    <3> QED BY <1>7, <2>2, <3>2
  <2> HIDE DEF P
  <2> QED BY <2>1, <2>2 DEF Steps
<1>15. Stays(round, P, N)
  <2> HIDE DEF P
  <2> QED BY <1>3, <1>7, <1>8, <1>14, StepsStay
<1>16. round[N] \in P[N] /\ N \in 0 .. N
  <2> HIDE DEF P
  <2> QED BY <1>3, <1>15 DEF Stays
<1>17. CleanInv(round[N], N, d, a, na, e, ne)
  BY <1>16
<1> QED BY <1>1, <1>17 DEF N
(***************************************************************************)
(* The moves of the second change that are not of the first.                *)
(***************************************************************************)

\* A list of n moves.
LEMMA ListOfMoves ==
  ASSUME NEW n \in Nat, NEW f, DOMAIN f = 1 .. n, f = [k \in 1 .. n |-> f[k]],
         \A k \in 1 .. n : f[k] \in [from : Nat, to : Nat]
  PROVE  f \in MoveList /\ Len(f) = n
<1>1. f \in [1 .. n -> [from : Nat, to : Nat]]
  <2> DEFINE R == [from : Nat, to : Nat]
  <2>1. \A k \in 1 .. n : f[k] \in R
    OBVIOUS
  <2> HIDE DEF R
  <2>2. f \in [1 .. n -> R]
    BY <2>1
  <2> QED BY <2>2 DEF R
<1>2. f \in MoveList
  BY <1>1, SeqDef DEF MoveList
<1>3. Len(f) \in Nat /\ DOMAIN f = 1 .. Len(f)
  BY <1>2, LenProperties DEF MoveList
<1> QED BY <1>2, <1>3

AreFresh(fresh, moves, insertions) ==
  /\ fresh \in MoveList
  /\ FromOnce(fresh)
  /\ \A k \in 1 .. Len(fresh) : /\ fresh[k].from \notin insertions
                                /\ \E l \in 1 .. Len(moves) : fresh[k] = moves[l]

\* The moves kept are those from no insertion of the first change.
LEMMA FreshMoves ==
  ASSUME NEW moves \in MoveList, FromOnce(moves), NEW insertions, NEW fresh,
         fresh = fresh_moves(moves, insertions)
  PROVE  AreFresh(fresh, moves, insertions)
<1> DEFINE stay == {k \in DOMAIN moves : moves[k].from \notin insertions}
           s == SortedBy(stay, {e \in stay \X stay : e[1] < e[2]})
           N == Cardinality(stay)
<1>1. fresh = [k \in DOMAIN s |-> moves[s[k]]]
  BY Zenon DEF fresh_moves
<1>2. Len(moves) \in Nat /\ DOMAIN moves = 1 .. Len(moves)
      /\ \A k \in 1 .. Len(moves) : moves[k] \in [from : Nat, to : Nat]
  BY LenProperties, ElementOfSeq DEF MoveList
<1>3. \A k \in stay : k \in 1 .. Len(moves) /\ moves[k].from \notin insertions
  BY <1>2
<1>4. IsFiniteSet(stay) /\ \A k \in stay : k \in Int
  <2>1. 1 \in Int /\ Len(moves) \in Int
    BY <1>2
  <2>2. IsFiniteSet(1 .. Len(moves)) /\ stay \subseteq 1 .. Len(moves)
    BY <1>2, <2>1, FS_Interval
  <2> HIDE DEF stay
  <2>3. IsFiniteSet(stay)
    BY <2>2, FS_Subset
  <2> QED BY <2>2, <2>3
<1> HIDE DEF stay
<1>5. /\ N \in Nat
      /\ s \in [1 .. N -> stay]
      /\ \A k, l \in 1 .. N : k < l <=> s[k] < s[l]
  BY <1>4, SortedNumbers
<1> HIDE DEF s, N
<1>6. DOMAIN fresh = 1 .. N /\ \A k \in 1 .. N : fresh[k] = moves[s[k]] /\ s[k] \in stay
  BY <1>1, <1>5
<1>7. fresh = [k \in 1 .. N |-> fresh[k]]
  BY <1>1, <1>5
<1>8. \A k \in 1 .. N : fresh[k] \in [from : Nat, to : Nat]
  <2> TAKE k \in 1 .. N
  <2>1. s[k] \in 1 .. Len(moves) /\ fresh[k] = moves[s[k]]
    BY <1>3, <1>6
  <2> QED BY <1>2, <2>1
<1>9. fresh \in MoveList /\ Len(fresh) = N
  BY <1>5, <1>6, <1>7, <1>8, ListOfMoves
<1>10. FromOnce(fresh)
  <2> SUFFICES ASSUME NEW k \in 1 .. N, NEW l \in 1 .. N, fresh[k].from = fresh[l].from
               PROVE  k = l
    BY <1>9 DEF FromOnce
  <2>1. s[k] \in 1 .. Len(moves) /\ s[l] \in 1 .. Len(moves)
        /\ moves[s[k]].from = moves[s[l]].from
    BY <1>3, <1>6
  <2>2. s[k] = s[l]
    BY <2>1 DEF FromOnce
  <2>3. s[k] \in Int /\ ~ k < l /\ ~ l < k
    BY <1>5, <2>1, <2>2
  <2> QED BY <1>5, <2>3
<1>11. \A k \in 1 .. N : /\ fresh[k].from \notin insertions
                         /\ \E l \in 1 .. Len(moves) : fresh[k] = moves[l]
  <2> TAKE k \in 1 .. N
  <2>1. s[k] \in 1 .. Len(moves) /\ fresh[k] = moves[s[k]] /\ moves[s[k]].from \notin insertions
    BY <1>3, <1>6
  <2> QED BY <2>1
<1> QED BY <1>9, <1>10, <1>11 DEF AreFresh

\* The moves of fresh, from where their rows were before the first change.
Aligned(fresh, t) ==
  [k \in DOMAIN fresh |->
    [fresh[k] EXCEPT !.from = shift(t.deletions, unshift(t.insertions, @))]]

AreAligned(aligned, M, t, c, a, x, e, z) ==
  /\ aligned \in MoveList
  /\ FromOnce(aligned)
  /\ \A k \in 1 .. Len(aligned) : /\ IsFollowed(aligned[k], M, t, c, a, x, e, z)
                                  /\ aligned[k].from \notin t.deletions

\* Move m, from where the row of the l-th move of c was before t.
IsAlignedMove(m, l, M, t, c, a, x, na, b, nb, e, z) ==
  /\ IsFollowed(m, M, t, c, a, x, e, z)
  /\ m.from \in 0 .. na - 1 /\ m.from \notin t.deletions /\ m.to \in Nat
  /\ c.moves[l].from \in 0 .. nb - 1
  /\ a[m.from + 1] = b[c.moves[l].from + 1]

\* A row that only the second change moves.
LEMMA AlignedMove ==
  ASSUME NEW t, NEW c, NEW a, NEW x, NEW na, NEW b, NEW y, NEW nb, NEW e, NEW z, NEW ne,
         AreSuccessive(t, c, a, x, na, b, y, nb, e, z, ne),
         NEW l \in 1 .. Len(c.moves), c.moves[l].from \notin t.insertions,
         NEW M, c.modifications \subseteq M,
         c.moves[l].from \in t.modifications => c.moves[l].to \in M,
         NEW m, m.from = Was(t.deletions, t.insertions, c.moves[l].from), m.to = c.moves[l].to
  PROVE  IsAlignedMove(m, l, M, t, c, a, x, na, b, nb, e, z)
<1> DEFINE q == c.moves[l].from
           r == c.moves[l].to
           p == Was(t.deletions, t.insertions, q)
<1>1. na \in Nat /\ nb \in Nat /\ ne \in Nat
      /\ IsTrueOf(t, a, x, na, b, y, nb) /\ IsTrueOf(c, b, y, nb, e, z, ne)
  BY DEF AreSuccessive
<1>2. /\ r \in Nat
      /\ q \in c.deletions /\ r \in c.insertions
      /\ b[q + 1] = e[r + 1]
      /\ y[q + 1] # z[r + 1] => r \in c.modifications
  <2>1. IsToldMove(c.moves[l], c, b, y, e, z)
    BY <1>1, MoveFacts
  <2> QED BY <2>1 DEF IsToldMove
<1>3. SuccessiveFacts(t, c, a, x, na, b, y, nb, e, z, ne)
  BY SuccessiveAre
<1>4. q \in 0 .. nb - 1
  BY <1>2, <1>3 DEF SuccessiveFacts
<1>5. p \in 0 .. na - 1 /\ p \notin t.deletions /\ a[p + 1] = b[q + 1]
  BY <1>3, <1>4 DEF SuccessiveFacts
<1>6. p \in AllDeletions(t, c) /\ r \in AllInsertions(t, c)
  BY <1>2, AllDeletionsAre, AllInsertionsAre
<1>7. m.from = p /\ m.to = r /\ (q \in t.modifications => r \in M)
  OBVIOUS
<1> HIDE DEF p, q, r
<1>8. x[p + 1] # y[q + 1] => q \in t.modifications
  BY <1>1, <1>4, <1>5 DEF IsTrueOf, IsTold
<1>9. x[p + 1] # z[r + 1] => r \in M
  BY <1>2, <1>7, <1>8
<1>10. IsFollowed(m, M, t, c, a, x, e, z)
  BY <1>2, <1>5, <1>6, <1>7, <1>9 DEF IsFollowed
<1> QED BY <1>2, <1>4, <1>5, <1>7, <1>10 DEF q, IsAlignedMove

\* The fresh moves, renumbered, are moves of the merged change.
LEMMA AlignedMoves ==
  ASSUME NEW t, NEW c, NEW a, NEW x, NEW na, NEW b, NEW y, NEW nb, NEW e, NEW z, NEW ne,
         AreSuccessive(t, c, a, x, na, b, y, nb, e, z, ne),
         NEW next, AreLeft(next, c), NEW fresh, AreFresh(fresh, next, t.insertions),
         NEW M, c.modifications \subseteq M,
         \A k \in 1 .. Len(fresh) : fresh[k].from \in t.modifications => fresh[k].to \in M
  PROVE  AreAligned(Aligned(fresh, t), M, t, c, a, x, e, z)
<1> DEFINE N == Len(fresh)
           al == Aligned(fresh, t)
<1>1. nb \in Nat /\ na \in Nat /\ IsInjectiveList(b, nb)
  BY DEF AreSuccessive
<1>2. /\ N \in Nat /\ DOMAIN fresh = 1 .. N
      /\ \A k \in 1 .. N : fresh[k] \in [from : Nat, to : Nat]
      /\ FromOnce(fresh)
  BY LenProperties, ElementOfSeq DEF AreFresh, MoveList
<1>3. \A k \in 1 .. N : fresh[k].from \notin t.insertions
                        /\ \E l \in 1 .. Len(c.moves) : fresh[k] = c.moves[l]
  <2> TAKE k \in 1 .. N
  <2>1. fresh[k].from \notin t.insertions /\ \E l \in 1 .. Len(next) : fresh[k] = next[l]
    BY DEF AreFresh
  <2>2. \A l \in 1 .. Len(next) : \E i \in 1 .. Len(c.moves) : next[l] = c.moves[i]
    BY DEF AreLeft
  <2> QED BY <2>1, <2>2
<1>4. /\ DOMAIN al = 1 .. N
      /\ \A k \in 1 .. N : al[k] = [fresh[k] EXCEPT
           !.from = shift(t.deletions, unshift(t.insertions, @))]
      /\ al = [k \in 1 .. N |-> al[k]]
  BY <1>2 DEF Aligned
<1> HIDE DEF al
<1>5. \A k \in 1 .. N : /\ al[k].from = Was(t.deletions, t.insertions, fresh[k].from)
                        /\ al[k].to = fresh[k].to
                        /\ al[k] = [from |-> al[k].from, to |-> al[k].to]
  BY <1>2, <1>4 DEF Was
<1> HIDE DEF N
<1>6. ASSUME NEW k \in 1 .. N
      PROVE  /\ IsFollowed(al[k], M, t, c, a, x, e, z)
             /\ al[k].from \in 0 .. na - 1 /\ al[k].from \notin t.deletions /\ al[k].to \in Nat
             /\ fresh[k].from \in 0 .. nb - 1
             /\ a[al[k].from + 1] = b[fresh[k].from + 1]
  <2>1. PICK l \in 1 .. Len(c.moves) : fresh[k] = c.moves[l]
    BY <1>3
  <2>2. /\ c.moves[l].from \notin t.insertions
        /\ c.moves[l].from \in t.modifications => c.moves[l].to \in M
        /\ al[k].from = Was(t.deletions, t.insertions, c.moves[l].from)
        /\ al[k].to = c.moves[l].to
    BY <1>3, <1>5, <2>1 DEF N
  <2> DEFINE m == al[k]
  <2>3. m.from = Was(t.deletions, t.insertions, c.moves[l].from) /\ m.to = c.moves[l].to
    BY <2>2
  <2> HIDE DEF m
  <2>4. IsAlignedMove(m, l, M, t, c, a, x, na, b, nb, e, z)
    BY <2>2, <2>3, AlignedMove
  <2> QED BY <2>1, <2>4 DEF m, IsAlignedMove
<1>7. \A k \in 1 .. N : al[k] \in [from : Nat, to : Nat]
  <2> TAKE k \in 1 .. N
  <2>1. al[k].from \in Nat /\ al[k].to \in Nat /\ al[k] = [from |-> al[k].from, to |-> al[k].to]
    BY <1>5, <1>6
  <2> QED BY <2>1
<1>8. al \in MoveList /\ Len(al) = N
  <2>1. N \in Nat
    BY <1>2 DEF N
  <2> QED BY <1>4, <1>7, <2>1, ListOfMoves
<1>9. FromOnce(al)
  <2> SUFFICES ASSUME NEW k \in 1 .. N, NEW l \in 1 .. N, al[k].from = al[l].from
               PROVE  k = l
    BY <1>8 DEF FromOnce
  <2>1. b[fresh[k].from + 1] = b[fresh[l].from + 1]
    BY <1>6
  <2>2. fresh[k].from = fresh[l].from
    BY <1>1, <1>6, <2>1, InjectiveRows
  <2> QED BY <1>2, <2>2 DEF FromOnce, N
<1>10. AreAligned(al, M, t, c, a, x, e, z)
  BY <1>6, <1>8, <1>9 DEF AreAligned
<1> QED BY <1>10 DEF al

(***************************************************************************)
(* merge.                                                                   *)
(***************************************************************************)

\* The moves kept of the first change, then those of the second.
AreAllFollowed(moves, M, t, c, a, x, e, z) ==
  /\ moves \in MoveList
  /\ FromOnce(moves)
  /\ \A k \in 1 .. Len(moves) : IsFollowed(moves[k], M, t, c, a, x, e, z)

\* The moves of both, one list after the other, are from a row each.
LEMMA AllMoves ==
  ASSUME NEW t, NEW c, NEW a, NEW x, NEW e, NEW z, NEW L, NEW M, L \subseteq M,
         t.moves \in MoveList, \A k \in 1 .. Len(t.moves) : t.moves[k].from \in t.deletions,
         NEW kept, AreFollowed(kept, L, Len(t.moves), t, c, a, x, e, z),
         NEW al, AreAligned(al, M, t, c, a, x, e, z)
  PROVE  AreAllFollowed(kept \o al, M, t, c, a, x, e, z)
<1> DEFINE new == kept \o al
           m == Len(kept)
           n == Len(al)
<1>1. kept \in Seq([from : Nat, to : Nat]) /\ al \in Seq([from : Nat, to : Nat])
  BY DEF AreFollowed, AreAligned, MoveList
<1>2. m \in Nat /\ n \in Nat
  BY <1>1, LenProperties
<1>3. /\ new \in Seq([from : Nat, to : Nat]) /\ Len(new) = m + n
      /\ \A k \in 1 .. m + n : new[k] = IF k <= m THEN kept[k] ELSE al[k - m]
  BY <1>1, ConcatProperties
<1>4. /\ \A k \in 1 .. m : IsFollowed(kept[k], L, t, c, a, x, e, z)
      /\ \A k \in 1 .. m : \E l \in 1 .. Len(t.moves) : kept[k].from = t.moves[l].from
      /\ \A k, l \in 1 .. m : kept[k].from = kept[l].from => k = l
  BY DEF AreFollowed, FromOnce
<1>5. /\ \A k \in 1 .. n : IsFollowed(al[k], M, t, c, a, x, e, z) /\ al[k].from \notin t.deletions
      /\ \A k, l \in 1 .. n : al[k].from = al[l].from => k = l
  BY DEF AreAligned, FromOnce
<1> HIDE DEF new, m, n
<1>6. \A k \in 1 .. m : IsFollowed(kept[k], M, t, c, a, x, e, z) /\ kept[k].from \in t.deletions
  <2> TAKE k \in 1 .. m
  <2>1. IsFollowed(kept[k], M, t, c, a, x, e, z)
    BY <1>4 DEF IsFollowed
  <2> QED BY <1>4, <2>1
<1>7. \A k \in 1 .. m + n : \/ k \in 1 .. m /\ new[k] = kept[k]
                            \/ k > m /\ k - m \in 1 .. n /\ new[k] = al[k - m]
  BY <1>2, <1>3
<1>8. FromOnce(new)
  <2> SUFFICES ASSUME NEW k \in 1 .. m + n, NEW l \in 1 .. m + n, new[k].from = new[l].from
               PROVE  k = l
    BY <1>3 DEF FromOnce
  <2>1. CASE k \in 1 .. m /\ new[k] = kept[k] /\ l \in 1 .. m /\ new[l] = kept[l]
    BY <1>4, <2>1
  <2>2. CASE /\ k - m \in 1 .. n /\ new[k] = al[k - m]
             /\ l - m \in 1 .. n /\ new[l] = al[l - m]
    <3>1. k - m = l - m
      BY <1>5, <2>2
    <3> QED BY <1>2, <3>1
  <2>3. CASE k \in 1 .. m /\ new[k] = kept[k] /\ l - m \in 1 .. n /\ new[l] = al[l - m]
    BY <1>5, <1>6, <2>3
  <2>4. CASE l \in 1 .. m /\ new[l] = kept[l] /\ k - m \in 1 .. n /\ new[k] = al[k - m]
    BY <1>5, <1>6, <2>4
  <2> QED BY <1>7, <2>1, <2>2, <2>3, <2>4
<1>9. \A k \in 1 .. m + n : IsFollowed(new[k], M, t, c, a, x, e, z)
  BY <1>5, <1>6, <1>7
<1>10. AreAllFollowed(new, M, t, c, a, x, e, z)
  BY <1>3, <1>8, <1>9 DEF AreAllFollowed, MoveList
<1> QED BY <1>10 DEF new

\* A row that no change deletes and whose contents changed is told of.
LEMMA StayingRowIsTold ==
  ASSUME NEW t, NEW c, NEW a, NEW x, NEW na, NEW b, NEW y, NEW nb, NEW e, NEW z, NEW ne,
         AreSuccessive(t, c, a, x, na, b, y, nb, e, z, ne),
         NEW p \in 0 .. na - 1, NEW r \in 0 .. ne - 1, a[p + 1] = e[r + 1],
         x[p + 1] # z[r + 1], p \notin AllDeletions(t, c)
  PROVE  r \in c.modifications \/ r \in Carried(t, c)
<1> DEFINE D == t.deletions
           I == t.insertions
           q == Becomes(D, I, p)
<1>1. /\ na \in Nat /\ nb \in Nat /\ ne \in Nat
      /\ IsInjectiveList(a, na) /\ IsInjectiveList(b, nb) /\ IsInjectiveList(e, ne)
      /\ IsTrueOf(t, a, x, na, b, y, nb) /\ IsTrueOf(c, b, y, nb, e, z, ne)
  BY DEF AreSuccessive
<1>2. SuccessiveFacts(t, c, a, x, na, b, y, nb, e, z, ne)
  BY SuccessiveAre
<1>3. p \notin D
  BY AllDeletionsAre
<1>4. q \in 0 .. nb - 1 /\ q \notin I /\ a[p + 1] = b[q + 1]
  <2>1. \A d \in D : d \in 0 .. na - 1
    BY <1>2 DEF SuccessiveFacts
  <2>2. \A d \in I : d \in 0 .. nb - 1
    BY <1>2 DEF SuccessiveFacts
  <2>3. IsExact(a, b, na, nb, D, I)
    BY <1>1 DEF IsTrueOf, IsExactChange
  <2>4. IsPlaced(a, b, na, nb, D, I)
    BY <1>1, <2>1, <2>2, <2>3, ExactPlaces
  <2> QED BY <1>3, <2>4 DEF IsPlaced, Rest
<1> HIDE DEF q
<1>5. Was(D, I, q) = p
  <2>1. /\ Was(D, I, q) \in 0 .. na - 1
        /\ a[Was(D, I, q) + 1] = b[q + 1]
    BY <1>2, <1>4 DEF SuccessiveFacts
  <2> DEFINE o == Was(D, I, q)
  <2>2. o \in 0 .. na - 1 /\ a[o + 1] = a[p + 1]
    BY <1>4, <2>1
  <2> HIDE DEF o
  <2>3. o = p
    BY <1>1, <2>2, InjectiveRows
  <2> QED BY <2>3 DEF o
<1>6. q \notin c.deletions
  <2>1. \A i \in c.deletions : i \notin I => Was(D, I, i) # p
    BY AllDeletionsAre
  <2> QED BY <1>4, <1>5, <2>1
<1> DEFINE s == Becomes(c.deletions, c.insertions, q)
<1>7. s \in 0 .. ne - 1 /\ b[q + 1] = e[s + 1]
  BY <1>2, <1>4, <1>6 DEF SuccessiveFacts
<1>8. q \in t.modifications => s \in Carried(t, c)
  BY <1>6, CarriedMembers
<1> HIDE DEF s
<1>9. s = r
  <2>1. e[s + 1] = e[r + 1]
    BY <1>4, <1>7
  <2> QED BY <1>1, <1>7, <2>1, InjectiveRows
<1>10. x[p + 1] # y[q + 1] => q \in t.modifications
  BY <1>1, <1>3, <1>4 DEF IsTrueOf, IsTold
<1>11. y[q + 1] # z[r + 1] => r \in c.modifications
  BY <1>1, <1>4, <1>6, <1>7, <1>9 DEF IsTrueOf, IsTold
<1> QED BY <1>8, <1>9, <1>10, <1>11

\* The modified rows of the merged change, besides those carried on.
AllModified(F, fresh, t) ==
  F.modified \union {m.to : m \in {n \in Range(fresh) : n.from \in t.modifications}}

\* The merged change before its stale moves are dropped.
BeforeCleanUp(moves, t, c) ==
  [t EXCEPT !.moves = moves, !.deletions = AllDeletions(t, c), !.insertions = AllInsertions(t, c)]

\* merge_both in its parts.
LEMMA MergeBothParts ==
  ASSUME NEW t, NEW c
  PROVE  merge_both(t, c) =
           LET F == follow_moves(t, c)
               fresh == fresh_moves(F.next, t.insertions)
               d == BeforeCleanUp(F.kept \o Aligned(fresh, t), t, c)
               g == clean_up_stale_moves(d)
           IN [g EXCEPT
                !.modifications = Carried(g, c) \union AllModified(F, fresh, t)]
BY Zenon DEF merge_both, AllModified, Carried, BeforeCleanUp, Aligned, AllDeletions,
             MergedDeletions, AllInsertions, MergedInsertions

\* Merging two successive changes, none of them empty, gives a true one.
LEMMA MergeBothIsTrue ==
  ASSUME NEW t \in ChangeSets, NEW c, NEW a, NEW x, NEW na, NEW b, NEW y, NEW nb,
         NEW e, NEW z, NEW ne, AreSuccessive(t, c, a, x, na, b, y, nb, e, z, ne),
         NEW r, r = merge_both(t, c)
  PROVE  r \in ChangeSets /\ IsTrueOf(r, a, x, na, e, z, ne)
<1> DEFINE F == follow_moves(t, c)
           fresh == fresh_moves(F.next, t.insertions)
           al == Aligned(fresh, t)
           M == AllModified(F, fresh, t)
           moves == F.kept \o al
           d == BeforeCleanUp(moves, t, c)
           g == clean_up_stale_moves(d)
<1>1. r = [g EXCEPT !.modifications = Carried(g, c) \union M]
  BY MergeBothParts
<1>2. /\ na \in Nat /\ nb \in Nat /\ ne \in Nat
      /\ IsInjectiveList(a, na) /\ IsInjectiveList(b, nb) /\ IsInjectiveList(e, ne)
      /\ IsTrueOf(t, a, x, na, b, y, nb) /\ IsTrueOf(c, b, y, nb, e, z, ne)
  BY DEF AreSuccessive
<1>3. FollowInv(F, Len(t.moves), t, c, a, x, e, z, ne)
  BY MovesFollowed
<1> HIDE DEF F
<1>4. /\ AreFollowed(F.kept, F.modified, Len(t.moves), t, c, a, x, e, z)
      /\ AreLeft(F.next, c)
      /\ c.modifications \subseteq F.modified
      /\ AreRows(F.modified, ne)
  BY <1>3 DEF FollowInv
<1>5. AreFresh(fresh, F.next, t.insertions)
  <2>1. F.next \in MoveList /\ FromOnce(F.next)
    BY <1>4 DEF AreLeft
  <2> QED BY <2>1, FreshMoves
<1> HIDE DEF fresh
<1>6. DOMAIN fresh = 1 .. Len(fresh)
  BY <1>5, LenProperties DEF AreFresh, MoveList
<1>7. /\ F.modified \subseteq M
      /\ \A k \in 1 .. Len(fresh) : fresh[k].from \in t.modifications => fresh[k].to \in M
      /\ \A v \in M : v \in F.modified \/ \E k \in 1 .. Len(fresh) : v = fresh[k].to
  BY <1>6 DEF AllModified, Range
<1> HIDE DEF M
<1>8. AreAligned(al, M, t, c, a, x, e, z)
  <2>1. c.modifications \subseteq M
    BY <1>4, <1>7
  <2> QED BY <1>4, <1>5, <1>7, <2>1, AlignedMoves
<1> HIDE DEF al
<1>9. AreAllFollowed(moves, M, t, c, a, x, e, z)
  <2>1. t.moves \in MoveList
    BY DEF ChangeSets
  <2>2. \A k \in 1 .. Len(t.moves) : t.moves[k].from \in t.deletions
    BY <1>2 DEF IsTrueOf, AreTrueMoves, IsTrueMove
  <2> QED BY <1>4, <1>7, <1>8, <2>1, <2>2, AllMoves
<1> HIDE DEF moves
<1>10. IsExactChange(a, e, na, ne, AllDeletions(t, c), AllInsertions(t, c))
  <2>1. /\ IsExactChange(a, b, na, nb, t.deletions, t.insertions)
        /\ IsExactChange(b, e, nb, ne, c.deletions, c.insertions)
    BY <1>2 DEF IsTrueOf
  <2> QED BY <1>2, <2>1, MergedIsExact DEF AllDeletions, AllInsertions
<1>11. /\ d \in ChangeSets /\ d.moves = moves
       /\ d.deletions = AllDeletions(t, c) /\ d.insertions = AllInsertions(t, c)
       /\ d.modifications = t.modifications
  <2>1. moves \in MoveList
    BY <1>9 DEF AreAllFollowed
  <2>2. AllDeletions(t, c) \in SUBSET Nat /\ AllInsertions(t, c) \in SUBSET Nat
    BY <1>2, <1>10 DEF IsExactChange, AreRows
  <2> DEFINE D == AllDeletions(t, c)
             I == AllInsertions(t, c)
  <2> HIDE DEF D, I
  <2>3. BeforeCleanUp(moves, t, c) = [t EXCEPT !.moves = moves, !.deletions = D, !.insertions = I]
    BY DEF BeforeCleanUp, D, I
  <2>4. D \in SUBSET Nat /\ I \in SUBSET Nat
    BY <2>2 DEF D, I
  <2>5. /\ d \in ChangeSets /\ d.moves = moves /\ d.deletions = D /\ d.insertions = I
        /\ d.modifications = t.modifications
    BY <2>1, <2>3, <2>4 DEF ChangeSets
  <2> QED BY <2>5 DEF D, I
<1> HIDE DEF d
<1>12. AreTrueMoves(d.moves, a, e, d.deletions, d.insertions)
  <2>1. AreTrueMoves(moves, a, e, AllDeletions(t, c), AllInsertions(t, c))
    BY <1>9 DEF AreAllFollowed, AreTrueMoves, IsTrueMove, IsFollowed
  <2> QED BY <1>11, <2>1
<1>13. CleanInv(g, Len(d.moves), d, a, na, e, ne)
  <2>1. IsExactChange(a, e, na, ne, d.deletions, d.insertions)
    BY <1>10, <1>11
  <2> QED BY <1>2, <1>11, <1>12, <2>1, CleanedUp
<1> HIDE DEF g
<1>14. /\ g \in ChangeSets /\ g.modifications = t.modifications
       /\ IsExactChange(a, e, na, ne, g.deletions, g.insertions)
       /\ AreTrueMoves(g.moves, a, e, g.deletions, g.insertions)
       /\ \A k \in 1 .. Len(g.moves) : \E l \in 1 .. Len(moves) : g.moves[k] = moves[l]
       /\ \A p \in 0 .. na - 1 : p \notin g.deletions =>
            p \notin AllDeletions(t, c) \/ \E l \in 1 .. Len(moves) : moves[l].from = p
  BY <1>11, <1>13 DEF CleanInv
<1>15. Carried(g, c) = Carried(t, c)
  BY <1>14 DEF Carried
<1> DEFINE all == Carried(t, c) \union M
<1>16. \A v \in all : v \in 0 .. ne - 1
  <2>1. \A v \in Carried(t, c) : v \in 0 .. ne - 1
    <3> TAKE v \in Carried(t, c)
    <3>1. PICK m \in t.modifications :
            m \notin c.deletions /\ v = Becomes(c.deletions, c.insertions, m)
      BY CarriedMembers
    <3>2. SuccessiveFacts(t, c, a, x, na, b, y, nb, e, z, ne)
      BY SuccessiveAre
    <3> QED BY <3>1, <3>2 DEF SuccessiveFacts
  <2>2. \A v \in M : v \in 0 .. ne - 1
    <3> TAKE v \in M
    <3>1. CASE v \in F.modified
      BY <1>4, <3>1 DEF AreRows
    <3>2. CASE \E k \in 1 .. Len(fresh) : v = fresh[k].to
      <4>1. PICK k \in 1 .. Len(fresh) : v = fresh[k].to
        BY <3>2
      <4>2. PICK l \in 1 .. Len(F.next) : fresh[k] = F.next[l]
        BY <1>5 DEF AreFresh
      <4>3. PICK i \in 1 .. Len(c.moves) : F.next[l] = c.moves[i]
        BY <1>4 DEF AreLeft
      <4>4. v \in c.insertions
        BY <1>2, <4>1, <4>2, <4>3 DEF IsTrueOf, AreTrueMoves, IsTrueMove
      <4> QED BY <1>2, <4>4 DEF IsTrueOf, IsExactChange, AreRows
    <3> QED BY <1>7, <3>1, <3>2
  <2> QED BY <2>1, <2>2
<1>17. /\ r \in ChangeSets
       /\ r.deletions = g.deletions /\ r.insertions = g.insertions /\ r.moves = g.moves
       /\ r.modifications = all
  <2>1. all \in SUBSET Nat
    BY <1>2, <1>16
  <2>2. r = [g EXCEPT !.modifications = all]
    BY <1>1, <1>15
  <2> HIDE DEF all
  <2> QED BY <1>14, <2>1, <2>2 DEF ChangeSets
<1>18. IsTold(r.modifications, r.moves, a, x, na, e, z, ne, r.deletions)
  <2> SUFFICES ASSUME NEW p \in 0 .. na - 1, NEW q \in 0 .. ne - 1,
                      a[p + 1] = e[q + 1], x[p + 1] # z[q + 1],
                      \/ p \notin g.deletions
                      \/ \E k \in 1 .. Len(g.moves) : g.moves[k].from = p
               PROVE  q \in Carried(t, c) \/ q \in M
    BY <1>17 DEF IsTold
  <2>1. p \notin AllDeletions(t, c) \/ \E l \in 1 .. Len(moves) : moves[l].from = p
    <3>1. CASE p \notin g.deletions
      BY <1>14, <3>1
    <3>2. CASE \E k \in 1 .. Len(g.moves) : g.moves[k].from = p
      <4>1. PICK k \in 1 .. Len(g.moves) : g.moves[k].from = p
        BY <3>2
      <4>2. PICK l \in 1 .. Len(moves) : g.moves[k] = moves[l]
        BY <1>14
      <4> QED BY <4>1, <4>2
    <3> QED BY <3>1, <3>2
  <2>2. CASE p \notin AllDeletions(t, c)
    <3>1. q \in c.modifications \/ q \in Carried(t, c)
      BY <2>2, StayingRowIsTold
    <3> QED BY <1>4, <1>7, <3>1
  <2>3. CASE \E l \in 1 .. Len(moves) : moves[l].from = p
    <3>1. PICK l \in 1 .. Len(moves) : moves[l].from = p
      BY <2>3
    <3>2. IsFollowed(moves[l], M, t, c, a, x, e, z)
      BY <1>9 DEF AreAllFollowed
    <3> DEFINE to == moves[l].to
    <3>3. /\ to \in AllInsertions(t, c) /\ a[p + 1] = e[to + 1]
          /\ x[p + 1] # z[to + 1] => to \in M \/ to \in Carried(t, c)
      BY <3>1, <3>2 DEF IsFollowed
    <3> HIDE DEF to
    <3>4. to \in 0 .. ne - 1 /\ e[to + 1] = e[q + 1]
      BY <1>10, <3>3 DEF IsExactChange, AreRows
    <3>5. to = q
      BY <1>2, <3>4, InjectiveRows
    <3> QED BY <3>3, <3>5
  <2> QED BY <2>1, <2>2, <2>3
<1>19. AreRows(r.modifications, ne)
  BY <1>16, <1>17 DEF AreRows
<1>20. IsTrueOf(r, a, x, na, e, z, ne)
  <2> HIDE DEF all
  <2> QED BY <1>14, <1>17, <1>18, <1>19 DEF IsTrueOf
<1> QED BY <1>17, <1>20

\* The same rows with the same contents.
SameRows(a, x, na, b, y, nb) ==
  /\ na = nb
  /\ \A q \in 0 .. na - 1 : a[q + 1] = b[q + 1] /\ x[q + 1] = y[q + 1]

\* An empty true change is between lists with the same rows and contents.
LEMMA EmptyIsSame ==
  ASSUME NEW c, NEW a, NEW x, NEW na \in Nat, NEW b, NEW y, NEW nb \in Nat,
         empty(c), IsTrueOf(c, a, x, na, b, y, nb)
  PROVE  SameRows(a, x, na, b, y, nb)
<1>1. /\ c.deletions = {} /\ c.insertions = {} /\ c.modifications = {}
      /\ IsExact(a, b, na, nb, {}, {})
  BY DEF empty, IsTrueOf, IsExactChange
<1>2. IsPlaced(a, b, na, nb, {}, {})
  <2>1. (\A d \in {} : d \in 0 .. na - 1) /\ \A d \in {} : d \in 0 .. nb - 1
    OBVIOUS
  <2> QED BY <1>1, <2>1, ExactPlaces
<1>3. \A q \in Nat : Was({}, {}, q) = q
  <2> TAKE q \in Nat
  <2>1. unshift({}, q) \in Nat
    BY UnshiftType
  <2>2. IsFiniteSet({}) /\ \A d \in {} : d \in Nat
    BY FS_EmptySet
  <2> QED BY <2>2, ShiftUnshift DEF Was
<1>4. na = nb
  <2>1. Cardinality({}) = 0 /\ na - Cardinality({}) + Cardinality({}) = nb
    BY <1>2, FS_EmptySet DEF IsPlaced
  <2> QED BY <2>1
<1>5. ASSUME NEW q \in 0 .. na - 1 PROVE a[q + 1] = b[q + 1] /\ x[q + 1] = y[q + 1]
  <2>1. q \in Rest(nb, {})
    BY <1>4 DEF Rest
  <2>2. a[q + 1] = b[q + 1]
    BY <1>2, <1>3, <2>1 DEF IsPlaced
  <2> QED BY <1>1, <1>4, <2>2 DEF IsTrueOf, IsTold
<1> QED BY <1>4, <1>5 DEF SameRows

\* A change stays true when the new list is replaced by the same rows.
LEMMA TrueOfSameNew ==
  ASSUME NEW c, NEW a, NEW x, NEW na \in Nat, NEW b, NEW y, NEW nb \in Nat, NEW e, NEW z, NEW ne,
         IsTrueOf(c, a, x, na, b, y, nb), SameRows(b, y, nb, e, z, ne)
  PROVE  IsTrueOf(c, a, x, na, e, z, ne)
<1>1. ne = nb /\ \A q \in 0 .. nb - 1 : b[q + 1] = e[q + 1] /\ y[q + 1] = z[q + 1]
  BY DEF SameRows
<1>2. IsExactChange(a, b, na, nb, c.deletions, c.insertions)
  BY DEF IsTrueOf
<1>3. \A q \in Rest(nb, c.insertions) : b[q + 1] = e[q + 1]
  BY <1>1 DEF Rest
<1>4. IsExactChange(a, e, na, ne, c.deletions, c.insertions)
  BY <1>1, <1>2, <1>3 DEF IsExactChange, IsExact
<1>5. AreTrueMoves(c.moves, a, e, c.deletions, c.insertions)
  <2>1. \A q \in c.insertions : b[q + 1] = e[q + 1]
    BY <1>1, <1>2 DEF IsExactChange, AreRows
  <2> QED BY <2>1 DEF IsTrueOf, AreTrueMoves, IsTrueMove
<1>6. IsTold(c.modifications, c.moves, a, x, na, e, z, ne, c.deletions)
  BY <1>1 DEF IsTrueOf, IsTold
<1>7. AreRows(c.modifications, ne)
  BY <1>1 DEF IsTrueOf
<1> QED BY <1>4, <1>5, <1>6, <1>7 DEF IsTrueOf

\* A change stays true when the old list is replaced by the same rows.
LEMMA TrueOfSameOld ==
  ASSUME NEW c, NEW a, NEW x, NEW na \in Nat, NEW b, NEW y, NEW nb \in Nat, NEW e, NEW z, NEW ne,
         IsTrueOf(c, b, y, nb, e, z, ne), SameRows(a, x, na, b, y, nb)
  PROVE  IsTrueOf(c, a, x, na, e, z, ne)
<1>1. na = nb /\ \A q \in 0 .. nb - 1 : a[q + 1] = b[q + 1] /\ x[q + 1] = y[q + 1]
  BY DEF SameRows
<1>2. IsExactChange(b, e, nb, ne, c.deletions, c.insertions)
  BY DEF IsTrueOf
<1>3. \A q \in Rest(nb, c.deletions) : a[q + 1] = b[q + 1]
  BY <1>1 DEF Rest
<1>4. IsExactChange(a, e, na, ne, c.deletions, c.insertions)
  BY <1>1, <1>2, <1>3 DEF IsExactChange, IsExact
<1>5. AreTrueMoves(c.moves, a, e, c.deletions, c.insertions)
  <2>1. \A q \in c.deletions : b[q + 1] = a[q + 1]
    BY <1>1, <1>2 DEF IsExactChange, AreRows
  <2> QED BY <2>1 DEF IsTrueOf, AreTrueMoves, IsTrueMove
<1>6. IsTold(c.modifications, c.moves, a, x, na, e, z, ne, c.deletions)
  BY <1>1 DEF IsTrueOf, IsTold
<1>7. AreRows(c.modifications, ne)
  BY DEF IsTrueOf
<1> QED BY <1>4, <1>5, <1>6, <1>7 DEF IsTrueOf

\* Merging two changes that are true, of lists that follow one another, gives a
\* change that is true of the first list and the last: the deletions and
\* insertions of both renumbered, the moves followed, the stale ones dropped
\* and every row with other contents than at first reported (what merge's
\* callers rely on when several versions go by between two deliveries).
THEOREM MergedChangeIsTrue ==
  ASSUME NEW t \in ChangeSets, NEW c \in ChangeSets, NEW a, NEW x, NEW na, NEW b, NEW y, NEW nb,
         NEW e, NEW z, NEW ne, AreSuccessive(t, c, a, x, na, b, y, nb, e, z, ne),
         NEW r, r = merge(t, c)
  PROVE  r \in ChangeSets /\ IsTrueOf(r, a, x, na, e, z, ne)
<1>1. na \in Nat /\ nb \in Nat /\ ne \in Nat
      /\ IsTrueOf(t, a, x, na, b, y, nb) /\ IsTrueOf(c, b, y, nb, e, z, ne)
  BY DEF AreSuccessive
<1>2. CASE empty(c)
  <2>1. r = t
    BY <1>2 DEF merge
  <2>2. SameRows(b, y, nb, e, z, ne)
    BY <1>1, <1>2, EmptyIsSame
  <2>3. IsTrueOf(t, a, x, na, e, z, ne)
    BY <1>1, <2>2, TrueOfSameNew
  <2> QED BY <2>1, <2>3
<1>3. CASE ~ empty(c) /\ empty(t)
  <2>1. r = c
    BY <1>3 DEF merge
  <2>2. SameRows(a, x, na, b, y, nb)
    BY <1>1, <1>3, EmptyIsSame
  <2>3. IsTrueOf(c, a, x, na, e, z, ne)
    BY <1>1, <2>2, TrueOfSameOld
  <2> QED BY <2>1, <2>3
<1>4. CASE ~ empty(c) /\ ~ empty(t)
  <2>1. r = merge_both(t, c)
    BY <1>4 DEF merge
  <2> QED BY <2>1, MergeBothIsTrue
<1> QED BY <1>2, <1>3, <1>4

(***************************************************************************)
(* calculate_moves_unsorted: results in table order, after a log of         *)
(* move_last_over, which moves rows towards the start only.                 *)
(***************************************************************************)

\* The shared rows: all of the old rows outside G and all of the new ones outside
\* new; only candidates moved, and none towards the end.
AreTableRows(rows, N, G, new, np, nq, candidates) ==
  /\ N \in Nat /\ np \in Nat /\ nq \in Nat
  /\ AreRows(G, np) /\ AreRows(new, nq)
  /\ \A k \in 1 .. N : /\ rows[k].tv_index \in Rest(nq, new)
                       /\ rows[k].prev_tv_index \in Rest(np, G)
                       /\ rows[k].shifted_tv_index = unshift(G, rows[k].prev_tv_index)
                       /\ rows[k].tv_index <= rows[k].prev_tv_index
                       /\ rows[k].row_index \notin candidates =>
                            rows[k].tv_index = rows[k].prev_tv_index
  /\ \A k, l \in 1 .. N : k < l => rows[k].tv_index < rows[l].tv_index
  /\ \A k, l \in 1 .. N : rows[k].prev_tv_index = rows[l].prev_tv_index => k = l
  /\ \A p \in Rest(np, G) : \E k \in 1 .. N : rows[k].prev_tv_index = p
  /\ \A q \in Rest(nq, new) : \E k \in 1 .. N : rows[k].tv_index = q

PlaceState == [expected : Nat, moves : MoveList, insertions : SUBSET Nat, removed : SUBSET Nat]

\* No row that comes after row k in the results was before it.
IsFirst(rows, N, k) ==
  \A j \in 1 .. N : k < j => rows[k].prev_tv_index < rows[j].prev_tv_index

\* The inserted rows are the new ones and those of the first n that moved; a row
\* of the first n that did not move was before all that come after it.
ArePlaced(I, R, n, rows, N, new) ==
  /\ \A i \in new : i \in I
  /\ \A i \in I : i \in new \/ \E l \in 1 .. n : rows[l].tv_index = i
  /\ \A p \in R : \E l \in 1 .. n : rows[l].prev_tv_index = p
  /\ \A l \in 1 .. n : rows[l].tv_index \in I <=> rows[l].prev_tv_index \in R
  /\ \A l \in 1 .. n : rows[l].prev_tv_index \notin R => IsFirst(rows, N, l)

\* A row in the place after one that stays, or in the first one.
LEMMA ExpectedIsFirst ==
  ASSUME NEW rows, NEW N, NEW G, NEW new, NEW np, NEW nq, NEW candidates,
         AreTableRows(rows, N, G, new, np, nq, candidates),
         NEW k \in 1 .. N,
         \/ rows[k].shifted_tv_index = 0
         \/ \E l \in 1 .. k - 1 : /\ IsFirst(rows, N, l)
                                  /\ rows[k].shifted_tv_index = rows[l].shifted_tv_index + 1
  PROVE  IsFirst(rows, N, k)
<1> SUFFICES ASSUME NEW j \in 1 .. N, k < j
             PROVE  rows[k].prev_tv_index < rows[j].prev_tv_index
  BY DEF IsFirst
<1> DEFINE p(i) == rows[i].prev_tv_index
<1>1. N \in Nat /\ \A x \in G : x \in Nat
  BY DEF AreTableRows, AreRows
<1>2. \A i \in 1 .. N : p(i) \in Nat /\ p(i) \notin G /\ rows[i].shifted_tv_index = unshift(G, p(i))
  BY DEF AreTableRows, Rest
<1>3. p(j) # p(k)
  BY DEF AreTableRows
<1> HIDE DEF p
<1> SUFFICES ASSUME p(j) < p(k) PROVE FALSE
  BY <1>2, <1>3 DEF p
<1>4. unshift(G, p(j)) < unshift(G, p(k)) /\ unshift(G, p(j)) \in Nat /\ unshift(G, p(k)) \in Nat
  BY <1>1, <1>2, UnshiftMonotone, UnshiftType
<1>5. CASE rows[k].shifted_tv_index = 0
  BY <1>2, <1>4, <1>5
<1>6. CASE \E l \in 1 .. k - 1 : /\ IsFirst(rows, N, l)
                                 /\ rows[k].shifted_tv_index = rows[l].shifted_tv_index + 1
  <2>1. PICK l \in 1 .. k - 1 : /\ IsFirst(rows, N, l)
                                /\ rows[k].shifted_tv_index = rows[l].shifted_tv_index + 1
    BY <1>6
  <2>2. l \in 1 .. N /\ l < j
    BY <1>1
  <2>3. p(l) < p(j)
    BY <2>1, <2>2 DEF IsFirst, p
  <2>4. unshift(G, p(l)) < unshift(G, p(j)) /\ unshift(G, p(l)) \in Nat
    BY <1>1, <1>2, <2>2, <2>3, UnshiftMonotone, UnshiftType
  <2> QED BY <1>2, <1>4, <2>1, <2>2, <2>4
<1> QED BY <1>5, <1>6

\* A row that may not have moved.
LEMMA UnmovedIsFirst ==
  ASSUME NEW rows, NEW N, NEW G, NEW new, NEW np, NEW nq, NEW candidates,
         AreTableRows(rows, N, G, new, np, nq, candidates),
         NEW k \in 1 .. N, rows[k].row_index \notin candidates
  PROVE  IsFirst(rows, N, k)
<1> SUFFICES ASSUME NEW j \in 1 .. N, k < j
             PROVE  rows[k].prev_tv_index < rows[j].prev_tv_index
  BY DEF IsFirst
<1>1. /\ rows[k].tv_index = rows[k].prev_tv_index
      /\ rows[k].tv_index < rows[j].tv_index
      /\ rows[j].tv_index <= rows[j].prev_tv_index
      /\ rows[k].tv_index \in Nat /\ rows[j].tv_index \in Nat /\ rows[j].prev_tv_index \in Nat
  BY DEF AreTableRows, Rest
<1> QED BY <1>1

\* A row whose place the other changes explain: counting the rows before it leaves
\* none that comes after it.
LEMMA ExplainedIsFirst ==
  ASSUME NEW rows, NEW N, NEW G, NEW new, NEW np, NEW nq, NEW candidates,
         AreTableRows(rows, N, G, new, np, nq, candidates),
         NEW n \in Nat, n + 1 \in 1 .. N, NEW I \in SUBSET Nat, NEW R \in SUBSET Nat,
         ArePlaced(I, R, n, rows, N, new),
         rows[n + 1].shifted_tv_index = unshift(I, rows[n + 1].tv_index)
                                          + count(R, 0, rows[n + 1].prev_tv_index)
  PROVE  IsFirst(rows, N, n + 1)
<1> DEFINE k == n + 1
           p(i) == rows[i].prev_tv_index
           t(i) == rows[i].tv_index
           kept == {l \in 1 .. n : p(l) \notin R}
           A == {x \in Rest(np, G) : x < p(k)}
           Kt == {x \in Rest(nq, I) : x < t(k)}
           Kp == {p(l) : l \in kept}
           Rp == {x \in R : 0 <= x /\ x < p(k)}
<1>1. N \in Nat /\ np \in Nat /\ nq \in Nat /\ (\A x \in G : x \in Nat) /\ (\A x \in I : x \in Nat)
      /\ \A x \in R : x \in Int
  BY DEF AreTableRows, AreRows
<1>2. \A i \in 1 .. N : /\ p(i) \in 0 .. np - 1 /\ p(i) \notin G
                        /\ t(i) \in 0 .. nq - 1 /\ t(i) \notin new
  BY DEF AreTableRows, Rest
<1>3. \A i, j \in 1 .. N : (i < j => t(i) < t(j)) /\ (p(i) = p(j) => i = j)
  BY DEF AreTableRows
<1>4. \A l \in 1 .. n : l \in 1 .. N /\ l < k
  BY <1>1
<1>5. k \in 1 .. N
  OBVIOUS
<1>6. /\ \A i \in new : i \in I
      /\ \A i \in I : i \in new \/ \E l \in 1 .. n : t(l) = i
      /\ \A x \in R : \E l \in 1 .. n : p(l) = x
      /\ \A l \in 1 .. n : t(l) \in I <=> p(l) \in R
      /\ \A l \in kept : \A j \in 1 .. N : l < j => p(l) < p(j)
  BY DEF ArePlaced, IsFirst
<1>7. /\ unshift(G, p(k)) = unshift(I, t(k)) + count(R, 0, p(k))
      /\ \A x \in Rest(nq, new) : \E i \in 1 .. N : t(i) = x
  <2>1. rows[k].shifted_tv_index = unshift(G, p(k))
    BY <1>5 DEF AreTableRows
  <2>2. \A x \in Rest(nq, new) : \E i \in 1 .. N : t(i) = x
    BY DEF AreTableRows
  <2> QED BY <2>1, <2>2
<1> HIDE DEF k, p, t
<1>8. IsFiniteSet(A) /\ Cardinality(A) = unshift(G, p(k))
  <2>1. p(k) \in 0 .. np
    BY <1>1, <1>2, <1>5
  <2> QED BY <1>1, <2>1, UnshiftIsRank
<1>9. IsFiniteSet(Kt) /\ Cardinality(Kt) = unshift(I, t(k))
  <2>1. t(k) \in 0 .. nq
    BY <1>1, <1>2, <1>5
  <2> QED BY <1>1, <2>1, UnshiftIsRank
<1>10. IsFiniteSet(Rp) /\ Cardinality(Rp) = count(R, 0, p(k))
  <2>1. p(k) \in Int /\ 0 \in Int
    BY <1>2, <1>5
  <2>2. \A x \in R : x \in Int
    BY <1>1
  <2>3. IsFiniteSet({x \in R : 0 <= x /\ x < p(k)})
    BY <2>1, <2>2, CountFinite
  <2>4. Cardinality(Rp) = count(R, 0, p(k))
    BY Zenon DEF count
  <2> QED BY <2>3, <2>4
<1>11. \A x : x \in Kt <=> \E l \in kept : t(l) = x
  <2> SUFFICES ASSUME NEW x PROVE x \in Kt <=> \E l \in kept : t(l) = x
    OBVIOUS
  <2>1. ASSUME x \in Kt PROVE \E l \in kept : t(l) = x
    <3>1. x \in 0 .. nq - 1 /\ x \notin I /\ x < t(k)
      BY <2>1 DEF Rest
    <3>2. x \in Rest(nq, new)
      BY <1>6, <3>1 DEF Rest
    <3>3. PICK l \in 1 .. N : t(l) = x
      BY <1>7, <3>2
    <3>4. ~ k < l /\ l # k
      <4>1. k < l => t(k) < t(l)
        BY <1>3, <1>5
      <4>2. t(k) \in Int /\ t(l) \in Int
        BY <1>2, <1>5
      <4> QED BY <3>1, <3>3, <4>1, <4>2
    <3>5. l \in 1 .. n
      BY <1>1, <3>4 DEF k
    <3> QED BY <1>6, <3>1, <3>3, <3>5
  <2>2. ASSUME NEW l \in kept, t(l) = x PROVE x \in Kt
    <3>1. l \in 1 .. n /\ l \in 1 .. N /\ l < k /\ p(l) \notin R
      BY <1>4
    <3>2. t(l) \in 0 .. nq - 1 /\ t(l) \notin I /\ t(l) < t(k)
      BY <1>2, <1>3, <1>5, <1>6, <3>1
    <3> QED BY <2>2, <3>2 DEF Rest
  <2> HIDE DEF Kt, kept
  <2> QED BY <2>1, <2>2
<1>12. IsFiniteSet(Kp) /\ Cardinality(Kp) = Cardinality(Kt)
  <2> DEFINE at(x) == CHOOSE l \in kept : t(l) = x
             f == [x \in Kt |-> p(at(x))]
  <2>1. \A x \in Kt : at(x) \in kept /\ t(at(x)) = x
    <3> HIDE DEF Kt, kept
    <3> QED BY <1>11, Zenon
  <2>2. \A l \in kept : at(t(l)) = l
    <3> TAKE l \in kept
    <3>1. t(l) \in Kt
      <4> HIDE DEF Kt, kept
      <4> QED BY <1>11
    <3>2. at(t(l)) \in kept /\ t(at(t(l))) = t(l)
      <4> HIDE DEF at, Kt, kept
      <4> QED BY <2>1, <3>1
    <3> HIDE DEF at
    <3>3. l \in 1 .. N /\ at(t(l)) \in 1 .. N
      BY <1>4, <3>2
    <3>4. t(l) \in Int
      BY <1>2, <3>3
    <3> QED BY <1>3, <3>2, <3>3, <3>4
  <2> HIDE DEF at
  <2>3. f \in [Kt -> Kp]
    <3> HIDE DEF Kt, kept
    <3> QED BY <2>1
  <2>4. \A x, y \in Kt : f[x] = f[y] => x = y
    <3> SUFFICES ASSUME NEW x \in Kt, NEW y \in Kt, f[x] = f[y] PROVE x = y
      OBVIOUS
    <3>1. at(x) \in kept /\ at(y) \in kept /\ t(at(x)) = x /\ t(at(y)) = y /\ p(at(x)) = p(at(y))
      <4> HIDE DEF Kt, kept
      <4> QED BY <2>1
    <3>2. at(x) \in 1 .. N /\ at(y) \in 1 .. N
      BY <1>4, <3>1
    <3>3. at(x) = at(y)
      BY <1>3, <3>1, <3>2
    <3> QED BY <3>1, <3>3
  <2>5. \A v \in Kp : \E x \in Kt : f[x] = v
    <3> HIDE DEF Kt, kept
    <3> SUFFICES ASSUME NEW l \in kept PROVE \E x \in Kt : f[x] = p(l)
      OBVIOUS
    <3>1. t(l) \in Kt /\ at(t(l)) = l
      BY <1>11, <2>2
    <3>2. f[t(l)] = p(l)
      BY <3>1
    <3> QED BY <3>1, <3>2
  <2> HIDE DEF f, Kt, Kp
  <2>6. f \in Bijection(Kt, Kp)
    BY <2>3, <2>4, <2>5, Zenon DEF Bijection, Injection, Surjection, IsInjective
  <2>7. ExistsBijection(Kt, Kp)
    BY <2>6, Zenon DEF ExistsBijection
  <2> QED BY <1>9, <2>7, FS_Bijection
<1>13. Kp \union Rp \subseteq A
  <2>1. \A l \in kept : p(l) \in A
    <3> TAKE l \in kept
    <3>1. l \in 1 .. N /\ l < k
      BY <1>4
    <3>2. p(l) < p(k) /\ p(l) \in 0 .. np - 1 /\ p(l) \notin G
      BY <1>2, <1>5, <1>6, <3>1
    <3> QED BY <3>2 DEF Rest
  <2>2. \A x \in Rp : x \in A
    <3> TAKE x \in Rp
    <3>1. PICK l \in 1 .. n : p(l) = x
      BY <1>6
    <3>2. x \in 0 .. np - 1 /\ x \notin G
      BY <1>2, <1>4, <3>1
    <3> QED BY <3>2 DEF Rest
  <2> HIDE DEF A, kept, Rp
  <2> QED BY <2>1, <2>2
<1>14. Kp \intersect Rp = {}
  OBVIOUS
<1> HIDE DEF A, Kp, Rp, Kt, kept
<1>15. Kp \union Rp = A
  <2>1. Cardinality(Kp \union Rp) = Cardinality(Kp) + Cardinality(Rp) - Cardinality(Kp \intersect Rp)
    BY <1>10, <1>12, FS_Union
  <2>2. Cardinality(Kp \intersect Rp) = 0
    BY <1>14, FS_EmptySet
  <2>3. Cardinality(Kp) \in Nat /\ Cardinality(Rp) \in Nat
    BY <1>10, <1>12, FS_CardinalityType
  <2>4. Cardinality(Kp \union Rp) = Cardinality(A)
    BY <1>7, <1>8, <1>9, <1>10, <1>12, <2>1, <2>2, <2>3
  <2>5. Kp \union Rp \in SUBSET A
    BY <1>13
  <2> QED BY <1>8, <2>4, <2>5, FS_Subset
<1>16. \A x \in A : \E l \in 1 .. n : p(l) = x
  <2>1. \A x \in Kp : \E l \in 1 .. n : p(l) = x
    BY DEF Kp, kept
  <2>2. \A x \in Rp : \E l \in 1 .. n : p(l) = x
    BY <1>6 DEF Rp
  <2> QED BY <1>15, <2>1, <2>2
<1>17. ASSUME NEW j \in 1 .. N, k < j PROVE p(k) < p(j)
  <2> SUFFICES ASSUME ~ p(k) < p(j) PROVE FALSE
    OBVIOUS
  <2>1. k # j /\ k \in Int /\ j \in Int
    BY <1>17 DEF k
  <2>2. p(j) # p(k)
    BY <1>3, <1>5, <2>1
  <2>3. p(j) < p(k)
    BY <1>2, <1>5, <2>2
  <2>4. p(j) \in A
    BY <1>2, <2>3 DEF A, Rest
  <2>5. PICK l \in 1 .. n : p(l) = p(j)
    BY <1>16, <2>4
  <2>6. l = j
    BY <1>3, <1>4, <2>5
  <2> QED BY <1>4, <1>17, <2>1, <2>6
<1> QED BY <1>17 DEF IsFirst, k, p

\* One more row stays, or moves.
LEMMA OneMorePlaced ==
  ASSUME NEW rows, NEW N, NEW G, NEW new, NEW np, NEW nq, NEW candidates,
         AreTableRows(rows, N, G, new, np, nq, candidates),
         NEW n \in Nat, n + 1 \in 1 .. N, NEW I, NEW R, ArePlaced(I, R, n, rows, N, new)
  PROVE  /\ IsFirst(rows, N, n + 1) => ArePlaced(I, R, n + 1, rows, N, new)
         /\ ArePlaced(I \union {rows[n + 1].tv_index}, R \union {rows[n + 1].prev_tv_index},
                      n + 1, rows, N, new)
<1> DEFINE k == n + 1
           p(i) == rows[i].prev_tv_index
           t(i) == rows[i].tv_index
<1>1. N \in Nat /\ \A i \in 1 .. N : t(i) \notin new /\ t(i) \in Int /\ p(i) \in Int
  BY DEF AreTableRows, Rest
<1>2. \A i, j \in 1 .. N : (i < j => t(i) < t(j)) /\ (p(i) = p(j) => i = j)
  BY DEF AreTableRows
<1>3. /\ \A i \in new : i \in I
      /\ \A i \in I : i \in new \/ \E l \in 1 .. n : t(l) = i
      /\ \A x \in R : \E l \in 1 .. n : p(l) = x
      /\ \A l \in 1 .. n : t(l) \in I <=> p(l) \in R
      /\ \A l \in 1 .. n : p(l) \notin R => IsFirst(rows, N, l)
  BY DEF ArePlaced
<1>4. /\ \A l \in 1 .. n : l \in 1 .. N /\ l < k /\ l \in 1 .. k /\ l # k
      /\ \A l \in 1 .. k : l \in 1 .. n \/ l = k
      /\ k \in 1 .. N /\ k \in 1 .. k
  BY <1>1
<1> HIDE DEF k, p, t
<1>5. \A l \in 1 .. n : t(l) # t(k) /\ p(l) # p(k)
  <2> TAKE l \in 1 .. n
  <2>1. l \in 1 .. N /\ l < k /\ l # k /\ k \in 1 .. N
    BY <1>4
  <2>2. t(l) < t(k) /\ t(l) \in Int /\ t(k) \in Int
    BY <1>1, <1>2, <2>1
  <2> QED BY <1>2, <2>1, <2>2
<1>6. t(k) \notin I /\ p(k) \notin R
  BY <1>1, <1>3, <1>4, <1>5
<1>7. ASSUME IsFirst(rows, N, k) PROVE ArePlaced(I, R, k, rows, N, new)
  <2>1. \A i \in I : i \in new \/ \E l \in 1 .. k : t(l) = i
    BY <1>3, <1>4
  <2>2. \A x \in R : \E l \in 1 .. k : p(l) = x
    BY <1>3, <1>4
  <2>3. \A l \in 1 .. k : t(l) \in I <=> p(l) \in R
    BY <1>3, <1>4, <1>6
  <2>4. \A l \in 1 .. k : p(l) \notin R => IsFirst(rows, N, l)
    BY <1>3, <1>4, <1>7
  <2> QED BY <1>3, <2>1, <2>2, <2>3, <2>4 DEF ArePlaced, p, t
<1>8. ArePlaced(I \union {t(k)}, R \union {p(k)}, k, rows, N, new)
  <2> DEFINE J == I \union {t(k)}
             S == R \union {p(k)}
  <2>1. \A i \in J : i \in new \/ \E l \in 1 .. k : t(l) = i
    BY <1>3, <1>4
  <2>2. \A x \in S : \E l \in 1 .. k : p(l) = x
    BY <1>3, <1>4
  <2>3. \A l \in 1 .. k : t(l) \in J <=> p(l) \in S
    BY <1>3, <1>4, <1>5
  <2>4. \A l \in 1 .. k : p(l) \notin S => IsFirst(rows, N, l)
    BY <1>3, <1>4
  <2>5. \A i \in new : i \in J
    BY <1>3
  <2> HIDE DEF J, S
  <2>6. ArePlaced(J, S, k, rows, N, new)
    BY <2>1, <2>2, <2>3, <2>4, <2>5 DEF ArePlaced, p, t
  <2> QED BY <2>6 DEF J, S
<1> QED BY <1>7, <1>8 DEF k, p, t

\* The moves are those of rows removed, in the order of the results.
AreRowMoves(moves, R, n, rows) ==
  /\ moves \in MoveList
  /\ FromOnce(moves)
  /\ \A k \in 1 .. Len(moves) :
       \E l \in 1 .. n : /\ moves[k] = [from |-> rows[l].prev_tv_index, to |-> rows[l].tv_index]
                         /\ rows[l].prev_tv_index \in R

PlaceInv(s, n, rows, N, new) ==
  /\ s \in PlaceState
  /\ ArePlaced(s.insertions, s.removed, n, rows, N, new)
  /\ \/ s.expected = 0
     \/ \E l \in 1 .. n : /\ IsFirst(rows, N, l)
                          /\ s.expected = rows[l].shifted_tv_index + 1
  /\ AreRowMoves(s.moves, s.removed, n, rows)

\* The moves are still of rows removed when one more row is, or is not, moved.
LEMMA OneMoreRowMove ==
  ASSUME NEW rows, NEW N, NEW G, NEW new, NEW np, NEW nq, NEW candidates,
         AreTableRows(rows, N, G, new, np, nq, candidates),
         NEW n \in Nat, n + 1 \in 1 .. N, NEW R, NEW moves, AreRowMoves(moves, R, n, rows),
         NEW m, m = [from |-> rows[n + 1].prev_tv_index, to |-> rows[n + 1].tv_index]
  PROVE  /\ AreRowMoves(moves, R, n + 1, rows)
         /\ AreRowMoves(Append(moves, m), R \union {rows[n + 1].prev_tv_index}, n + 1, rows)
<1> DEFINE L == Len(moves)
           all == Append(moves, m)
           S == R \union {rows[n + 1].prev_tv_index}
<1>1. /\ N \in Nat
      /\ \A i \in 1 .. N : rows[i].tv_index \in Nat /\ rows[i].prev_tv_index \in Nat
      /\ \A i, j \in 1 .. N : rows[i].prev_tv_index = rows[j].prev_tv_index => i = j
  BY DEF AreTableRows, Rest
<1>2. m \in [from : Nat, to : Nat] /\ m.from = rows[n + 1].prev_tv_index
  BY <1>1
<1>3. L \in Nat /\ moves \in MoveList /\ FromOnce(moves)
  BY LenProperties DEF AreRowMoves, MoveList
<1>4. /\ all \in MoveList /\ Len(all) = L + 1
      /\ \A k \in 1 .. L : all[k] = moves[k]
      /\ all[L + 1] = m
  BY <1>2, <1>3, AppendProperties DEF MoveList
<1>5. \A k \in 1 .. L :
        \E l \in 1 .. n : /\ moves[k] = [from |-> rows[l].prev_tv_index, to |-> rows[l].tv_index]
                          /\ rows[l].prev_tv_index \in R
  BY DEF AreRowMoves
<1>6. \A l \in 1 .. n : l \in 1 .. n + 1 /\ l \in 1 .. N /\ l # n + 1
  BY <1>1
<1>7. AreRowMoves(moves, R, n + 1, rows)
  BY <1>3, <1>5, <1>6 DEF AreRowMoves
<1> HIDE DEF all, L
<1>8. \A k \in 1 .. L + 1 : k \in 1 .. L \/ k = L + 1
  BY <1>3
<1>9. \A k \in 1 .. L : all[k].from # m.from
  <2> TAKE k \in 1 .. L
  <2>1. PICK l \in 1 .. n : moves[k] = [from |-> rows[l].prev_tv_index, to |-> rows[l].tv_index]
    BY <1>5
  <2>2. all[k].from = rows[l].prev_tv_index
    BY <1>4, <2>1
  <2> QED BY <1>1, <1>2, <1>6, <2>2
<1>10. FromOnce(all)
  <2> SUFFICES ASSUME NEW k \in 1 .. L + 1, NEW l \in 1 .. L + 1, all[k].from = all[l].from
               PROVE  k = l
    BY <1>4 DEF FromOnce
  <2>1. CASE k \in 1 .. L /\ l \in 1 .. L
    BY <1>3, <1>4, <2>1 DEF FromOnce, L
  <2>2. CASE k = L + 1 \/ l = L + 1
    BY <1>4, <1>8, <1>9, <2>2
  <2> QED BY <1>8, <2>1, <2>2
<1>11. \A k \in 1 .. L + 1 :
         \E l \in 1 .. n + 1 : /\ all[k] = [from |-> rows[l].prev_tv_index, to |-> rows[l].tv_index]
                               /\ rows[l].prev_tv_index \in S
  <2> TAKE k \in 1 .. L + 1
  <2>1. CASE k \in 1 .. L
    <3>1. PICK l \in 1 .. n : /\ moves[k] = [from |-> rows[l].prev_tv_index, to |-> rows[l].tv_index]
                              /\ rows[l].prev_tv_index \in R
      BY <1>5, <2>1
    <3>2. l \in 1 .. n + 1 /\ rows[l].prev_tv_index \in S
      BY <1>6, <3>1
    <3>3. all[k] = [from |-> rows[l].prev_tv_index, to |-> rows[l].tv_index]
      BY <1>4, <2>1, <3>1
    <3> QED BY <3>2, <3>3
  <2>2. CASE k = L + 1
    <3>1. n + 1 \in 1 .. n + 1 /\ rows[n + 1].prev_tv_index \in S
      OBVIOUS
    <3>2. all[k] = [from |-> rows[n + 1].prev_tv_index, to |-> rows[n + 1].tv_index]
      BY <1>4, <2>2
    <3> QED BY <3>1, <3>2
  <2> QED BY <1>8, <2>1, <2>2
<1> HIDE DEF S
<1>12. AreRowMoves(all, S, n + 1, rows)
  BY <1>4, <1>10, <1>11 DEF AreRowMoves
<1> QED BY <1>7, <1>12 DEF all, S

\* Placing one more row keeps the placed rows explained.
LEMMA PlaceKeeps ==
  ASSUME NEW rows, NEW N, NEW G, NEW new, NEW np, NEW nq, NEW candidates,
         AreTableRows(rows, N, G, new, np, nq, candidates),
         NEW n \in Nat, n + 1 \in 1 .. N, NEW s, PlaceInv(s, n, rows, N, new),
         NEW r, r = place_row(candidates, s, rows[n + 1])
  PROVE  PlaceInv(r, n + 1, rows, N, new)
<1> DEFINE row == rows[n + 1]
           I == s.insertions
           R == s.removed
           calc == unshift(I, row.tv_index) + count(R, 0, row.prev_tv_index)
<1>1. /\ s \in PlaceState
      /\ ArePlaced(I, R, n, rows, N, new)
      /\ \/ s.expected = 0
         \/ \E l \in 1 .. n : IsFirst(rows, N, l) /\ s.expected = rows[l].shifted_tv_index + 1
      /\ AreRowMoves(s.moves, R, n, rows)
  BY DEF PlaceInv
<1>2. I \in SUBSET Nat /\ R \in SUBSET Nat /\ s.expected \in Nat
  BY <1>1 DEF PlaceState
<1>3. row.tv_index \in Nat /\ row.prev_tv_index \in Nat /\ row.shifted_tv_index \in Nat
  <2>1. row.tv_index \in Nat /\ row.prev_tv_index \in Nat
        /\ row.shifted_tv_index = unshift(G, row.prev_tv_index) /\ \A x \in G : x \in Nat
    BY DEF AreTableRows, Rest, AreRows
  <2> QED BY <2>1, UnshiftType
<1>4. r = IF row.shifted_tv_index = s.expected
            THEN [s EXCEPT !.expected = @ + 1]
          ELSE IF row.row_index \notin candidates \/ row.shifted_tv_index = calc
            THEN [s EXCEPT !.expected = row.shifted_tv_index + 1]
          ELSE [s EXCEPT
                 !.moves = Append(@, [from |-> row.prev_tv_index, to |-> row.tv_index]),
                 !.insertions = @ \union {row.tv_index},
                 !.removed = @ \union {row.prev_tv_index}]
  BY DEF place_row
<1>5. ASSUME IsFirst(rows, N, n + 1), r = [s EXCEPT !.expected = row.shifted_tv_index + 1]
      PROVE  PlaceInv(r, n + 1, rows, N, new)
  <2>1. /\ r \in PlaceState /\ r.insertions = I /\ r.removed = R /\ r.moves = s.moves
        /\ r.expected = row.shifted_tv_index + 1
    BY <1>1, <1>3, <1>5 DEF PlaceState
  <2>2. ArePlaced(I, R, n + 1, rows, N, new)
    BY <1>1, <1>5, OneMorePlaced
  <2>3. AreRowMoves(s.moves, R, n + 1, rows)
    BY <1>1, OneMoreRowMove
  <2>4. n + 1 \in 1 .. n + 1
    OBVIOUS
  <2> QED BY <1>5, <2>1, <2>2, <2>3, <2>4 DEF PlaceInv
<1>6. CASE row.shifted_tv_index = s.expected
  <2>1. r = [s EXCEPT !.expected = row.shifted_tv_index + 1]
    BY <1>4, <1>6
  <2>2. n + 1 \in Int /\ (n + 1) - 1 = n
    OBVIOUS
  <2>3. \/ row.shifted_tv_index = 0
        \/ \E l \in 1 .. (n + 1) - 1 : /\ IsFirst(rows, N, l)
                                       /\ row.shifted_tv_index = rows[l].shifted_tv_index + 1
    BY <1>1, <1>6, <2>2
  <2>4. IsFirst(rows, N, n + 1)
    BY <2>3, ExpectedIsFirst
  <2> QED BY <1>5, <2>1, <2>4
<1>7. CASE row.shifted_tv_index # s.expected
           /\ (row.row_index \notin candidates \/ row.shifted_tv_index = calc)
  <2>1. r = [s EXCEPT !.expected = row.shifted_tv_index + 1]
    BY <1>4, <1>7
  <2>2. IsFirst(rows, N, n + 1)
    <3>1. CASE row.row_index \notin candidates
      BY <3>1, UnmovedIsFirst
    <3>2. CASE row.shifted_tv_index = calc
      <4> HIDE DEF I, R
      <4> QED BY <1>1, <1>2, <3>2, ExplainedIsFirst
    <3> QED BY <1>7, <3>1, <3>2
  <2> QED BY <1>5, <2>1, <2>2
<1>8. CASE row.shifted_tv_index # s.expected
           /\ ~ (row.row_index \notin candidates \/ row.shifted_tv_index = calc)
  <2> DEFINE m == [from |-> row.prev_tv_index, to |-> row.tv_index]
             J == I \union {row.tv_index}
             S == R \union {row.prev_tv_index}
  <2>1. AreRowMoves(Append(s.moves, m), S, n + 1, rows)
    <3> HIDE DEF R
    <3> QED BY <1>1, OneMoreRowMove
  <2>2. ArePlaced(J, S, n + 1, rows, N, new)
    <3> HIDE DEF I, R
    <3> QED BY <1>1, OneMorePlaced
  <2>3. r = [s EXCEPT !.moves = Append(@, m), !.insertions = J, !.removed = S]
    BY <1>4, <1>8
  <2>4. J \in SUBSET Nat /\ S \in SUBSET Nat /\ Append(s.moves, m) \in MoveList
    BY <1>2, <1>3, <2>1 DEF AreRowMoves
  <2> HIDE DEF J, S, m
  <2>5. /\ r \in PlaceState /\ r.insertions = J /\ r.removed = S
        /\ r.moves = Append(s.moves, m) /\ r.expected = s.expected
    BY <1>1, <2>3, <2>4 DEF PlaceState
  <2>6. \A l \in 1 .. n : l \in 1 .. n + 1
    OBVIOUS
  <2>7. \/ s.expected = 0
        \/ \E l \in 1 .. n + 1 : IsFirst(rows, N, l) /\ s.expected = rows[l].shifted_tv_index + 1
    BY <1>1, <2>6
  <2> QED BY <2>1, <2>2, <2>5, <2>7 DEF PlaceInv
<1> QED BY <1>6, <1>7, <1>8

\* The length of a list of n.
LEMMA ListLength ==
  ASSUME NEW n \in Nat, NEW f, f = [k \in 1 .. n |-> f[k]]
  PROVE  Len(f) = n
<1> DEFINE S == {f[k] : k \in 1 .. n}
<1>1. \A k \in 1 .. n : f[k] \in S
  OBVIOUS
<1> HIDE DEF S
<1>2. f \in [1 .. n -> S]
  BY <1>1
<1>3. f \in Seq(S)
  BY <1>2, SeqDef
<1>4. Len(f) \in Nat /\ DOMAIN f = 1 .. Len(f)
  BY <1>3, LenProperties
<1> QED BY <1>2, <1>4

\* d is c with what s found.
IsPlacement(d, c, s) ==
  d = [c EXCEPT !.moves = s.moves,
                !.insertions = s.insertions,
                !.deletions = @ \union s.removed]

\* calculate_moves_unsorted places all of the shared rows.
LEMMA RowsPlaced ==
  ASSUME NEW rows, NEW N, NEW G, NEW new, NEW np, NEW nq, NEW candidates,
         AreTableRows(rows, N, G, new, np, nq, candidates), rows = [k \in 1 .. N |-> rows[k]],
         NEW c, c.moves = <<>>, c.insertions = new,
         NEW d, d = calculate_moves_unsorted(rows, {}, candidates, c)
  PROVE  \E s : /\ PlaceInv(s, N, rows, N, new)
                /\ IsPlacement(d, c, s)
<1> DEFINE L == Len(rows)
           base == [expected |-> 0, moves |-> c.moves, insertions |-> c.insertions, removed |-> {}]
           step(s, n) == place_row(candidates, s, rows[n])
           body(f) == [n \in 0 .. L |-> IF n = 0 THEN base ELSE step(f[n - 1], n)]
           round == CHOOSE f : f = body(f)
           S == PlaceState
           G1 == [v \in S \X Nat |-> IF step(v[1], v[2]) \in S THEN step(v[1], v[2]) ELSE base]
           P == [n \in 0 .. N |-> {s \in S : PlaceInv(s, n, rows, N, new)}]
<1>1. d = [c EXCEPT !.moves = round[L].moves, !.insertions = round[L].insertions,
                    !.deletions = @ \union round[L].removed]
  BY Zenon DEF calculate_moves_unsorted
<1>2. N \in Nat /\ AreRows(new, nq) /\ nq \in Nat
  BY DEF AreTableRows
<1>3. L = N
  BY <1>2, ListLength
<1>4. base \in S /\ PlaceInv(base, 0, rows, N, new)
  <2>1. <<>> \in MoveList /\ Len(<<>>) = 0 /\ 1 .. 0 = {}
    BY EmptySeq DEF MoveList
  <2>2. new \in SUBSET Nat
    BY <1>2 DEF AreRows
  <2>3. base \in S
    BY <2>1, <2>2 DEF PlaceState
  <2>4. base.expected = 0 /\ base.moves = <<>> /\ base.insertions = new /\ base.removed = {}
    OBVIOUS
  <2> HIDE DEF base
  <2>5. ArePlaced(new, {}, 0, rows, N, new)
    BY <2>1 DEF ArePlaced
  <2>6. AreRowMoves(<<>>, {}, 0, rows)
    BY <2>1 DEF AreRowMoves, FromOnce
  <2> QED BY <2>3, <2>4, <2>5, <2>6 DEF PlaceInv
<1>5. ASSUME NEW n \in 1 .. N, NEW s, PlaceInv(s, n - 1, rows, N, new)
      PROVE  step(s, n) \in S /\ PlaceInv(step(s, n), n, rows, N, new)
  <2> DEFINE i == n - 1
  <2>1. i + 1 = n /\ i \in Nat /\ i + 1 \in 1 .. N
    BY <1>2
  <2>2. PlaceInv(s, i, rows, N, new)
    BY <1>5
  <2> HIDE DEF i
  <2>3. PlaceInv(place_row(candidates, s, rows[i + 1]), i + 1, rows, N, new)
    BY <2>1, <2>2, PlaceKeeps
  <2>4. PlaceInv(step(s, n), n, rows, N, new)
    BY <2>1, <2>3
  <2> HIDE DEF step
  <2> QED BY <2>4 DEF PlaceInv
<1> HIDE DEF base, step, S
<1>6. G1 \in [S \X Nat -> S]
  BY <1>4
<1>7. ASSUME NEW n \in 1 .. N, NEW s \in P[n - 1]
      PROVE  s \in S /\ PlaceInv(s, n - 1, rows, N, new) /\ G1[<<s, n>>] = step(s, n)
             /\ G1[<<s, n>>] \in P[n]
  <2>1. n - 1 \in 0 .. N /\ n \in 0 .. N /\ n \in Nat
    BY <1>2
  <2>2. s \in S /\ PlaceInv(s, n - 1, rows, N, new)
    BY <2>1
  <2>3. step(s, n) \in S /\ PlaceInv(step(s, n), n, rows, N, new)
    BY <1>5, <2>2
  <2>4. <<s, n>> \in S \X Nat
    BY <2>1, <2>2
  <2>5. G1[<<s, n>>] = step(s, n)
    BY <2>3, <2>4
  <2> QED BY <2>1, <2>2, <2>3, <2>5
<1>8. base \in P[0]
  BY <1>2, <1>4
<1>9. \A n \in 0 .. N : P[n] \subseteq S
  OBVIOUS
<1> HIDE DEF G1
<1>10. PICK f \in [0 .. N -> S] : Stays(f, P, N) /\ IsIteration(f, base, G1, N)
  <2> HIDE DEF P
  <2> QED BY <1>2, <1>6, <1>7, <1>8, <1>9, StepsExist
<1>11. f = body(f)
  <2>1. ASSUME NEW n \in 0 .. N
        PROVE  f[n] = IF n = 0 THEN base ELSE step(f[n - 1], n)
    <3>1. CASE n = 0
      BY <1>10, <3>1 DEF IsIteration
    <3>2. CASE n # 0
      <4>1. n \in 1 .. N /\ n - 1 \in 0 .. N
        BY <1>2, <3>2
      <4>2. f[n - 1] \in P[n - 1] /\ f[n] = G1[<<f[n - 1], n>>]
        <5> HIDE DEF P
        <5> QED BY <1>10, <4>1 DEF IsIteration, Stays
      <4> HIDE DEF P
      <4> QED BY <1>7, <3>2, <4>1, <4>2
    <3> QED BY <3>1, <3>2
  <2> HIDE DEF L
  <2> QED BY <1>3, <2>1
<1>12. round = body(round)
  <2> HIDE DEF body
  <2> QED BY <1>11, Zenon
<1>13. \A n \in 0 .. N : round[n] = IF n = 0 THEN base ELSE step(round[n - 1], n)
  <2> HIDE DEF round, L
  <2> QED BY <1>3, <1>12
<1> HIDE DEF round
<1>14. Steps(round, base, G1, P, N)
  <2>1. round[0] = base
    BY <1>2, <1>13
  <2>2. ASSUME NEW n \in 1 .. N, round[n - 1] \in P[n - 1]
        PROVE  round[n] = G1[<<round[n - 1], n>>]
    <3>1. n \in 0 .. N /\ n # 0
      BY <1>2
    <3>2. round[n] = step(round[n - 1], n)
      BY <1>13, <3>1
    <3> HIDE DEF P
    <3> QED BY <1>7, <2>2, <3>2
  <2> HIDE DEF P
  <2> QED BY <2>1, <2>2 DEF Steps
<1>15. Stays(round, P, N)
  <2> HIDE DEF P
  <2> QED BY <1>2, <1>7, <1>8, <1>14, StepsStay
<1>16. round[N] \in P[N] /\ N \in 0 .. N
  <2> HIDE DEF P
  <2> QED BY <1>2, <1>15 DEF Stays
<1>17. PlaceInv(round[N], N, rows, N, new)
  BY <1>16
<1> HIDE DEF L
<1>18. d = [c EXCEPT !.moves = round[N].moves, !.insertions = round[N].insertions,
                     !.deletions = @ \union round[N].removed]
  BY <1>1, <1>3
<1>19. IsPlacement(d, c, round[N])
  BY <1>18, Zenon DEF IsPlacement
<1> QED BY <1>17, <1>19

\* A calculated change is exact, its moves are true, and it is a change set.
IsCalculatedChange(d, prev, next, np, nq, changed) ==
  /\ IsCalculated(d, prev, next, np, nq, changed)
  /\ AreTrueMoves(d.moves, prev, next, d.deletions, d.insertions)
  /\ d \in ChangeSets

\* Every old row still in the table is in the new results, no further from the
\* start, and where it was unless it is a candidate.
KeepsTable(prev, next, np, nq, candidates) ==
  \A p \in 0 .. np - 1 : prev[p + 1] # npos =>
    \E q \in 0 .. nq - 1 : /\ prev[p + 1] = next[q + 1]
                           /\ q <= p
                           /\ next[q + 1] \notin candidates => q = p

\* The shared rows of results in table order are rows of the table.
LEMMA SharedAreTableRows ==
  ASSUME NEW np \in Nat, NEW nq \in Nat, NEW prev, NEW next, AreResults(prev, next, np, nq),
         NEW candidates, KeepsTable(prev, next, np, nq, candidates),
         NEW N \in Nat, NEW rows, AreShared(rows, N, prev, next, np, nq),
         NEW new, \A x : x \in new <=> /\ x \in 0 .. nq - 1
                                       /\ \A p \in 0 .. np - 1 : prev[p + 1] # next[x + 1]
  PROVE  AreTableRows(rows, N, Gone(prev, np), new, np, nq, candidates)
<1> DEFINE G == Gone(prev, np)
           p(k) == rows[k].prev_tv_index
           t(k) == rows[k].tv_index
<1>1. /\ \A k \in 1 .. N : /\ t(k) \in 0 .. nq - 1
                           /\ p(k) \in 0 .. np - 1
                           /\ next[t(k) + 1] = rows[k].row_index
                           /\ prev[p(k) + 1] = rows[k].row_index
                           /\ rows[k].shifted_tv_index = unshift(G, p(k))
      /\ \A k, l \in 1 .. N : k < l => t(k) < t(l)
      /\ \A o \in 0 .. np - 1, q \in 0 .. nq - 1 :
           prev[o + 1] = next[q + 1] => \E k \in 1 .. N : t(k) = q /\ p(k) = o
  BY DEF AreShared
<1> HIDE DEF p, t
<1>2. AreRows(G, np) /\ AreRows(new, nq)
  BY DEF AreRows, Gone
<1>3. \A q \in 0 .. nq - 1 : next[q + 1] # npos
  <2>1. \A q \in 0 .. nq - 1 : q + 1 \in 1 .. nq
    OBVIOUS
  <2> QED BY <2>1 DEF AreResults
<1>4. ASSUME NEW k \in 1 .. N
      PROVE  t(k) \in Rest(nq, new) /\ p(k) \in Rest(np, G)
  <2>1. prev[p(k) + 1] = next[t(k) + 1] /\ t(k) \in 0 .. nq - 1 /\ p(k) \in 0 .. np - 1
    BY <1>1
  <2>2. t(k) \notin new
    BY <2>1
  <2>3. p(k) \notin G
    BY <1>3, <2>1 DEF Gone
  <2> QED BY <2>1, <2>2, <2>3 DEF Rest
<1>5. ASSUME NEW k \in 1 .. N
      PROVE  t(k) <= p(k) /\ (rows[k].row_index \notin candidates => t(k) = p(k))
  <2>1. prev[p(k) + 1] = next[t(k) + 1] /\ t(k) \in 0 .. nq - 1 /\ p(k) \in 0 .. np - 1
    BY <1>1
  <2>2. PICK q \in 0 .. nq - 1 : /\ prev[p(k) + 1] = next[q + 1]
                                 /\ q <= p(k)
                                 /\ next[q + 1] \notin candidates => q = p(k)
    BY <1>3, <2>1 DEF KeepsTable
  <2>3. next[q + 1] = next[t(k) + 1] /\ IsInjectiveList(next, nq)
    BY <2>1, <2>2 DEF AreResults
  <2> DEFINE tk == t(k)
  <2>4. tk \in 0 .. nq - 1 /\ next[q + 1] = next[tk + 1]
    BY <2>1, <2>3
  <2> HIDE DEF tk
  <2>5. q = tk
    BY <2>3, <2>4, InjectiveRows
  <2>6. q = t(k)
    BY <2>5 DEF tk
  <2>7. next[q + 1] = rows[k].row_index
    BY <1>1, <2>6
  <2> QED BY <2>2, <2>6, <2>7
<1>6. \A k, l \in 1 .. N : p(k) = p(l) => k = l
  <2> SUFFICES ASSUME NEW k \in 1 .. N, NEW l \in 1 .. N, p(k) = p(l) PROVE k = l
    OBVIOUS
  <2>1. rows[k].row_index = rows[l].row_index
    BY <1>1
  <2> QED BY <2>1, SharedOnce
<1>7. \A o \in Rest(np, G) : \E k \in 1 .. N : p(k) = o
  <2> TAKE o \in Rest(np, G)
  <2>1. o \in 0 .. np - 1 /\ prev[o + 1] # npos
    BY DEF Rest, Gone
  <2>2. PICK q \in 0 .. nq - 1 : prev[o + 1] = next[q + 1]
    BY <2>1 DEF KeepsTable
  <2> QED BY <1>1, <2>1, <2>2
<1>8. \A q \in Rest(nq, new) : \E k \in 1 .. N : t(k) = q
  <2> TAKE q \in Rest(nq, new)
  <2>1. q \in 0 .. nq - 1 /\ q \notin new
    BY DEF Rest
  <2>2. PICK o \in 0 .. np - 1 : prev[o + 1] = next[q + 1]
    BY <2>1
  <2> QED BY <1>1, <2>1, <2>2
<1> HIDE DEF G
<1>9. AreTableRows(rows, N, G, new, np, nq, candidates)
  BY <1>1, <1>2, <1>4, <1>5, <1>6, <1>7, <1>8 DEF AreTableRows, p, t
<1> QED BY <1>9 DEF G

\* Once every row has been placed the change is exact and its moves are true.
LEMMA PlacedIsExact ==
  ASSUME NEW np \in Nat, NEW nq \in Nat, NEW prev, NEW next, AreResults(prev, next, np, nq),
         NEW candidates, NEW N \in Nat, NEW rows, AreShared(rows, N, prev, next, np, nq),
         NEW new, AreTableRows(rows, N, Gone(prev, np), new, np, nq, candidates),
         NEW s, PlaceInv(s, N, rows, N, new)
  PROVE  /\ IsExactChange(prev, next, np, nq, Gone(prev, np) \union s.removed, s.insertions)
         /\ AreTrueMoves(s.moves, prev, next, Gone(prev, np) \union s.removed, s.insertions)
<1> DEFINE G == Gone(prev, np)
           I == s.insertions
           R == s.removed
           D == G \union R
           p(k) == rows[k].prev_tv_index
           t(k) == rows[k].tv_index
<1>1. \A k \in 1 .. N : /\ t(k) \in 0 .. nq - 1
                        /\ p(k) \in 0 .. np - 1
                        /\ next[t(k) + 1] = prev[p(k) + 1]
  BY DEF AreShared
<1>2. \A o \in 0 .. np - 1, q \in 0 .. nq - 1 :
        prev[o + 1] = next[q + 1] => \E k \in 1 .. N : t(k) = q /\ p(k) = o
  BY DEF AreShared
<1>3. /\ \A o \in G : o \in 0 .. np - 1
      /\ \A q \in new : q \in 0 .. nq - 1
      /\ \A k \in 1 .. N : t(k) \notin new /\ p(k) \notin G
      /\ \A k, l \in 1 .. N : k < l => t(k) < t(l)
      /\ \A o \in Rest(np, G) : \E k \in 1 .. N : p(k) = o
      /\ \A q \in Rest(nq, new) : \E k \in 1 .. N : t(k) = q
  BY DEF AreTableRows, AreRows, Rest
<1>4. /\ \A i \in new : i \in I
      /\ \A i \in I : i \in new \/ \E l \in 1 .. N : t(l) = i
      /\ \A x \in R : \E l \in 1 .. N : p(l) = x
      /\ \A l \in 1 .. N : t(l) \in I <=> p(l) \in R
      /\ \A l \in 1 .. N : p(l) \notin R => \A j \in 1 .. N : l < j => p(l) < p(j)
  BY DEF PlaceInv, ArePlaced, IsFirst
<1> HIDE DEF G, I, R, p, t
<1>5. AreRows(D, np) /\ AreRows(I, nq)
  BY <1>1, <1>3, <1>4 DEF AreRows
<1>6. \A k \in 1 .. N : (p(k) \in D <=> p(k) \in R) /\ (t(k) \in I <=> p(k) \in R)
  BY <1>3, <1>4
<1>7. ASSUME NEW q \in Rest(nq, I) PROVE \E o \in Rest(np, D) : prev[o + 1] = next[q + 1]
  <2>1. q \in Rest(nq, new) /\ q \notin I
    BY <1>4 DEF Rest
  <2>2. PICK k \in 1 .. N : t(k) = q
    BY <1>3, <2>1
  <2>3. p(k) \in Rest(np, D)
    BY <1>1, <1>6, <2>1, <2>2 DEF Rest
  <2> QED BY <1>1, <2>2, <2>3
<1>8. ASSUME NEW o \in Rest(np, D) PROVE \E q \in Rest(nq, I) : prev[o + 1] = next[q + 1]
  <2>1. o \in Rest(np, G) /\ o \notin D
    BY DEF Rest
  <2>2. PICK k \in 1 .. N : p(k) = o
    BY <1>3, <2>1
  <2>3. t(k) \in Rest(nq, I)
    BY <1>1, <1>6, <2>1, <2>2 DEF Rest
  <2> QED BY <1>1, <2>2, <2>3
<1>9. ASSUME NEW o \in Rest(np, D), NEW o1 \in Rest(np, D), NEW q \in Rest(nq, I),
             NEW q1 \in Rest(nq, I), prev[o + 1] = next[q + 1], prev[o1 + 1] = next[q1 + 1]
      PROVE  q < q1 <=> o < o1
  <2>1. /\ o \in 0 .. np - 1 /\ o1 \in 0 .. np - 1 /\ q \in 0 .. nq - 1 /\ q1 \in 0 .. nq - 1
        /\ o \notin R /\ o1 \notin R
    BY DEF Rest
  <2>2. PICK k \in 1 .. N : t(k) = q /\ p(k) = o
    BY <1>2, <1>9, <2>1
  <2>3. PICK l \in 1 .. N : t(l) = q1 /\ p(l) = o1
    BY <1>2, <1>9, <2>1
  <2>4. CASE k = l
    BY <2>1, <2>2, <2>3, <2>4
  <2>5. CASE k < l
    <3>1. t(k) < t(l) /\ p(k) < p(l)
      BY <1>3, <1>4, <2>1, <2>2, <2>5
    <3> QED BY <2>2, <2>3, <3>1
  <2>6. CASE l < k
    <3>1. t(l) < t(k) /\ p(l) < p(k)
      BY <1>3, <1>4, <2>1, <2>3, <2>6
    <3> QED BY <2>1, <2>2, <2>3, <3>1
  <2> QED BY <2>4, <2>5, <2>6
<1> HIDE DEF D
<1>10. IsExactChange(prev, next, np, nq, D, I)
  <2>1. IsExact(prev, next, np, nq, D, I)
    BY <1>7, <1>8, <1>9 DEF IsExact
  <2> QED BY <1>5, <2>1 DEF IsExactChange
<1>11. /\ s.moves \in MoveList /\ FromOnce(s.moves)
       /\ \A k \in 1 .. Len(s.moves) :
            \E l \in 1 .. N : s.moves[k] = [from |-> p(l), to |-> t(l)] /\ p(l) \in R
  BY DEF PlaceInv, AreRowMoves, p, t, R
<1>12. \A k \in 1 .. Len(s.moves) : IsTrueMove(s.moves[k], prev, next, D, I)
  <2> TAKE k \in 1 .. Len(s.moves)
  <2>1. PICK l \in 1 .. N : s.moves[k] = [from |-> p(l), to |-> t(l)] /\ p(l) \in R
    BY <1>11
  <2> DEFINE m == s.moves[k]
  <2>2. m.from = p(l) /\ m.to = t(l)
    BY <2>1
  <2> HIDE DEF m
  <2>3. IsTrueMove(m, prev, next, D, I)
    BY <1>1, <1>6, <2>1, <2>2 DEF IsTrueMove
  <2> QED BY <2>3 DEF m
<1>13. AreTrueMoves(s.moves, prev, next, D, I)
  BY <1>11, <1>12 DEF AreTrueMoves
<1> QED BY <1>10, <1>13 DEF D, G, R, I

\* For results in table order, after any log of move_last_over: taking the
\* deletions out and putting the insertions in gives the new results, every move
\* is of one row, and every modified row of both is reported (calculate, with
\* calculate_moves_unsorted).
THEOREM UnsortedIsCalculated ==
  ASSUME NEW np \in Nat, NEW nq \in Nat, NEW prev, NEW next, AreResults(prev, next, np, nq),
         NEW changed, NEW candidates, KeepsTable(prev, next, np, nq, candidates),
         NEW d, d = calculate(prev, next, changed, TRUE, candidates)
  PROVE  IsCalculatedChange(d, prev, next, np, nq, changed)
<1> DEFINE rows    == SharedRows(prev, next)
           gone    == {p - 1 : p \in {q \in DOMAIN prev : prev[q] = npos}}
           removed == {p - 1 : p \in {q \in DOMAIN prev : prev[q] # npos
                                                           /\ prev[q] \notin Range(next)}}
           new == {n - 1 : n \in {k \in DOMAIN next : next[k] \notin Range(prev)}}
           modified == {r.tv_index : r \in {q \in Range(rows) : q.row_index \in changed}}
           c == [EmptyChange EXCEPT !.deletions = gone, !.insertions = new,
                                    !.modifications = modified]
<1>1. d = calculate_moves_unsorted(rows, removed, candidates, c)
  BY Zenon DEF calculate
<1>2. PICK N \in Nat : AreShared(rows, N, prev, next, np, nq)
  BY SharedRowsAreShared
<1> HIDE DEF rows
<1>3. AreFound(gone, removed, new, modified, prev, next, np, nq, changed)
  BY <1>2, CalculateFinds
<1> HIDE DEF gone, removed, new, modified
<1>4. removed = {}
  BY <1>3 DEF AreFound, KeepsTable
<1>5. gone = Gone(prev, np)
  BY <1>3 DEF AreFound, Gone
<1>6. AreTableRows(rows, N, Gone(prev, np), new, np, nq, candidates)
  <2>1. \A x : x \in new <=> /\ x \in 0 .. nq - 1
                             /\ \A p \in 0 .. np - 1 : prev[p + 1] # next[x + 1]
    BY <1>3 DEF AreFound
  <2> QED BY <1>2, <2>1, SharedAreTableRows
<1>7. modified \in SUBSET Nat /\ gone \in SUBSET Nat
  BY <1>3, <1>5 DEF AreFound, Gone
<1>8. c \in Changes /\ c.deletions = gone /\ c.insertions = new /\ c.modifications = modified
  <2>1. gone \in SUBSET Int /\ new \in SUBSET Int /\ modified \in SUBSET Int
    BY <1>3 DEF AreFound
  <2> QED BY <2>1 DEF EmptyChange, Changes
<1> HIDE DEF c
<1>9. PICK s : /\ PlaceInv(s, N, rows, N, new)
               /\ IsPlacement(d, c, s)
  <2>1. rows = [k \in 1 .. N |-> rows[k]]
    BY <1>2 DEF AreShared
  <2>2. c.moves = <<>> /\ c.insertions = new
    BY <1>8 DEF Changes
  <2>3. d = calculate_moves_unsorted(rows, {}, candidates, c)
    BY <1>1, <1>4
  <2> QED BY <1>6, <2>1, <2>2, <2>3, RowsPlaced, Zenon
<1>10. /\ DOMAIN c = {"deletions", "insertions", "modifications", "moves", "move_mapping"}
       /\ c.move_mapping \in {<<>>}
  BY <1>8 DEF Changes
<1>11. /\ IsExactChange(prev, next, np, nq, gone \union s.removed, s.insertions)
       /\ AreTrueMoves(s.moves, prev, next, gone \union s.removed, s.insertions)
  BY <1>2, <1>5, <1>6, <1>9, PlacedIsExact
<1>12. /\ d.deletions = gone \union s.removed /\ d.insertions = s.insertions
       /\ d.modifications = modified /\ d.moves = s.moves
  BY <1>8, <1>9, <1>10 DEF IsPlacement
<1>13. d \in ChangeSets
  <2>1. s.removed \in SUBSET Nat /\ s.insertions \in SUBSET Nat /\ s.moves \in MoveList
    BY <1>9 DEF PlaceInv, PlaceState
  <2>2. gone \union s.removed \in SUBSET Nat
    BY <1>7, <2>1
  <2>3. c.deletions \union s.removed \in SUBSET Nat /\ c.modifications \in SUBSET Nat
    BY <1>7, <1>8, <2>2
  <2> QED BY <1>8, <1>9, <2>1, <2>3 DEF ChangeSets, Changes, IsPlacement
<1>14. modified = {q \in 0 .. nq - 1 : /\ next[q + 1] \in changed
                                       /\ \E p \in 0 .. np - 1 : prev[p + 1] = next[q + 1]}
  BY <1>3 DEF AreFound
<1>15. IsCalculated(d, prev, next, np, nq, changed)
  BY <1>11, <1>12, <1>14 DEF IsCalculated, IsExactChange, AreRows
<1> QED BY <1>11, <1>12, <1>13, <1>15 DEF IsCalculatedChange

\* The same for sorted results, whatever the log was.
LEMMA SortedIsCalculated ==
  ASSUME NEW np \in Nat, NEW nq \in Nat, NEW prev, NEW next, AreResults(prev, next, np, nq),
         NEW changed, NEW candidates,
         NEW d, d = calculate(prev, next, changed, FALSE, candidates)
  PROVE  IsCalculatedChange(d, prev, next, np, nq, changed)
<1>1. IsCalculated(d, prev, next, np, nq, changed)
  BY CalculateIsExact
<1> DEFINE Plain(D, I, M) == [deletions : {D}, insertions : {I}, modifications : {M},
                              moves : {<<>>}, move_mapping : {<<>>}]
<1>2. \E D, I, M : d \in Plain(D, I, M)
  <2> DEFINE rows    == SharedRows(prev, next)
             gone    == {p - 1 : p \in {q \in DOMAIN prev : prev[q] = npos}}
             removed == {p - 1 : p \in {q \in DOMAIN prev : prev[q] # npos
                                                             /\ prev[q] \notin Range(next)}}
             new == {n - 1 : n \in {k \in DOMAIN next : next[k] \notin Range(prev)}}
             modified == {r.tv_index : r \in {q \in Range(rows) : q.row_index \in changed}}
             c == [EmptyChange EXCEPT !.deletions = gone, !.insertions = new,
                                      !.modifications = modified]
             d0 == calculate_moves_sorted(rows, c)
  <2>1. d = [d0 EXCEPT !.deletions = @ \union removed]
    BY Zenon DEF calculate
  <2> HIDE DEF rows, gone, removed, new, modified
  <2>2. c \in Plain(gone, new, modified)
    BY DEF EmptyChange
  <2> HIDE DEF c
  <2>3. d0 = c \/ \E A, B : d0 = [c EXCEPT !.deletions = @ \union A, !.insertions = @ \union B]
    BY Zenon DEF calculate_moves_sorted
  <2> HIDE DEF d0
  <2>4. \E D, I, M : d0 \in Plain(D, I, M)
    <3>1. CASE d0 = c
      <4> HIDE DEF Plain
      <4> QED BY <2>2, <3>1
    <3>2. CASE \E A, B : d0 = [c EXCEPT !.deletions = @ \union A, !.insertions = @ \union B]
      <4>1. PICK A, B : d0 = [c EXCEPT !.deletions = @ \union A, !.insertions = @ \union B]
        BY <3>2
      <4>2. d0 \in Plain(gone \union A, new \union B, modified)
        BY <2>2, <4>1
      <4> HIDE DEF Plain
      <4> QED BY <4>2
    <3> QED BY <2>3, <3>1, <3>2
  <2>5. PICK D, I, M : d0 \in Plain(D, I, M)
    <3> HIDE DEF Plain
    <3> QED BY <2>4
  <2>6. d \in Plain(D \union removed, I, M)
    BY <2>1, <2>5
  <2> HIDE DEF Plain
  <2> QED BY <2>6
<1>3. PICK D, I, M : d \in Plain(D, I, M)
  <2> HIDE DEF Plain
  <2> QED BY <1>2
<1>4. <<>> \in MoveList /\ Len(<<>>) = 0 /\ 1 .. 0 = {}
  BY EmptySeq DEF MoveList
<1>5. /\ d.deletions = D /\ d.insertions = I /\ d.modifications = M
      /\ d.moves = <<>>
  BY <1>3
<1>6. D \in SUBSET Nat /\ I \in SUBSET Nat /\ M \in SUBSET Nat
  <2>1. (\A q \in D : q \in 0 .. np - 1) /\ (\A q \in I : q \in 0 .. nq - 1)
        /\ M \in SUBSET (0 .. nq - 1)
    BY <1>1, <1>5 DEF IsCalculated
  <2> QED BY <2>1
<1>7. d \in ChangeSets
  BY <1>3, <1>4, <1>6 DEF ChangeSets
<1>8. AreTrueMoves(d.moves, prev, next, d.deletions, d.insertions)
  BY <1>4, <1>5 DEF AreTrueMoves, FromOnce
<1> QED BY <1>1, <1>7, <1>8 DEF IsCalculatedChange
=============================================================================
