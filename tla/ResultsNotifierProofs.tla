------------------------ MODULE ResultsNotifierProofs ------------------------
(***************************************************************************)
(* Theorems about ResultsNotifier: whatever the transactions, the runs and  *)
(* the deliveries were, the change that waits to be delivered is true.      *)
(***************************************************************************)
EXTENDS ResultsNotifier, ChangeMergeProofs

(***************************************************************************)
(* The inductive invariant.                                                 *)
(***************************************************************************)

Ids(s) == [k \in 1 .. Len(s) |-> s[k].id]

IsTalkList(s) == s \in Seq(Talk) /\ IsInjectiveList(Ids(s), Len(s))

\* previous lists the n rows of the table, in table order if there is no sort.
AreAllRows(rows, n, unsorted) ==
  /\ rows \in [1 .. n -> 0 .. n - 1]
  /\ \A i \in 0 .. n - 1 : \E k \in 1 .. n : rows[k] = i
  /\ \A k, l \in 1 .. n : rows[k] = rows[l] => k = l
  /\ unsorted => \A k \in 1 .. n : rows[k] = k - 1

\* The table at the last run, from the results of that run.
TableOf(rows, talks) ==
  [i \in 1 .. Len(talks) |-> talks[CHOOSE k \in 1 .. Len(talks) : rows[k] = i - 1]]

\* I, D, M and mm are what the log says of how the table T, of n0 rows, became
\* the table t, of n rows: the rows outside I and D are where they were, mm has
\* where the moved ones were, all others of I are new, and M has every talk with
\* other contents.
IsLogOf(I, D, M, mm, T, n0, t, n) ==
  /\ AreRows(I, n) /\ AreRows(D, n0) /\ AreRows(M, n)
  /\ \A i \in 0 .. n - 1 : i < n0 => (i \in I <=> i \in D)
  /\ \A i \in n0 .. n - 1 : i \in I
  /\ \A i \in n .. n0 - 1 : i \in D
  /\ \A i \in 0 .. n0 - 1 : i \notin D => T[i + 1].id = t[i + 1].id
  /\ \A x \in DOMAIN mm : /\ x \in I /\ mm[x] \in D /\ x < mm[x]
                          /\ T[mm[x] + 1].id = t[x + 1].id
  /\ \A x \in I : x \notin DOMAIN mm => \A i \in 0 .. n0 - 1 : T[i + 1].id # t[x + 1].id
  /\ \A i \in 0 .. n0 - 1, j \in 0 .. n - 1 :
       T[i + 1].id = t[j + 1].id /\ T[i + 1] # t[j + 1] => j \in M

IsLog(c) ==
  c \in [deletions : {c.deletions}, insertions : {c.insertions},
         modifications : {c.modifications}, moves : {<<>>}, move_mapping : {c.move_mapping}]

IsLogged(c, T, n0, t, n) ==
  IsLogOf(c.insertions, c.deletions, c.modifications, c.move_mapping, T, n0, t, n)

IsTrueLog(c, T, n0, t, n) == IsLog(c) /\ IsLogged(c, T, n0, t, n)

\* No talk has the id of one yet to come.
AreKnown(s, n) == \A k \in 1 .. Len(s) : s[k].id <= n

IsTrueBetween(c, old, new) ==
  c \in ChangeSets /\ IsTrueOf(c, Ids(old), old, Len(old), Ids(new), new, Len(new))

\* The change that waits takes what is shown to what was seen last, and the log
\* takes the table as it was then to what it is now.
Inv ==
  /\ ops \in Nat
  /\ inTableOrder \in BOOLEAN
  /\ IsTalkList(table) /\ AreKnown(table, MaxRows + ops)
  /\ IsTalkList(seen) /\ AreKnown(seen, MaxRows + ops)
  /\ IsTalkList(shown)
  /\ AreAllRows(previous, Len(seen), inTableOrder)
  /\ IsLog(info) /\ IsLogged(info, TableOf(previous, seen), Len(seen), table, Len(table))
  /\ IsTrueBetween(accumulated, shown, seen)

(***************************************************************************)
(* The transaction log.                                                     *)
(***************************************************************************)

\* Sets that agree below an index shift it back to itself.
LEMMA ShiftBack ==
  ASSUME NEW A, NEW B, NEW n \in Nat, AreRows(A, n), \A x \in B : x \in Nat,
         NEW i \in Nat, i \notin A, \A x \in 0 .. i - 1 : x \in A <=> x \in B
  PROVE  shift(A, unshift(B, i)) = i
<1>1. {x \in A : 0 <= x /\ x < i} = {x \in B : 0 <= x /\ x < i}
  BY DEF AreRows
<1>2. unshift(B, i) = unshift(A, i)
  BY <1>1, Zenon DEF unshift, count
<1>3. 0 \in Int /\ n - 1 \in Int /\ A \subseteq 0 .. n - 1
  BY DEF AreRows
<1>4. IsFiniteSet(A)
  BY <1>3, FS_Interval, FS_Subset
<1>5. \A x \in A : x \in Nat
  BY DEF AreRows
<1> QED BY <1>2, <1>4, <1>5, ShiftUnshift

\* insert_empty_rows and the sets that fill the row.
LEMMA InsertIsLogged ==
  ASSUME NEW I, NEW D, NEW M, NEW mm, NEW T, NEW n0 \in Nat, NEW t, NEW n \in Nat,
         IsLogOf(I, D, M, mm, T, n0, t, n),
         NEW u, \A i \in 0 .. n - 1 : u[i + 1] = t[i + 1],
         \A i \in 0 .. n0 - 1 : T[i + 1].id # u[n + 1].id
  PROVE  IsLogOf(I \union {n}, D, M \union {n}, mm, T, n0, u, n + 1)
<1> USE DEF IsLogOf, AreRows
<1>1. AreRows(I \union {n}, n + 1) /\ AreRows(D, n0) /\ AreRows(M \union {n}, n + 1)
  OBVIOUS
<1>2. \A i \in 0 .. (n + 1) - 1 : i < n0 => (i \in I \union {n} <=> i \in D)
  OBVIOUS
<1>3. \A i \in n0 .. (n + 1) - 1 : i \in I \union {n}
  OBVIOUS
<1>4. \A i \in n + 1 .. n0 - 1 : i \in D
  OBVIOUS
<1>5. \A i \in 0 .. n0 - 1 : i \notin D => T[i + 1].id = u[i + 1].id
  OBVIOUS
<1>6. \A x \in DOMAIN mm : /\ x \in I \union {n} /\ mm[x] \in D /\ x < mm[x]
                           /\ T[mm[x] + 1].id = u[x + 1].id
  OBVIOUS
<1>7. \A x \in I \union {n} : x \notin DOMAIN mm =>
        \A i \in 0 .. n0 - 1 : T[i + 1].id # u[x + 1].id
  OBVIOUS
<1>8. \A i \in 0 .. n0 - 1, j \in 0 .. (n + 1) - 1 :
        T[i + 1].id = u[j + 1].id /\ T[i + 1] # u[j + 1] => j \in M \union {n}
  OBVIOUS
<1> QED BY <1>1, <1>2, <1>3, <1>4, <1>5, <1>6, <1>7, <1>8

\* A row is given another date.
LEMMA ModifyIsLogged ==
  ASSUME NEW I, NEW D, NEW M, NEW mm, NEW T, NEW n0 \in Nat, NEW t, NEW n \in Nat,
         IsLogOf(I, D, M, mm, T, n0, t, n), NEW row \in 0 .. n - 1,
         NEW u, \A i \in 0 .. n - 1 : u[i + 1].id = t[i + 1].id,
         \A i \in 0 .. n - 1 : i # row => u[i + 1] = t[i + 1]
  PROVE  IsLogOf(I, D, M \union {row}, mm, T, n0, u, n)
<1> USE DEF IsLogOf, AreRows
<1>1. AreRows(M \union {row}, n)
  OBVIOUS
<1>2. \A i \in 0 .. n0 - 1 : i \notin D => T[i + 1].id = u[i + 1].id
  OBVIOUS
<1>3. \A x \in DOMAIN mm : T[mm[x] + 1].id = u[x + 1].id
  OBVIOUS
<1>4. \A x \in I : x \notin DOMAIN mm => \A i \in 0 .. n0 - 1 : T[i + 1].id # u[x + 1].id
  OBVIOUS
<1>5. \A i \in 0 .. n0 - 1, j \in 0 .. n - 1 :
        T[i + 1].id = u[j + 1].id /\ T[i + 1] # u[j + 1] => j \in M \union {row}
  OBVIOUS
<1> QED BY <1>1, <1>2, <1>3, <1>4, <1>5

\* The last row is removed: it is where it was, or was inserted since.
LEMMA RemoveLastIsLogged ==
  ASSUME NEW I, NEW D, NEW M, NEW mm, NEW T, NEW n0 \in Nat, NEW t, NEW n \in Nat \ {0},
         IsLogOf(I, D, M, mm, T, n0, t, n),
         NEW row, row = n - 1,
         NEW u, \A i \in 0 .. row - 1 : u[i + 1] = t[i + 1],
         NEW E, E = IF row \in I THEN D ELSE D \union {shift(D, unshift(I, row))}
  PROVE  IsLogOf(I \ {row}, E, M \ {row}, Without(mm, row), T, n0, u, row)
<1> USE DEF IsLogOf, AreRows
<1>1. row \in Nat /\ row \in 0 .. n - 1
  OBVIOUS
<1>2. row \notin I => row < n0 /\ row \notin D
  BY <1>1
<1>3. row \notin I => shift(D, unshift(I, row)) = row
  <2> SUFFICES ASSUME row \notin I PROVE shift(D, unshift(I, row)) = row
    OBVIOUS
  <2>1. \A x \in 0 .. row - 1 : x \in D <=> x \in I
    BY <1>1, <1>2
  <2>2. \A x \in I : x \in Nat
    OBVIOUS
  <2> QED BY <1>1, <1>2, <2>1, <2>2, ShiftBack
<1>4. \A x : x \in E <=> x \in D \/ (row \notin I /\ x = row)
  BY <1>3
<1>5. DOMAIN Without(mm, row) = DOMAIN mm \ {row}
      /\ \A x \in DOMAIN mm \ {row} : Without(mm, row)[x] = mm[x]
  BY DEF Without
<1> DEFINE mm1 == Without(mm, row)
           J == I \ {row}
<1>6. \A x : x \in J <=> x \in I /\ x # row
  OBVIOUS
<1>7. DOMAIN mm1 = DOMAIN mm \ {row} /\ \A x \in DOMAIN mm \ {row} : mm1[x] = mm[x]
  BY <1>5
<1> HIDE DEF mm1, J
<1>8. AreRows(J, row) /\ AreRows(E, n0) /\ AreRows(M \ {row}, row)
  BY <1>1, <1>2, <1>4, <1>6
<1>9. \A i \in 0 .. row - 1 : i < n0 => (i \in J <=> i \in E)
  BY <1>1, <1>4, <1>6
<1>10. \A i \in n0 .. row - 1 : i \in J
  BY <1>1, <1>6
<1>11. \A i \in row .. n0 - 1 : i \in E
  BY <1>1, <1>4
<1>12. \A i \in 0 .. n0 - 1 : i \notin E => T[i + 1].id = u[i + 1].id
  BY <1>1, <1>4, <1>11
<1>13. \A x \in DOMAIN mm1 : /\ x \in J /\ mm1[x] \in E /\ x < mm1[x]
                             /\ T[mm1[x] + 1].id = u[x + 1].id
  BY <1>1, <1>4, <1>6, <1>7
<1>14. \A x \in J : x \notin DOMAIN mm1 => \A i \in 0 .. n0 - 1 : T[i + 1].id # u[x + 1].id
  BY <1>1, <1>6, <1>7
<1>15. \A i \in 0 .. n0 - 1, j \in 0 .. row - 1 :
         T[i + 1].id = u[j + 1].id /\ T[i + 1] # u[j + 1] => j \in M \ {row}
  BY <1>1
<1>16. IsLogOf(J, E, M \ {row}, mm1, T, n0, u, row)
  BY <1>8, <1>9, <1>10, <1>11, <1>12, <1>13, <1>14, <1>15
<1> QED BY <1>16 DEF J, mm1

\* What is recorded when the last row moves over another one.
IsMoveOver(J, D2, M2, mm2, I, D, M, mm, row, last) ==
  /\ \A x : x \in J <=> (x \in I /\ x # last) \/ x = row
  /\ \A x : x \in D2 <=> \/ x \in D
                         \/ last \notin I /\ x = last
                         \/ row \notin I /\ x = row
  /\ \A x : x \in M2 <=> (x \in M /\ x # row /\ x # last) \/ (last \in M /\ x = row)
  /\ \A x : x \in DOMAIN mm2 <=> \/ x \in DOMAIN mm /\ x # row /\ x # last
                                 \/ x = row /\ (last \in I => last \in DOMAIN mm)
  /\ row \in DOMAIN mm2 => mm2[row] = IF last \in I THEN mm[last] ELSE last
  /\ \A x \in DOMAIN mm2 : x # row => mm2[x] = mm[x]

\* move_over, by what is told of the row and of the last one before it.
LEMMA MoveOverRecorded ==
  ASSUME NEW I, NEW D, NEW M, NEW mm, NEW T, NEW n0 \in Nat, NEW t, NEW n \in Nat \ {0},
         IsLogOf(I, D, M, mm, T, n0, t, n),
         NEW last, last = n - 1, NEW row \in 0 .. last - 1,
         NEW lastOld, lastOld = shift(D, unshift(I, last)),
         NEW D1, D1 = IF last \in I THEN D ELSE D \union {lastOld},
         NEW D2, D2 = IF row \in I THEN D1 ELSE D1 \union {shift(D1, unshift(I \ {last}, row))},
         NEW M2, M2 = (M \ {row, last}) \union (IF last \in M THEN {row} ELSE {}),
         NEW mm2, mm2 = IF last \in I /\ last \in DOMAIN mm
                          THEN With(Without(mm, last), row, mm[last])
                        ELSE IF last \in I THEN Without(mm, row)
                        ELSE With(mm, row, lastOld)
  PROVE  IsMoveOver((I \ {last}) \union {row}, D2, M2, mm2, I, D, M, mm, row, last)
<1> USE DEF IsLogOf, AreRows
<1>1. last \in Nat /\ last \in 0 .. n - 1 /\ row \in Nat /\ row < last /\ row \in 0 .. n - 1
  OBVIOUS
<1>2. (last \notin I => last < n0 /\ last \notin D) /\ (row \notin I => row < n0 /\ row \notin D)
  BY <1>1
<1>3. last \notin I => lastOld = last
  <2> SUFFICES ASSUME last \notin I PROVE shift(D, unshift(I, last)) = last
    OBVIOUS
  <2>1. \A x \in 0 .. last - 1 : x \in D <=> x \in I
    BY <1>1, <1>2
  <2>2. \A x \in I : x \in Nat
    OBVIOUS
  <2> QED BY <1>1, <1>2, <2>1, <2>2, ShiftBack
<1>4. \A x : x \in D1 <=> x \in D \/ (last \notin I /\ x = last)
  BY <1>3
<1>5. AreRows(D1, n0)
  BY <1>1, <1>2, <1>4
<1> DEFINE J1 == I \ {last}
<1>6. \A x : x \in J1 <=> x \in I /\ x # last
  OBVIOUS
<1>7. row \notin I => shift(D1, unshift(J1, row)) = row
  <2> SUFFICES ASSUME row \notin I PROVE shift(D1, unshift(J1, row)) = row
    OBVIOUS
  <2> HIDE DEF J1
  <2>1. \A x \in 0 .. row - 1 : x \in D1 <=> x \in J1
    BY <1>1, <1>2, <1>4, <1>6
  <2>2. \A x \in J1 : x \in Nat
    BY <1>6
  <2>3. row \notin D1
    BY <1>1, <1>2, <1>4
  <2> QED BY <1>1, <1>5, <2>1, <2>2, <2>3, ShiftBack
<1>8. \A x : x \in D2 <=> x \in D1 \/ (row \notin I /\ x = row)
  BY <1>7
<1> HIDE DEF J1
<1>9. \A x : x \in D2 <=> \/ x \in D
                          \/ last \notin I /\ x = last
                          \/ row \notin I /\ x = row
  BY <1>4, <1>8
<1> DEFINE J == (I \ {last}) \union {row}
<1>10. \A x : x \in J <=> (x \in I /\ x # last) \/ x = row
  OBVIOUS
<1>11. \A x : x \in M2 <=> (x \in M /\ x # row /\ x # last) \/ (last \in M /\ x = row)
  OBVIOUS
<1>12. /\ DOMAIN mm2 = IF last \in I /\ last \notin DOMAIN mm THEN DOMAIN mm \ {row}
                       ELSE (DOMAIN mm \ {last}) \union {row}
       /\ row \in DOMAIN mm2 => mm2[row] = IF last \in I THEN mm[last] ELSE last
       /\ \A x \in DOMAIN mm2 : x # row => mm2[x] = mm[x]
  <2>1. CASE last \in I /\ last \in DOMAIN mm
    BY <1>1, <2>1 DEF With, Without
  <2>2. CASE last \in I /\ last \notin DOMAIN mm
    BY <2>2 DEF Without
  <2>3. CASE last \notin I
    <3>1. last \notin DOMAIN mm
      BY <2>3
    <3> QED BY <1>3, <2>3, <3>1 DEF With
  <2> QED BY <2>1, <2>2, <2>3
<1>13. \A x : x \in DOMAIN mm2 <=> \/ x \in DOMAIN mm /\ x # row /\ x # last
                                   \/ x = row /\ (last \in I => last \in DOMAIN mm)
  BY <1>1, <1>12
<1>14. IsMoveOver(J, D2, M2, mm2, I, D, M, mm, row, last)
  <2> HIDE DEF J
  <2> QED BY <1>9, <1>10, <1>11, <1>12, <1>13, Zenon DEF IsMoveOver
<1> QED BY <1>14

\* The log is true after the last row has taken the place of another.
LEMMA MoveOverIsLogged ==
  ASSUME NEW I, NEW D, NEW M, NEW mm, NEW T, NEW n0 \in Nat, NEW t, NEW n \in Nat \ {0},
         IsLogOf(I, D, M, mm, T, n0, t, n),
         NEW last, last = n - 1, NEW row \in 0 .. last - 1,
         NEW u, \A i \in 0 .. last - 1 : u[i + 1] = IF i = row THEN t[last + 1] ELSE t[i + 1],
         NEW J, NEW D2, NEW M2, NEW mm2, IsMoveOver(J, D2, M2, mm2, I, D, M, mm, row, last)
  PROVE  IsLogOf(J, D2, M2, mm2, T, n0, u, last)
<1> USE DEF IsLogOf, AreRows
<1>1. last \in Nat /\ last \in 0 .. n - 1 /\ row \in Nat /\ row < last /\ row \in 0 .. n - 1
  OBVIOUS
<1>2. (last \notin I => last < n0 /\ last \notin D) /\ (row \notin I => row < n0 /\ row \notin D)
  BY <1>1
<1>3. \A x : x \in D2 <=> \/ x \in D
                          \/ last \notin I /\ x = last
                          \/ row \notin I /\ x = row
  BY DEF IsMoveOver
<1>4. \A x : x \in J <=> (x \in I /\ x # last) \/ x = row
  BY DEF IsMoveOver
<1>5. \A x : x \in M2 <=> (x \in M /\ x # row /\ x # last) \/ (last \in M /\ x = row)
  BY DEF IsMoveOver
<1>6. /\ row \in DOMAIN mm2 => mm2[row] = IF last \in I THEN mm[last] ELSE last
      /\ \A x \in DOMAIN mm2 : x # row => mm2[x] = mm[x]
  BY DEF IsMoveOver
<1>7. \A x : x \in DOMAIN mm2 <=> \/ x \in DOMAIN mm /\ x # row /\ x # last
                                  \/ x = row /\ (last \in I => last \in DOMAIN mm)
  BY DEF IsMoveOver
<1>8. AreRows(J, last) /\ AreRows(D2, n0) /\ AreRows(M2, last)
  BY <1>1, <1>2, <1>3, <1>4, <1>5
<1>9. \A i \in 0 .. last - 1 : i < n0 => (i \in J <=> i \in D2)
  BY <1>1, <1>3, <1>4
<1>10. \A i \in n0 .. last - 1 : i \in J
  BY <1>1, <1>4
<1>11. \A i \in last .. n0 - 1 : i \in D2
  BY <1>1, <1>3
<1>12. ASSUME NEW i \in 0 .. n0 - 1, i \notin D2 PROVE T[i + 1].id = u[i + 1].id
  <2>1. i \in 0 .. last - 1
    BY <1>1, <1>11, <1>12
  <2>2. i \notin D /\ i # row
    BY <1>1, <1>3, <1>4, <1>9, <1>12, <2>1
  <2> QED BY <2>1, <2>2
<1>13. ASSUME NEW x \in DOMAIN mm2
       PROVE  x \in J /\ mm2[x] \in D2 /\ x < mm2[x] /\ T[mm2[x] + 1].id = u[x + 1].id
  <2>1. CASE x # row
    <3>1. x \in DOMAIN mm /\ x # last /\ mm2[x] = mm[x]
      BY <1>6, <1>7, <2>1, Zenon
    <3>2. x \in I /\ mm[x] \in D /\ x < mm[x] /\ T[mm[x] + 1].id = t[x + 1].id
      BY <3>1
    <3>3. x \in 0 .. last - 1
      BY <1>1, <3>1, <3>2
    <3> QED BY <1>3, <1>4, <2>1, <3>1, <3>2, <3>3
  <2>2. CASE x = row /\ last \in I
    <3>1. last \in DOMAIN mm /\ mm2[x] = mm[last]
      BY <1>6, <1>7, <2>2
    <3>2. mm[last] \in D /\ last < mm[last] /\ T[mm[last] + 1].id = t[last + 1].id
      BY <3>1
    <3>3. mm[last] \in Nat /\ u[x + 1] = t[last + 1]
      BY <2>2, <3>2
    <3> QED BY <1>1, <1>3, <1>4, <2>2, <3>1, <3>2, <3>3
  <2>3. CASE x = row /\ last \notin I
    <3>1. mm2[x] = last /\ last \in D2 /\ x \in J
      BY <1>3, <1>4, <1>6, <2>3, Zenon
    <3>2. T[last + 1].id = t[last + 1].id /\ u[x + 1] = t[last + 1]
      BY <1>1, <1>2, <2>3
    <3> QED BY <1>1, <2>3, <3>1, <3>2
  <2> QED BY <2>1, <2>2, <2>3
<1>14. ASSUME NEW x \in J, x \notin DOMAIN mm2, NEW i \in 0 .. n0 - 1
       PROVE  T[i + 1].id # u[x + 1].id
  <2>1. CASE x = row
    <3>1. last \in I /\ last \notin DOMAIN mm /\ u[x + 1] = t[last + 1]
      BY <1>7, <1>14, <2>1
    <3> QED BY <3>1
  <2>2. CASE x # row
    <3>1. x \in I /\ x # last /\ x \notin DOMAIN mm
      BY <1>4, <1>7, <1>14, <2>2, Zenon
    <3>2. u[x + 1] = t[x + 1]
      BY <1>1, <2>2, <3>1
    <3> QED BY <3>1, <3>2
  <2> QED BY <2>1, <2>2
<1>15. ASSUME NEW i \in 0 .. n0 - 1, NEW j \in 0 .. last - 1,
              T[i + 1].id = u[j + 1].id, T[i + 1] # u[j + 1]
       PROVE  j \in M2
  <2>1. CASE j = row
    <3>1. u[j + 1] = t[last + 1]
      BY <2>1
    <3>2. last \in M
      BY <1>1, <1>15, <3>1
    <3> QED BY <1>5, <2>1, <3>2
  <2>2. CASE j # row
    <3>1. u[j + 1] = t[j + 1] /\ j \in 0 .. n - 1 /\ j # last
      BY <1>1, <2>2
    <3>2. j \in M
      BY <1>15, <3>1
    <3> QED BY <1>5, <2>2, <3>1, <3>2
  <2> QED BY <2>1, <2>2
<1> QED BY <1>8, <1>9, <1>10, <1>11, <1>12, <1>13, <1>14, <1>15

\* d is the log c with other contents.
IsRewritten(d, c, I, D, M, mm) ==
  d = [c EXCEPT !.insertions = I, !.deletions = D, !.modifications = M, !.move_mapping = mm]

\* The fields of a log, and of the log after one more instruction.
LEMMA LogFields ==
  ASSUME NEW c, IsLog(c), NEW I, NEW D, NEW M, NEW mm,
         NEW d, IsRewritten(d, c, I, D, M, mm)
  PROVE  /\ IsLog(d)
         /\ d.insertions = I /\ d.deletions = D /\ d.modifications = M /\ d.move_mapping = mm
<1>1. c \in [deletions : {c.deletions}, insertions : {c.insertions},
             modifications : {c.modifications}, moves : {<<>>}, move_mapping : {c.move_mapping}]
  BY DEF IsLog
<1>2. d \in [deletions : {D}, insertions : {I}, modifications : {M}, moves : {<<>>},
             move_mapping : {mm}]
  BY <1>1 DEF IsRewritten
<1>3. d.insertions = I /\ d.deletions = D /\ d.modifications = M /\ d.move_mapping = mm
  BY <1>2
<1>4. IsLog(d)
  BY <1>2, <1>3, Zenon DEF IsLog
<1> QED BY <1>3, <1>4

\* The empty change is a log.
LEMMA EmptyIsLog == IsLog(EmptyChange)
BY DEF IsLog, EmptyChange

\* What insert and modify change of a log.
LEMMA LogAfterInsert ==
  ASSUME NEW c, IsLog(c), NEW n, NEW d, d = modify(insert(c, n), n)
  PROVE  /\ IsLog(d) /\ d.insertions = c.insertions \union {n} /\ d.deletions = c.deletions
         /\ d.modifications = c.modifications \union {n} /\ d.move_mapping = c.move_mapping
<1>1. IsRewritten(d, c, c.insertions \union {n}, c.deletions, c.modifications \union {n},
                  c.move_mapping)
  BY DEF modify, insert, IsLog, IsRewritten
<1> QED BY <1>1, LogFields

\* What modify changes of a log.
LEMMA LogAfterModify ==
  ASSUME NEW c, IsLog(c), NEW row, NEW d, d = modify(c, row)
  PROVE  /\ IsLog(d) /\ d.insertions = c.insertions /\ d.deletions = c.deletions
         /\ d.modifications = c.modifications \union {row} /\ d.move_mapping = c.move_mapping
<1>1. IsRewritten(d, c, c.insertions, c.deletions, c.modifications \union {row}, c.move_mapping)
  BY DEF modify, IsLog, IsRewritten
<1> QED BY <1>1, LogFields

IsAfterRemove(d, c, row) ==
  /\ IsLog(d) /\ d.insertions = c.insertions \ {row}
  /\ d.deletions = IF row \in c.insertions THEN c.deletions
                   ELSE c.deletions \union {shift(c.deletions, unshift(c.insertions, row))}
  /\ d.modifications = c.modifications \ {row}
  /\ d.move_mapping = Without(c.move_mapping, row)

\* What move_over of the last row changes of a log.
LEMMA LogAfterRemove ==
  ASSUME NEW c, IsLog(c), NEW row, NEW d, d = move_over_last(c, row)
  PROVE  IsAfterRemove(d, c, row)
<1> DEFINE I == c.insertions \ {row}
           D == IF row \in c.insertions THEN c.deletions
                ELSE c.deletions \union {shift(c.deletions, unshift(c.insertions, row))}
           M == c.modifications \ {row}
           mm == Without(c.move_mapping, row)
<1>1. IsRewritten(d, c, I, D, M, mm)
  <2>1. d = [c EXCEPT
              !.insertions = @ \ {row},
              !.deletions = IF row \in c.insertions THEN @
                            ELSE @ \union {shift(@, unshift(c.insertions, row))},
              !.modifications = @ \ {row},
              !.move_mapping = Without(@, row)]
    BY DEF move_over_last
  <2> QED BY <2>1, Zenon DEF IsRewritten
<1> HIDE DEF I, D, M, mm
<1>2. /\ IsLog(d)
      /\ d.insertions = I /\ d.deletions = D /\ d.modifications = M /\ d.move_mapping = mm
  BY <1>1, LogFields
<1> QED BY <1>2, Zenon DEF IsAfterRemove, I, D, M, mm

IsAfterMove(d, c, row, last, lastOld, D1, D2, M2, mm2) ==
  /\ lastOld = shift(c.deletions, unshift(c.insertions, last))
  /\ D1 = IF last \in c.insertions THEN c.deletions ELSE c.deletions \union {lastOld}
  /\ D2 = IF row \in c.insertions THEN D1
          ELSE D1 \union {shift(D1, unshift(c.insertions \ {last}, row))}
  /\ M2 = (c.modifications \ {row, last}) \union (IF last \in c.modifications THEN {row} ELSE {})
  /\ mm2 = IF last \in c.insertions /\ last \in DOMAIN c.move_mapping
             THEN With(Without(c.move_mapping, last), row, c.move_mapping[last])
           ELSE IF last \in c.insertions THEN Without(c.move_mapping, row)
           ELSE With(c.move_mapping, row, lastOld)
  /\ IsLog(d) /\ d.insertions = (c.insertions \ {last}) \union {row}
  /\ d.deletions = D2 /\ d.modifications = M2 /\ d.move_mapping = mm2

\* What move_over of another row changes of a log.
LEMMA LogAfterMove ==
  ASSUME NEW c, IsLog(c), NEW row, NEW last, NEW d, d = move_over_other(c, row, last)
  PROVE  \E lastOld, D1, D2, M2, mm2 : IsAfterMove(d, c, row, last, lastOld, D1, D2, M2, mm2)
<1> DEFINE J == (c.insertions \ {last}) \union {row}
           lastOld == shift(c.deletions, unshift(c.insertions, last))
           D1 == IF last \in c.insertions THEN c.deletions ELSE c.deletions \union {lastOld}
           D2 == IF row \in c.insertions THEN D1
                 ELSE D1 \union {shift(D1, unshift(c.insertions \ {last}, row))}
           M2 == (c.modifications \ {row, last})
                   \union (IF last \in c.modifications THEN {row} ELSE {})
           mm2 == IF last \in c.insertions /\ last \in DOMAIN c.move_mapping
                    THEN With(Without(c.move_mapping, last), row, c.move_mapping[last])
                  ELSE IF last \in c.insertions THEN Without(c.move_mapping, row)
                  ELSE With(c.move_mapping, row, lastOld)
<1>1. IsRewritten(d, c, J, D2, M2, mm2)
  BY Zenon DEF move_over_other, IsRewritten
<1>2. /\ IsLog(d)
      /\ d.insertions = J /\ d.deletions = D2 /\ d.modifications = M2 /\ d.move_mapping = mm2
  <2> HIDE DEF J, D2, M2, mm2
  <2> QED BY <1>1, LogFields
<1>3. IsAfterMove(d, c, row, last, lastOld, D1, D2, M2, mm2)
  BY <1>2, Zenon DEF IsAfterMove
<1> HIDE DEF lastOld, D1, D2, M2, mm2
<1> QED BY <1>3

\* move_last_over keeps the log true.
LEMMA DeleteIsLogged ==
  ASSUME NEW c, IsLog(c), NEW T, NEW n0 \in Nat, NEW t, NEW n \in Nat \ {0},
         IsLogged(c, T, n0, t, n), NEW last, last = n - 1, NEW row \in 0 .. last,
         NEW u, \A i \in 0 .. last - 1 : u[i + 1] = IF i = row THEN t[last + 1] ELSE t[i + 1],
         NEW d, d = move_over(c, row, last)
  PROVE  IsTrueLog(d, T, n0, u, last)
<1> DEFINE I == c.insertions
           D == c.deletions
           M == c.modifications
           mm == c.move_mapping
<1>1. IsLogOf(I, D, M, mm, T, n0, t, n)
  BY DEF IsLogged
<1>2. CASE row = last
  <2> DEFINE E == IF row \in I THEN D ELSE D \union {shift(D, unshift(I, row))}
  <2>1. d = move_over_last(c, row)
    BY <1>2 DEF move_over
  <2>2. /\ IsLog(d) /\ d.insertions = I \ {row} /\ d.deletions = E
        /\ d.modifications = M \ {row} /\ d.move_mapping = Without(mm, row)
    <3>1. IsAfterRemove(d, c, row)
      BY <2>1, LogAfterRemove
    <3> QED BY <3>1, Zenon DEF IsAfterRemove
  <2>3. \A i \in 0 .. row - 1 : u[i + 1] = t[i + 1]
    BY <1>2
  <2> HIDE DEF I, D, M, mm
  <2>4. IsLogOf(I \ {row}, E, M \ {row}, Without(mm, row), T, n0, u, row)
    BY <1>1, <1>2, <2>3, RemoveLastIsLogged
  <2> HIDE DEF E
  <2> QED BY <1>2, <2>2, <2>4 DEF IsLogged, IsTrueLog
<1>3. CASE row # last
  <2>1. d = move_over_other(c, row, last)
    BY <1>3 DEF move_over
  <2>2. PICK lastOld, D1, D2, M2, mm2 : IsAfterMove(d, c, row, last, lastOld, D1, D2, M2, mm2)
    BY <2>1, LogAfterMove
  <2>3. row \in 0 .. last - 1
    BY <1>3
  <2>4. IsMoveOver((I \ {last}) \union {row}, D2, M2, mm2, I, D, M, mm, row, last)
    <3>1. lastOld = shift(D, unshift(I, last))
      BY <2>2, Zenon DEF IsAfterMove
    <3>2. D1 = IF last \in I THEN D ELSE D \union {lastOld}
      BY <2>2, Zenon DEF IsAfterMove
    <3>3. D2 = IF row \in I THEN D1 ELSE D1 \union {shift(D1, unshift(I \ {last}, row))}
      BY <2>2, Zenon DEF IsAfterMove
    <3>4. M2 = (M \ {row, last}) \union (IF last \in M THEN {row} ELSE {})
      BY <2>2, Zenon DEF IsAfterMove
    <3>5. mm2 = IF last \in I /\ last \in DOMAIN mm
                  THEN With(Without(mm, last), row, mm[last])
                ELSE IF last \in I THEN Without(mm, row)
                ELSE With(mm, row, lastOld)
      BY <2>2, Zenon DEF IsAfterMove
    <3> HIDE DEF I, D, M, mm
    <3> QED BY <1>1, <2>3, <3>1, <3>2, <3>3, <3>4, <3>5, MoveOverRecorded
  <2> DEFINE J == (I \ {last}) \union {row}
  <2>5. IsMoveOver(J, D2, M2, mm2, I, D, M, mm, row, last)
    BY <2>4
  <2>6. /\ IsLog(d) /\ d.insertions = J
        /\ d.deletions = D2 /\ d.modifications = M2 /\ d.move_mapping = mm2
    BY <2>2, Zenon DEF IsAfterMove
  <2> HIDE DEF I, D, M, mm, J
  <2>7. IsLogOf(J, D2, M2, mm2, T, n0, u, last)
    BY <1>1, <2>3, <2>5, MoveOverIsLogged
  <2> QED BY <2>6, <2>7 DEF IsLogged, IsTrueLog
<1> QED BY <1>2, <1>3

\* The log is true after a talk was inserted.
LEMMA InsertedIsLogged ==
  ASSUME NEW c, IsLog(c), NEW T, NEW n0 \in Nat, NEW t, NEW n \in Nat, IsLogged(c, T, n0, t, n),
         NEW u, \A i \in 0 .. n - 1 : u[i + 1] = t[i + 1],
         \A i \in 0 .. n0 - 1 : T[i + 1].id # u[n + 1].id,
         NEW d, d = modify(insert(c, n), n)
  PROVE  IsTrueLog(d, T, n0, u, n + 1)
<1> DEFINE I == c.insertions
           D == c.deletions
           M == c.modifications
           mm == c.move_mapping
<1>1. IsLogOf(I, D, M, mm, T, n0, t, n)
  BY DEF IsLogged
<1>2. /\ IsLog(d) /\ d.insertions = I \union {n} /\ d.deletions = D
      /\ d.modifications = M \union {n} /\ d.move_mapping = mm
  BY LogAfterInsert
<1> HIDE DEF I, D, M, mm
<1>3. IsLogOf(I \union {n}, D, M \union {n}, mm, T, n0, u, n + 1)
  BY <1>1, InsertIsLogged
<1> QED BY <1>2, <1>3 DEF IsLogged, IsTrueLog

\* The log is true after a talk was modified.
LEMMA ModifiedIsLogged ==
  ASSUME NEW c, IsLog(c), NEW T, NEW n0 \in Nat, NEW t, NEW n \in Nat, IsLogged(c, T, n0, t, n),
         NEW row \in 0 .. n - 1, NEW u, \A i \in 0 .. n - 1 : u[i + 1].id = t[i + 1].id,
         \A i \in 0 .. n - 1 : i # row => u[i + 1] = t[i + 1],
         NEW d, d = modify(c, row)
  PROVE  IsTrueLog(d, T, n0, u, n)
<1> DEFINE I == c.insertions
           D == c.deletions
           M == c.modifications
           mm == c.move_mapping
<1>1. IsLogOf(I, D, M, mm, T, n0, t, n)
  BY DEF IsLogged
<1>2. /\ IsLog(d) /\ d.insertions = I /\ d.deletions = D
      /\ d.modifications = M \union {row} /\ d.move_mapping = mm
  BY LogAfterModify
<1> HIDE DEF I, D, M, mm
<1>3. IsLogOf(I, D, M \union {row}, mm, T, n0, u, n)
  BY <1>1, ModifyIsLogged
<1> QED BY <1>2, <1>3 DEF IsLogged, IsTrueLog

\* A log begins empty.
LEMMA EmptyIsLogged ==
  ASSUME NEW T, NEW t, NEW n \in Nat, \A i \in 0 .. n - 1 : T[i + 1] = t[i + 1],
         \A i, j \in 0 .. n - 1 : t[i + 1].id = t[j + 1].id => i = j
  PROVE  IsLogged(EmptyChange, T, n, t, n)
<1>1. /\ EmptyChange.insertions = {} /\ EmptyChange.deletions = {}
      /\ EmptyChange.modifications = {}
  BY DEF EmptyChange
<1>2. DOMAIN EmptyChange.move_mapping = {}
  BY DEF EmptyChange
<1> DEFINE mm == EmptyChange.move_mapping
<1>3. DOMAIN mm = {}
  BY <1>2
<1> HIDE DEF mm
<1>4. IsLogOf({}, {}, {}, mm, T, n, t, n)
  BY <1>3 DEF IsLogOf, AreRows
<1> QED BY <1>1, <1>4 DEF IsLogged, mm

(***************************************************************************)
(* A run.                                                                   *)
(***************************************************************************)

\* No talk is twice in a list, by the rows from 0.
OnceEach(t, n) == \A i, j \in 0 .. n - 1 : t[i + 1].id = t[j + 1].id => i = j

\* The log once read to its end: its moves are those of the map.
IsParsed(d, I, D, M, mm) ==
  /\ d.insertions = I /\ d.deletions = D /\ d.modifications = M
  /\ \A m : m \in Range(d.moves) <=> \E x \in DOMAIN mm : m = [from |-> mm[x], to |-> x]

\* parse_complete turns the moves recorded into moves of rows.
LEMMA LogIsParsed ==
  ASSUME NEW c, IsLog(c), NEW T, NEW n0 \in Nat, NEW t, NEW n \in Nat,
         IsLogged(c, T, n0, t, n), OnceEach(t, n), NEW d, d = parse_complete(c)
  PROVE  IsParsed(d, c.insertions, c.deletions, c.modifications, c.move_mapping)
<1> DEFINE mm == c.move_mapping
           still == {to \in DOMAIN mm : mm[to] = to}
           moved == {[from |-> mm[to], to |-> to] : to \in DOMAIN mm \ still}
           before == {e \in moved \X moved : e[1].from < e[2].from}
           s == SortedBy(moved, before)
<1>1. d = [c EXCEPT !.deletions = c.deletions \ still, !.insertions = c.insertions \ still,
                    !.moves = s, !.move_mapping = <<>>]
  BY Zenon DEF parse_complete
<1>2. /\ \A x \in DOMAIN mm : /\ x \in 0 .. n - 1 /\ mm[x] \in 0 .. n0 - 1 /\ x < mm[x]
                              /\ T[mm[x] + 1].id = t[x + 1].id
  <2>1. IsLogOf(c.insertions, c.deletions, c.modifications, mm, T, n0, t, n)
    BY DEF IsLogged
  <2> HIDE DEF mm
  <2> QED BY <2>1 DEF IsLogOf, AreRows
<1> HIDE DEF mm
<1>3. still = {}
  BY <1>2
<1>4. \A x, y \in DOMAIN mm : mm[x] = mm[y] => x = y
  <2> SUFFICES ASSUME NEW x \in DOMAIN mm, NEW y \in DOMAIN mm, mm[x] = mm[y] PROVE x = y
    OBVIOUS
  <2>1. t[x + 1].id = t[y + 1].id /\ x \in 0 .. n - 1 /\ y \in 0 .. n - 1
    BY <1>2
  <2> QED BY <2>1 DEF OnceEach
<1>5. \A m : m \in moved <=> \E x \in DOMAIN mm : m = [from |-> mm[x], to |-> x]
  BY <1>3
<1> HIDE DEF still
<1>6. /\ \A e, f \in moved : e.from = f.from => e = f
      /\ \A e \in moved : e.from \in Nat
  <2>1. ASSUME NEW e \in moved, NEW f \in moved, e.from = f.from PROVE e = f
    <3>1. PICK x \in DOMAIN mm : e = [from |-> mm[x], to |-> x]
      BY <1>5
    <3>2. PICK y \in DOMAIN mm : f = [from |-> mm[y], to |-> y]
      BY <1>5
    <3>3. mm[x] = mm[y]
      BY <2>1, <3>1, <3>2
    <3> QED BY <1>4, <3>1, <3>2, <3>3
  <2>2. ASSUME NEW e \in moved PROVE e.from \in Nat
    <3>1. PICK x \in DOMAIN mm : e = [from |-> mm[x], to |-> x]
      BY <1>5
    <3> QED BY <1>2, <3>1
  <2> QED BY <2>1, <2>2
<1>7. IsFiniteSet(moved)
  <2>1. 0 \in Int /\ n - 1 \in Int /\ DOMAIN mm \subseteq 0 .. n - 1
    BY <1>2
  <2>2. IsFiniteSet(DOMAIN mm)
    BY <2>1, FS_Interval, FS_Subset
  <2> DEFINE S == DOMAIN mm
             f == [x \in S |-> [from |-> mm[x], to |-> x]]
  <2>3. f \in [S -> moved] /\ \A m \in moved : \E x \in S : f[x] = m
    BY <1>5
  <2> HIDE DEF f, moved
  <2>4. f \in Surjection(S, moved)
    BY <2>3, Zenon DEF Surjection
  <2> HIDE DEF S
  <2>5. IsFiniteSet(S)
    BY <2>2 DEF S
  <2> QED BY <2>4, <2>5, FS_Surjection
<1> HIDE DEF moved
<1>8. \A e, f \in moved : <<e, f>> \in before <=> e.from < f.from
  OBVIOUS
<1> HIDE DEF before
<1>9. IsStrictOrder(before, moved)
  <2>1. \A x, y \in moved : <<x, y>> \in before => <<y, x>> \notin before
    BY <1>6, <1>8
  <2>2. \A x, y, z \in moved : <<x, y>> \in before /\ <<y, z>> \in before => <<x, z>> \in before
    BY <1>6, <1>8
  <2>3. ASSUME NEW x \in moved, NEW y \in moved
        PROVE  x = y \/ <<x, y>> \in before \/ <<y, x>> \in before
    <3>1. x.from = y.from \/ x.from < y.from \/ y.from < x.from
      BY <1>6
    <3> QED BY <1>6, <1>8, <3>1
  <2> QED BY <2>1, <2>2, <2>3 DEF IsStrictOrder
<1>10. /\ Cardinality(moved) \in Nat
       /\ s \in [1 .. Cardinality(moved) -> moved]
       /\ \A x \in moved : \E k \in 1 .. Cardinality(moved) : s[k] = x
  BY <1>7, <1>9, SortedByOrders
<1> HIDE DEF s
<1>11. \A m : m \in Range(s) <=> m \in moved
  BY <1>10 DEF Range
<1>12. /\ d.insertions = c.insertions /\ d.deletions = c.deletions
       /\ d.modifications = c.modifications /\ d.moves = s
  BY <1>1, <1>3 DEF IsLog
<1> QED BY <1>5, <1>11, <1>12, Zenon DEF IsParsed, mm

\* The rows of the old results in the numbering of the new table t: the row of
\* the same talk, npos for a talk that is gone.
ArePreviousRows(prev, old, n0, t, n, rows, I) ==
  /\ prev \in [1 .. n0 -> Int]
  /\ \A k \in 1 .. n0 :
       \/ prev[k] = npos /\ \A j \in 0 .. n - 1 : t[j + 1].id # old[k].id
       \/ /\ prev[k] \in 0 .. n - 1 /\ t[prev[k] + 1].id = old[k].id
          /\ prev[k] <= rows[k] /\ (prev[k] \notin I => prev[k] = rows[k])

\* The rows of the last run, renumbered by the log: a talk that is still in the
\* table has its new row, and the others have none.
LEMMA PreviousRowsFollow ==
  ASSUME NEW I, NEW D, NEW M, NEW mm, NEW T, NEW n0 \in Nat, NEW t, NEW n \in Nat,
         IsLogOf(I, D, M, mm, T, n0, t, n), OnceEach(T, n0),
         NEW d, IsParsed(d, I, D, M, mm),
         previous \in [1 .. n0 -> 0 .. n0 - 1],
         \A k \in 1 .. n0 : T[previous[k] + 1] = seen[k]
  PROVE  ArePreviousRows(PreviousRows(d), seen, n0, t, n, previous, I)
<1> DEFINE movedTo(r) == {m.to : m \in {o \in Range(d.moves) : o.from = r}}
           to(r) == CHOOSE x \in movedTo(r) : TRUE
           row(r) == IF r \notin d.deletions THEN shift(d.insertions, unshift(d.deletions, r))
                     ELSE IF movedTo(r) = {} THEN npos ELSE to(r)
           prev == PreviousRows(d)
<1>1. prev = [k \in 1 .. n0 |-> row(previous[k])]
  <2>1. prev = [k \in DOMAIN previous |-> row(previous[k])]
    BY Zenon DEF PreviousRows
  <2>2. DOMAIN previous = 1 .. n0
    OBVIOUS
  <2> HIDE DEF prev, row
  <2> QED BY <2>1, <2>2
<1> HIDE DEF prev
<1>2. d.insertions = I /\ d.deletions = D
  BY DEF IsParsed
<1>3. ASSUME NEW r PROVE \A x : x \in movedTo(r) <=> x \in DOMAIN mm /\ mm[x] = r
  <2>1. \A m : m \in Range(d.moves) <=> \E x \in DOMAIN mm : m = [from |-> mm[x], to |-> x]
    BY DEF IsParsed
  <2> DEFINE R == Range(d.moves)
  <2>2. \A m : m \in R <=> \E x \in DOMAIN mm : m = [from |-> mm[x], to |-> x]
    BY <2>1
  <2> HIDE DEF R
  <2>3. \A x : x \in {m.to : m \in {o \in R : o.from = r}} <=> \E m \in R : m.from = r /\ x = m.to
    OBVIOUS
  <2>4. ASSUME NEW x, NEW m \in R, m.from = r, x = m.to PROVE x \in DOMAIN mm /\ mm[x] = r
    <3>1. PICK y \in DOMAIN mm : m = [from |-> mm[y], to |-> y]
      BY <2>2
    <3> QED BY <2>4, <3>1
  <2>5. ASSUME NEW x \in DOMAIN mm, mm[x] = r PROVE \E m \in R : m.from = r /\ x = m.to
    <3>1. [from |-> mm[x], to |-> x] \in R
      BY <2>2
    <3> QED BY <2>5, <3>1
  <2>6. \A x : x \in {m.to : m \in {o \in R : o.from = r}} <=> x \in DOMAIN mm /\ mm[x] = r
    BY <2>3, <2>4, <2>5
  <2> QED BY <2>6 DEF R
<1> HIDE DEF movedTo
<1>4. ASSUME NEW r \in 0 .. n0 - 1
      PROVE  \/ row(r) = npos /\ \A j \in 0 .. n - 1 : t[j + 1].id # T[r + 1].id
             \/ /\ row(r) \in 0 .. n - 1 /\ t[row(r) + 1].id = T[r + 1].id
                /\ row(r) <= r /\ (row(r) \notin I => row(r) = r)
  <2>1. CASE r \notin D
    <3>1. r \in 0 .. n - 1 /\ r \notin I
      BY <2>1 DEF IsLogOf
    <3>2. shift(I, unshift(D, r)) = r
      <4>1. \A x \in 0 .. r - 1 : x \in I <=> x \in D
        BY <3>1 DEF IsLogOf
      <4>2. AreRows(I, n) /\ \A x \in D : x \in Nat
        BY DEF IsLogOf, AreRows
      <4> QED BY <3>1, <4>1, <4>2, ShiftBack
    <3>3. row(r) = r
      BY <1>2, <2>1, <3>2
    <3>4. t[r + 1].id = T[r + 1].id
      BY <2>1 DEF IsLogOf
    <3> HIDE DEF row
    <3> QED BY <3>1, <3>3, <3>4
  <2>2. CASE r \in D /\ movedTo(r) # {}
    <3>1. row(r) = to(r)
      BY <1>2, <2>2
    <3>2. to(r) \in movedTo(r)
      BY <2>2
    <3> HIDE DEF row, to
    <3>3. row(r) \in DOMAIN mm /\ mm[row(r)] = r
      BY <1>3, <3>1, <3>2
    <3> DEFINE x == row(r)
    <3>4. x \in DOMAIN mm /\ mm[x] = r
      BY <3>3
    <3> HIDE DEF x
    <3>5. x \in I /\ x < r /\ x \in 0 .. n - 1 /\ t[x + 1].id = T[r + 1].id
      BY <3>4 DEF IsLogOf, AreRows
    <3> QED BY <3>5 DEF x
  <2>3. CASE r \in D /\ movedTo(r) = {}
    <3>1. row(r) = npos
      BY <1>2, <2>3
    <3>2. ASSUME NEW j \in 0 .. n - 1, t[j + 1].id = T[r + 1].id PROVE FALSE
      <4>1. CASE j \in I
        <5>1. j \in DOMAIN mm
          BY <3>2, <4>1 DEF IsLogOf
        <5>2. T[mm[j] + 1].id = t[j + 1].id /\ mm[j] \in 0 .. n0 - 1
          BY <5>1 DEF IsLogOf, AreRows
        <5>3. mm[j] = r
          BY <3>2, <5>2 DEF OnceEach
        <5> QED BY <1>3, <2>3, <5>1, <5>3
      <4>2. CASE j \notin I
        <5>1. j \in 0 .. n0 - 1 /\ j \notin D
          BY <4>2 DEF IsLogOf
        <5>2. T[j + 1].id = t[j + 1].id
          BY <5>1 DEF IsLogOf
        <5>3. j = r
          BY <3>2, <5>1, <5>2 DEF OnceEach
        <5> QED BY <2>3, <5>1, <5>3
      <4> QED BY <4>1, <4>2
    <3> HIDE DEF row
    <3> QED BY <3>1, <3>2
  <2> QED BY <2>1, <2>2, <2>3
<1> HIDE DEF row
<1>5. ASSUME NEW k \in 1 .. n0
      PROVE  \/ prev[k] = npos /\ \A j \in 0 .. n - 1 : t[j + 1].id # seen[k].id
             \/ /\ prev[k] \in 0 .. n - 1 /\ t[prev[k] + 1].id = seen[k].id
                /\ prev[k] <= previous[k] /\ (prev[k] \notin I => prev[k] = previous[k])
  <2>1. prev[k] = row(previous[k]) /\ T[previous[k] + 1] = seen[k] /\ previous[k] \in 0 .. n0 - 1
    BY <1>1
  <2> QED BY <1>4, <2>1
<1>6. prev \in [1 .. n0 -> Int]
  <2>1. ASSUME NEW k \in 1 .. n0 PROVE prev[k] \in Int
    <3>1. npos \in Int /\ \A i \in 0 .. n - 1 : i \in Int
      BY DEF npos
    <3>2. prev[k] = npos \/ prev[k] \in 0 .. n - 1
      BY <1>5, Zenon
    <3> QED BY <3>1, <3>2
  <2> QED BY <1>1, <2>1
<1>7. ArePreviousRows(prev, seen, n0, t, n, previous, I)
  BY <1>5, <1>6 DEF ArePreviousRows
<1> QED BY <1>7 DEF prev

\* The results list every row of the table once.
LEMMA ResultRowsAreAll ==
  ASSUME NEW t \in Seq(Talk), NEW unsorted \in BOOLEAN
  PROVE  AreAllRows(ResultRows(t, unsorted), Len(t), unsorted)
<1> DEFINE n == Len(t)
           rows == 0 .. n - 1
           newer == {e \in rows \X rows :
                       \/ t[e[1] + 1].date > t[e[2] + 1].date
                       \/ t[e[1] + 1].date = t[e[2] + 1].date /\ e[1] < e[2]}
<1>1. n \in Nat /\ \A i \in 0 .. n - 1 : t[i + 1].date \in Nat
  <2>1. n \in Nat /\ \A k \in 1 .. n : t[k] \in Talk
    BY LenProperties, ElementOfSeq
  <2> HIDE DEF n
  <2>2. \A i \in 0 .. n - 1 : i + 1 \in 1 .. n
    BY <2>1
  <2> QED BY <2>1, <2>2, ResultsAssumption DEF Talk
<1>2. CASE unsorted
  <2>1. ResultRows(t, unsorted) = [k \in 1 .. n |-> k - 1]
    BY <1>2, Zenon DEF ResultRows
  <2> DEFINE s == [k \in 1 .. n |-> k - 1]
  <2> HIDE DEF n
  <2>2. s \in [1 .. n -> 0 .. n - 1] /\ \A k \in 1 .. n : s[k] = k - 1
    BY <1>1
  <2>3. \A i \in 0 .. n - 1 : i + 1 \in 1 .. n /\ s[i + 1] = i
    BY <1>1
  <2> HIDE DEF s
  <2>4. \A k, l \in 1 .. n : s[k] = s[l] => k = l
    BY <1>1, <2>2
  <2>5. AreAllRows(s, n, unsorted)
    BY <2>2, <2>3, <2>4 DEF AreAllRows
  <2> QED BY <2>1, <2>5 DEF s, n
<1>3. CASE ~ unsorted
  <2>1. ResultRows(t, unsorted) = SortedBy(rows, newer)
    BY <1>3, Zenon DEF ResultRows
  <2> HIDE DEF n
  <2>2. IsFiniteSet(rows) /\ Cardinality(rows) = n
    <3>1. 0 \in Int /\ n - 1 \in Int
      BY <1>1
    <3>2. /\ IsFiniteSet(0 .. n - 1)
          /\ Cardinality(0 .. n - 1) = IF 0 > n - 1 THEN 0 ELSE (n - 1) - 0 + 1
      BY <3>1, FS_Interval
    <3> QED BY <1>1, <3>2
  <2>3. \A i, j \in rows : <<i, j>> \in newer <=>
          (t[i + 1].date > t[j + 1].date \/ (t[i + 1].date = t[j + 1].date /\ i < j))
    OBVIOUS
  <2>4. \A i \in rows : i \in Int /\ t[i + 1].date \in Nat
    BY <1>1
  <2> DEFINE date(i) == t[i + 1].date
  <2>5. /\ \A i \in rows : i \in Int /\ date(i) \in Nat
        /\ \A i, j \in rows : <<i, j>> \in newer <=>
             (date(i) > date(j) \/ (date(i) = date(j) /\ i < j))
    BY <2>3, <2>4
  <2> HIDE DEF rows, newer, date
  <2>6. IsStrictOrder(newer, rows)
    <3>1. \A x, y \in rows : <<x, y>> \in newer => <<y, x>> \notin newer
      BY <2>5
    <3>2. \A x, y, z \in rows : <<x, y>> \in newer /\ <<y, z>> \in newer => <<x, z>> \in newer
      BY <2>5
    <3>3. ASSUME NEW x \in rows, NEW y \in rows
          PROVE  x = y \/ <<x, y>> \in newer \/ <<y, x>> \in newer
      <4>1. x \in Int /\ y \in Int /\ date(x) \in Nat /\ date(y) \in Nat
        BY <2>5
      <4>2. \/ x = y \/ date(x) > date(y) \/ date(y) > date(x)
            \/ date(x) = date(y) /\ x < y
            \/ date(y) = date(x) /\ y < x
        BY <4>1
      <4> QED BY <2>5, <4>2
    <3> QED BY <3>1, <3>2, <3>3 DEF IsStrictOrder
  <2> DEFINE s == SortedBy(rows, newer)
  <2>7. /\ s \in [1 .. n -> rows]
        /\ \A x \in rows : \E k \in 1 .. n : s[k] = x
        /\ \A k, l \in 1 .. n : k < l <=> <<s[k], s[l]>> \in newer
    BY <2>2, <2>6, SortedByOrders
  <2> HIDE DEF s
  <2>8. \A k, l \in 1 .. n : s[k] = s[l] => k = l
    <3> SUFFICES ASSUME NEW k \in 1 .. n, NEW l \in 1 .. n, s[k] = s[l] PROVE k = l
      OBVIOUS
    <3>1. s[k] \in rows /\ <<s[k], s[k]>> \notin newer
      BY <2>6, <2>7 DEF IsStrictOrder
    <3>2. ~ (k < l) /\ ~ (l < k)
      BY <2>7, <3>1
    <3> QED BY <3>2
  <2>9. AreAllRows(s, n, unsorted)
    BY <1>3, <2>7, <2>8 DEF AreAllRows, rows
  <2> QED BY <2>1, <2>9 DEF s, n
<1> QED BY <1>2, <1>3

\* What is true of lists of row numbers is true of any lists with the same rows
\* equal.
LEMMA SameEquality ==
  ASSUME NEW prev, NEW next, NEW np \in Nat, NEW nq \in Nat, NEW a, NEW b, NEW D, NEW I, NEW moves,
         \A p \in 0 .. np - 1, q \in 0 .. nq - 1 :
           prev[p + 1] = next[q + 1] <=> a[p + 1] = b[q + 1],
         IsExactChange(prev, next, np, nq, D, I), AreTrueMoves(moves, prev, next, D, I)
  PROVE  IsExactChange(a, b, np, nq, D, I) /\ AreTrueMoves(moves, a, b, D, I)
<1>1. /\ \A p \in Rest(np, D) : p \in 0 .. np - 1
      /\ \A q \in Rest(nq, I) : q \in 0 .. nq - 1
  BY DEF Rest
<1>2. IsExact(a, b, np, nq, D, I)
  <2>1. \A q \in Rest(nq, I) : \E p \in Rest(np, D) : a[p + 1] = b[q + 1]
    BY <1>1 DEF IsExactChange, IsExact
  <2>2. \A p \in Rest(np, D) : \E q \in Rest(nq, I) : a[p + 1] = b[q + 1]
    BY <1>1 DEF IsExactChange, IsExact
  <2>3. \A p, p1 \in Rest(np, D), q, q1 \in Rest(nq, I) :
          a[p + 1] = b[q + 1] /\ a[p1 + 1] = b[q1 + 1] => (q < q1 <=> p < p1)
    <3>1. \A p, p1 \in Rest(np, D), q, q1 \in Rest(nq, I) :
            prev[p + 1] = next[q + 1] /\ prev[p1 + 1] = next[q1 + 1] => (q < q1 <=> p < p1)
      BY DEF IsExactChange, IsExact
    <3> QED BY <1>1, <3>1, Zenon
  <2> QED BY <2>1, <2>2, <2>3, Zenon DEF IsExact
<1>3. \A k \in 1 .. Len(moves) : IsTrueMove(moves[k], a, b, D, I)
  <2> TAKE k \in 1 .. Len(moves)
  <2> DEFINE m == moves[k]
  <2>1. IsTrueMove(m, prev, next, D, I)
    BY DEF AreTrueMoves
  <2> HIDE DEF m
  <2>2. m.from \in 0 .. np - 1 /\ m.to \in 0 .. nq - 1
    BY <2>1 DEF IsTrueMove, IsExactChange, AreRows
  <2>3. IsTrueMove(m, a, b, D, I)
    BY <2>1, <2>2 DEF IsTrueMove
  <2> QED BY <2>3 DEF m
<1> QED BY <1>2, <1>3 DEF IsExactChange, AreTrueMoves

\* What a run knows: the old results, by talks and by table rows; the new table
\* and the rows of the new results.
IsRun(prev, next, old, new, n0, t, n, rows, unsorted, I, M) ==
  /\ n0 \in Nat /\ n \in Nat /\ unsorted \in BOOLEAN
  /\ OnceEach(old, n0) /\ OnceEach(t, n)
  /\ AreAllRows(rows, n0, unsorted) /\ AreAllRows(next, n, unsorted)
  /\ ArePreviousRows(prev, old, n0, t, n, rows, I)
  /\ \A q \in 1 .. n : new[q] = t[next[q] + 1]
  /\ \A p \in 0 .. n0 - 1, j \in 0 .. n - 1 :
       old[p + 1].id = t[j + 1].id /\ old[p + 1] # t[j + 1] => j \in M

\* Rows of the same number are rows of the same talk.
LEMMA RunRows ==
  ASSUME NEW prev, NEW next, NEW old, NEW new, NEW n0, NEW t, NEW n, NEW rows, NEW unsorted,
         NEW I, NEW M, IsRun(prev, next, old, new, n0, t, n, rows, unsorted, I, M)
  PROVE  /\ AreResults(prev, next, n0, n)
         /\ \A p \in 0 .. n0 - 1, q \in 0 .. n - 1 :
              prev[p + 1] = next[q + 1] <=> old[p + 1].id = new[q + 1].id
         /\ unsorted => KeepsTable(prev, next, n0, n, I)
<1>1. /\ n0 \in Nat /\ n \in Nat /\ unsorted \in BOOLEAN
      /\ \A i, j \in 0 .. n0 - 1 : old[i + 1].id = old[j + 1].id => i = j
      /\ \A i, j \in 0 .. n - 1 : t[i + 1].id = t[j + 1].id => i = j
  BY DEF IsRun, OnceEach
<1>2. /\ prev \in [1 .. n0 -> Int]
      /\ \A k \in 1 .. n0 :
           \/ prev[k] = npos /\ \A j \in 0 .. n - 1 : t[j + 1].id # old[k].id
           \/ /\ prev[k] \in 0 .. n - 1 /\ t[prev[k] + 1].id = old[k].id
              /\ prev[k] <= rows[k] /\ (prev[k] \notin I => prev[k] = rows[k])
  BY DEF IsRun, ArePreviousRows
<1>3. /\ next \in [1 .. n -> 0 .. n - 1]
      /\ \A k, l \in 1 .. n : next[k] = next[l] => k = l
      /\ unsorted => \A k \in 1 .. n : next[k] = k - 1
      /\ unsorted => \A k \in 1 .. n0 : rows[k] = k - 1
      /\ \A q \in 1 .. n : new[q] = t[next[q] + 1]
  BY DEF IsRun, AreAllRows
<1>4. \A i \in 0 .. n - 1 : i # npos
  BY DEF npos
<1>5. AreResults(prev, next, n0, n)
  <2>1. \A k, l \in 1 .. n0 : prev[k] = prev[l] /\ prev[k] # npos => k = l
    <3> SUFFICES ASSUME NEW k \in 1 .. n0, NEW l \in 1 .. n0, prev[k] = prev[l], prev[k] # npos
                 PROVE  k = l
      OBVIOUS
    <3>1. old[k].id = old[l].id
      BY <1>2
    <3>2. k - 1 \in 0 .. n0 - 1 /\ l - 1 \in 0 .. n0 - 1 /\ (k - 1) + 1 = k /\ (l - 1) + 1 = l
      BY <1>1
    <3>3. k - 1 = l - 1
      BY <1>1, <3>1, <3>2
    <3> QED BY <3>3
  <2>2. next \in [1 .. n -> Int] /\ \A k \in 1 .. n : next[k] # npos
    BY <1>3, <1>4
  <2> QED BY <1>2, <1>3, <2>1, <2>2 DEF AreResults, IsInjectiveList
<1>6. ASSUME NEW p \in 0 .. n0 - 1, NEW q \in 0 .. n - 1
      PROVE  prev[p + 1] = next[q + 1] <=> old[p + 1].id = new[q + 1].id
  <2> DEFINE k == p + 1
             r == next[q + 1]
  <2>1. k \in 1 .. n0 /\ r \in 0 .. n - 1 /\ new[q + 1] = t[r + 1]
    BY <1>1, <1>3
  <2> HIDE DEF k, r
  <2>2. prev[k] = r => old[k].id = t[r + 1].id
    BY <1>2, <1>4, <2>1
  <2>3. old[k].id = t[r + 1].id => prev[k] = r
    <3> SUFFICES ASSUME old[k].id = t[r + 1].id PROVE prev[k] = r
      OBVIOUS
    <3>1. prev[k] \in 0 .. n - 1 /\ t[prev[k] + 1].id = t[r + 1].id
      BY <1>2, <2>1
    <3> QED BY <1>1, <2>1, <3>1
  <2> QED BY <2>1, <2>2, <2>3 DEF k, r
<1>7. ASSUME unsorted PROVE KeepsTable(prev, next, n0, n, I)
  <2> SUFFICES ASSUME NEW p \in 0 .. n0 - 1, prev[p + 1] # npos
               PROVE  \E q \in 0 .. n - 1 : /\ prev[p + 1] = next[q + 1]
                                            /\ q <= p
                                            /\ next[q + 1] \notin I => q = p
    BY DEF KeepsTable
  <2> DEFINE k == p + 1
             q == prev[k]
  <2>1. k \in 1 .. n0 /\ k - 1 = p
    BY <1>1
  <2>2. /\ q \in 0 .. n - 1 /\ q <= rows[k] /\ (q \notin I => q = rows[k])
        /\ rows[k] = p
    BY <1>2, <1>3, <1>7, <2>1
  <2> HIDE DEF q
  <2>3. q + 1 \in 1 .. n /\ (q + 1) - 1 = q
    BY <1>1, <2>2
  <2>4. next[q + 1] = q
    BY <1>3, <1>7, <2>3
  <2>5. prev[p + 1] = q
    BY DEF q
  <2> QED BY <2>2, <2>4, <2>5
<1> QED BY <1>5, <1>6, <1>7

\* The change a run calculates is true of the old and the new results.
LEMMA RunIsTrue ==
  ASSUME NEW prev, NEW next, NEW old, NEW new, NEW n0, NEW t, NEW n, NEW rows, NEW unsorted,
         NEW I, NEW M, IsRun(prev, next, old, new, n0, t, n, rows, unsorted, I, M),
         NEW d, d = calculate(prev, next, M, unsorted, I),
         NEW a, \A p \in 0 .. n0 - 1 : a[p + 1] = old[p + 1].id,
         NEW b, \A q \in 0 .. n - 1 : b[q + 1] = new[q + 1].id
  PROVE  d \in ChangeSets /\ IsTrueOf(d, a, old, n0, b, new, n)
<1>1. n0 \in Nat /\ n \in Nat /\ unsorted \in BOOLEAN
  BY DEF IsRun
<1>2. /\ AreResults(prev, next, n0, n)
      /\ \A p \in 0 .. n0 - 1, q \in 0 .. n - 1 :
           prev[p + 1] = next[q + 1] <=> old[p + 1].id = new[q + 1].id
      /\ unsorted => KeepsTable(prev, next, n0, n, I)
  BY RunRows
<1>3. IsCalculatedChange(d, prev, next, n0, n, M)
  <2>1. CASE unsorted
    <3>1. d = calculate(prev, next, M, TRUE, I)
      BY <2>1
    <3> QED BY <1>1, <1>2, <2>1, <3>1, UnsortedIsCalculated
  <2>2. CASE ~ unsorted
    <3>1. d = calculate(prev, next, M, FALSE, I)
      BY <1>1, <2>2
    <3> QED BY <1>1, <1>2, <3>1, SortedIsCalculated
  <2> QED BY <2>1, <2>2
<1>4. /\ IsCalculated(d, prev, next, n0, n, M)
      /\ AreTrueMoves(d.moves, prev, next, d.deletions, d.insertions)
      /\ d \in ChangeSets
  BY <1>3 DEF IsCalculatedChange
<1>5. IsExactChange(prev, next, n0, n, d.deletions, d.insertions)
  BY <1>4 DEF IsCalculated, IsExactChange, AreRows
<1>6. \A q : q \in d.modifications <=> /\ q \in 0 .. n - 1 /\ next[q + 1] \in M
                                       /\ \E p \in 0 .. n0 - 1 : prev[p + 1] = next[q + 1]
  BY <1>4 DEF IsCalculated
<1>7. \A p \in 0 .. n0 - 1, q \in 0 .. n - 1 :
        prev[p + 1] = next[q + 1] <=> a[p + 1] = b[q + 1]
  BY <1>2
<1>8. /\ IsExactChange(a, b, n0, n, d.deletions, d.insertions)
      /\ AreTrueMoves(d.moves, a, b, d.deletions, d.insertions)
  <2> DEFINE D == d.deletions
             J == d.insertions
             moves == d.moves
  <2>1. IsExactChange(prev, next, n0, n, D, J) /\ AreTrueMoves(moves, prev, next, D, J)
    BY <1>4, <1>5
  <2> HIDE DEF D, J, moves
  <2>2. IsExactChange(a, b, n0, n, D, J) /\ AreTrueMoves(moves, a, b, D, J)
    BY <1>1, <1>7, <2>1, SameEquality, Zenon
  <2> QED BY <2>2 DEF D, J, moves
<1>9. AreRows(d.modifications, n)
  BY <1>6 DEF AreRows
<1>10. ASSUME NEW p \in 0 .. n0 - 1, NEW q \in 0 .. n - 1,
              a[p + 1] = b[q + 1], old[p + 1] # new[q + 1]
       PROVE  q \in d.modifications
  <2>1. prev[p + 1] = next[q + 1] /\ old[p + 1].id = new[q + 1].id
    BY <1>7, <1>10
  <2> DEFINE r == next[q + 1]
  <2>2. q + 1 \in 1 .. n
    BY <1>1
  <2>3. r \in 0 .. n - 1 /\ new[q + 1] = t[r + 1]
    BY <2>2 DEF IsRun, AreAllRows
  <2> HIDE DEF r
  <2>4. old[p + 1].id = t[r + 1].id /\ old[p + 1] # t[r + 1]
    BY <1>10, <2>1, <2>3
  <2>5. r \in M
    BY <2>3, <2>4 DEF IsRun
  <2>6. next[q + 1] \in M
    BY <2>5 DEF r
  <2> QED BY <1>6, <2>1, <2>6
<1>11. IsTold(d.modifications, d.moves, a, old, n0, b, new, n, d.deletions)
  BY <1>10 DEF IsTold
<1> QED BY <1>4, <1>8, <1>9, <1>11 DEF IsTrueOf

(***************************************************************************)
(* A delivery.                                                              *)
(***************************************************************************)

\* A true change of lists in which no talk is twice.
IsTrueOfLists(c, a, old, n0, b, new, n) ==
  /\ n0 \in Nat /\ n \in Nat
  /\ IsInjectiveList(a, n0) /\ IsInjectiveList(b, n)
  /\ IsTrueOf(c, a, old, n0, b, new, n)

\* Where the rows that stay were.
LEMMA StayingRows ==
  ASSUME NEW c, NEW a, NEW old, NEW n0, NEW b, NEW new, NEW n,
         IsTrueOfLists(c, a, old, n0, b, new, n),
         NEW D, D = c.deletions, NEW I, I = c.insertions
  PROVE  /\ AreRows(D, n0) /\ AreRows(I, n)
         /\ \A q \in Rest(n, I) : /\ Was(D, I, q) \in Rest(n0, D)
                                  /\ a[Was(D, I, q) + 1] = b[q + 1]
                                  /\ unshift(D, Was(D, I, q)) = unshift(I, q)
         /\ n0 - Cardinality(D) + Cardinality(I) = n
<1>1. /\ n0 \in Nat /\ n \in Nat /\ IsInjectiveList(a, n0)
      /\ AreRows(D, n0) /\ AreRows(I, n) /\ IsExact(a, b, n0, n, D, I)
  BY DEF IsTrueOfLists, IsTrueOf, IsExactChange
<1>2. (\A x \in D : x \in 0 .. n0 - 1) /\ \A x \in I : x \in 0 .. n - 1
  BY <1>1 DEF AreRows
<1>3. IsPlaced(a, b, n0, n, D, I)
  BY <1>1, <1>2, ExactPlaces
<1>4. ASSUME NEW q \in Rest(n, I)
      PROVE  /\ Was(D, I, q) \in Rest(n0, D)
             /\ a[Was(D, I, q) + 1] = b[q + 1]
             /\ unshift(D, Was(D, I, q)) = unshift(I, q)
  <2> DEFINE p == Was(D, I, q)
  <2>1. p \in Rest(n0, D) /\ a[p + 1] = b[q + 1]
    BY <1>3 DEF IsPlaced
  <2> HIDE DEF p
  <2>2. unshift(D, p) = unshift(I, q)
    BY <1>1, <1>2, <2>1, SameRank
  <2> QED BY <2>1, <2>2 DEF p
<1> QED BY <1>1, <1>3, <1>4 DEF IsPlaced

\* The rows reported as modified, in the old numbering and in the new one.
LEMMA FinalizedFields ==
  ASSUME NEW c, NEW D, D = c.deletions, NEW I, I = c.insertions, NEW f, f = finalize(c)
  PROVE  /\ f.deletions = D /\ f.insertions = I
         /\ \A x : x \in f.modifications_new <=> x \in c.modifications /\ x \notin I
         /\ \A x : x \in f.modifications <=>
              \E q \in f.modifications_new : x = Was(D, I, q)
<1>1. /\ f.deletions = D /\ f.insertions = I
      /\ f.modifications_new = c.modifications \ I
      /\ f.modifications = {shift(D, i) : i \in {unshift(I, i) : i \in c.modifications \ I}}
  BY DEF finalize, shift_for_insert_at, erase_at
<1>2. \A x : x \in {shift(D, i) : i \in {unshift(I, i) : i \in c.modifications \ I}} <=>
        \E q \in c.modifications \ I : x = Was(D, I, q)
  BY DEF Was
<1> QED BY <1>1, <1>2

\* The rows that a change deletes, inserts and reloads.
IsBatch(f, old, n0, new, n) ==
  /\ n0 - Cardinality(f.deletions) + Cardinality(f.insertions) = n
  /\ f.deletions \union f.modifications \subseteq 0 .. n0 - 1
  /\ f.insertions \subseteq 0 .. n - 1
  /\ f.modifications \intersect f.deletions = {}
  /\ {old[i + 1].id : i \in f.modifications} = {new[i + 1].id : i \in f.modifications_new}

\* A true change, finalized, is a batch that the table view accepts.
LEMMA FinalizedIsBatch ==
  ASSUME NEW c, NEW a, NEW old, NEW n0, NEW b, NEW new, NEW n,
         IsTrueOfLists(c, a, old, n0, b, new, n),
         \A p \in 0 .. n0 - 1 : a[p + 1] = old[p + 1].id,
         \A q \in 0 .. n - 1 : b[q + 1] = new[q + 1].id,
         NEW f, f = finalize(c)
  PROVE  IsBatch(f, old, n0, new, n)
<1> DEFINE D == c.deletions
           I == c.insertions
<1>1. /\ AreRows(D, n0) /\ AreRows(I, n)
      /\ \A q \in Rest(n, I) : Was(D, I, q) \in Rest(n0, D) /\ a[Was(D, I, q) + 1] = b[q + 1]
      /\ n0 - Cardinality(D) + Cardinality(I) = n
  BY StayingRows
<1>2. /\ f.deletions = D /\ f.insertions = I
      /\ \A x : x \in f.modifications_new <=> x \in c.modifications /\ x \notin I
      /\ \A x : x \in f.modifications <=>
           \E q \in f.modifications_new : x = Was(D, I, q)
  BY FinalizedFields
<1>3. AreRows(c.modifications, n)
  BY DEF IsTrueOfLists, IsTrueOf
<1> HIDE DEF D, I
<1>4. \A q \in f.modifications_new : q \in Rest(n, I)
  BY <1>2, <1>3 DEF AreRows, Rest
<1>5. \A q \in f.modifications_new :
        /\ Was(D, I, q) \in 0 .. n0 - 1 /\ Was(D, I, q) \notin D
        /\ old[Was(D, I, q) + 1].id = new[q + 1].id
  <2> TAKE q \in f.modifications_new
  <2> DEFINE p == Was(D, I, q)
  <2>1. p \in Rest(n0, D) /\ a[p + 1] = b[q + 1] /\ q \in Rest(n, I)
    BY <1>1, <1>4
  <2> HIDE DEF p
  <2>2. p \in 0 .. n0 - 1 /\ p \notin D /\ q \in 0 .. n - 1
    BY <2>1 DEF Rest
  <2> QED BY <2>1, <2>2 DEF p
<1>6. \A x \in f.modifications : x \in 0 .. n0 - 1 /\ x \notin D
  BY <1>2, <1>5
<1>7. {old[i + 1].id : i \in f.modifications} = {new[i + 1].id : i \in f.modifications_new}
  <2> DEFINE N == f.modifications_new
             O == f.modifications
  <2>1. (\A x : x \in O <=> \E q \in N : x = Was(D, I, q))
        /\ \A q \in N : old[Was(D, I, q) + 1].id = new[q + 1].id
    BY <1>2, <1>5
  <2> HIDE DEF N, O
  <2>2. \A i \in O : old[i + 1].id \in {new[j + 1].id : j \in N}
    BY <2>1
  <2>3. \A j \in N : new[j + 1].id \in {old[i + 1].id : i \in O}
    <3> TAKE j \in N
    <3> DEFINE p == Was(D, I, j)
    <3>1. p \in O /\ old[p + 1].id = new[j + 1].id
      BY <2>1
    <3> HIDE DEF p
    <3> QED BY <3>1
  <2> QED BY <2>2, <2>3 DEF N, O
<1>8. f.deletions \union f.modifications \subseteq 0 .. n0 - 1 /\ f.insertions \subseteq 0 .. n - 1
  BY <1>1, <1>2, <1>6 DEF AreRows
<1>9. f.modifications \intersect f.deletions = {}
  BY <1>2, <1>6
<1>10. n0 - Cardinality(f.deletions) + Cardinality(f.insertions) = n
  BY <1>1, <1>2, Zenon
<1> QED BY <1>7, <1>8, <1>9, <1>10 DEF IsBatch

\* A table view that applies a true change shows the new list.
LEMMA UpdatedIsNew ==
  ASSUME NEW c, NEW a, NEW old \in Seq(Talk), NEW n0, n0 = Len(old),
         NEW b, NEW new \in Seq(Talk), NEW n, n = Len(new),
         IsTrueOfLists(c, a, old, n0, b, new, n), NEW f, f = finalize(c)
  PROVE  Updated(old, f, new) = new
<1> DEFINE D == c.deletions
           I == c.insertions
           rest == Rest(n0, D)
           kept == Rest(n, I)
           was(q) == {k \in rest : Cardinality({j \in rest : j < k})
                                     = Cardinality({m \in kept : m < q})}
           first(q) == CHOOSE k \in was(q) : TRUE
           cell(q) == IF q \notin kept THEN new[q + 1]
                      ELSE IF was(q) = {} THEN Blank
                      ELSE IF first(q) \in f.modifications THEN new[q + 1]
                      ELSE old[first(q) + 1]
<1>1. /\ f.deletions = D /\ f.insertions = I
      /\ \A x : x \in f.modifications_new <=> x \in c.modifications /\ x \notin I
      /\ \A x : x \in f.modifications <=>
           \E q \in f.modifications_new : x = Was(D, I, q)
  BY FinalizedFields
<1>2. Updated(old, f, new) = [q \in DOMAIN new |-> cell(q - 1)]
  <2>1. rest = {k \in 0 .. Len(old) - 1 : k \notin f.deletions}
        /\ kept = {q \in 0 .. Len(new) - 1 : q \notin f.insertions}
    BY <1>1, Zenon DEF Rest
  <2> DEFINE before(R, K, q) == {k \in R : Cardinality({j \in R : j < k})
                                             = Cardinality({m \in K : m < q})}
             one(R, K, q) == CHOOSE k \in before(R, K, q) : TRUE
             view(R, K) == [q \in DOMAIN new |->
                             IF q - 1 \notin K THEN new[(q - 1) + 1]
                             ELSE IF before(R, K, q - 1) = {} THEN Blank
                             ELSE IF one(R, K, q - 1) \in f.modifications THEN new[(q - 1) + 1]
                             ELSE old[one(R, K, q - 1) + 1]]
             R0 == {k \in 0 .. Len(old) - 1 : k \notin f.deletions}
             K0 == {q \in 0 .. Len(new) - 1 : q \notin f.insertions}
  <2>2. Updated(old, f, new) = view(R0, K0)
    BY Zenon DEF Updated
  <2>3. [q \in DOMAIN new |-> cell(q - 1)] = view(rest, kept)
    BY Zenon
  <2> HIDE DEF view, rest, kept, cell
  <2> QED BY <2>1, <2>2, <2>3, Zenon
<1>3. n0 \in Nat /\ n \in Nat /\ DOMAIN new = 1 .. n /\ new = [q \in 1 .. n |-> new[q]]
  BY LenProperties, SeqDef
<1>4. /\ AreRows(D, n0) /\ AreRows(I, n)
      /\ \A q \in kept : /\ Was(D, I, q) \in rest
                         /\ a[Was(D, I, q) + 1] = b[q + 1]
                         /\ unshift(D, Was(D, I, q)) = unshift(I, q)
  BY StayingRows
<1>5. IsTold(c.modifications, c.moves, a, old, n0, b, new, n, D)
  BY DEF IsTrueOfLists, IsTrueOf
<1> HIDE DEF D, I
<1>6. (\A x \in D : x \in Nat) /\ \A x \in I : x \in Nat
  BY <1>4 DEF AreRows
<1>7. ASSUME NEW k \in rest PROVE Cardinality({j \in rest : j < k}) = unshift(D, k)
  <2>1. k \in 0 .. n0
    BY <1>3 DEF Rest
  <2> QED BY <1>3, <1>6, <2>1, UnshiftIsRank
<1>8. ASSUME NEW q \in kept PROVE Cardinality({m \in kept : m < q}) = unshift(I, q)
  <2>1. q \in 0 .. n
    BY <1>3 DEF Rest
  <2> QED BY <1>3, <1>6, <2>1, UnshiftIsRank
<1>9. \A k \in rest : k \in 0 .. n0 - 1 /\ k \in Nat /\ k \notin D
  BY <1>3 DEF Rest
<1>10. \A q \in kept : q \in 0 .. n - 1 /\ q \notin I
  BY DEF Rest
<1> HIDE DEF rest, kept
<1>11. ASSUME NEW q \in kept PROVE \A k : k \in was(q) <=> k = Was(D, I, q)
  <2> DEFINE p == Was(D, I, q)
  <2>1. p \in rest /\ unshift(D, p) = unshift(I, q)
    BY <1>4
  <2> HIDE DEF p
  <2>2. \A k : k \in was(q) <=> k \in rest /\ unshift(D, k) = unshift(I, q)
    BY <1>7, <1>8
  <2>3. ASSUME NEW k \in rest, unshift(D, k) = unshift(D, p) PROVE k = p
    <3>1. k \in Nat /\ p \in Nat /\ k \notin D /\ p \notin D
      BY <1>9, <2>1
    <3>2. ~ (k < p)
      <4> SUFFICES ASSUME k < p PROVE FALSE
        OBVIOUS
      <4>1. unshift(D, k) < unshift(D, p) /\ unshift(D, k) \in Nat
        BY <1>6, <3>1, UnshiftMonotone, UnshiftType
      <4> QED BY <2>3, <4>1
    <3>3. ~ (p < k)
      <4> SUFFICES ASSUME p < k PROVE FALSE
        OBVIOUS
      <4>1. unshift(D, p) < unshift(D, k) /\ unshift(D, k) \in Nat
        BY <1>6, <3>1, UnshiftMonotone, UnshiftType
      <4> QED BY <2>3, <4>1
    <3> QED BY <3>1, <3>2, <3>3
  <2> HIDE DEF was
  <2>4. \A k : k \in was(q) <=> k = p
    BY <2>1, <2>2, <2>3
  <2> QED BY <2>4 DEF p
<1> HIDE DEF was
<1>12. ASSUME NEW q \in 0 .. n - 1 PROVE cell(q) = new[q + 1]
  <2>1. CASE q \notin kept
    BY <2>1
  <2>2. CASE q \in kept
    <3> DEFINE p == Was(D, I, q)
    <3>1. p \in rest /\ a[p + 1] = b[q + 1] /\ \A k : k \in was(q) <=> k = p
      BY <1>4, <1>11, <2>2
    <3>2. was(q) # {} /\ first(q) = p
      <4>1. first(q) \in was(q) /\ was(q) # {}
        BY <3>1
      <4> HIDE DEF first, p
      <4> QED BY <3>1, <4>1
    <3>3. cell(q) = IF p \in f.modifications THEN new[q + 1] ELSE old[p + 1]
      <4> HIDE DEF first, p
      <4> QED BY <2>2, <3>2
    <3> HIDE DEF cell, first
    <3>4. CASE p \in f.modifications
      BY <3>3, <3>4
    <3>5. CASE p \notin f.modifications
      <4>1. q \notin c.modifications
        <5>1. q \notin f.modifications_new
          BY <1>1, <3>5
        <5> QED BY <1>1, <1>10, <2>2, <5>1
      <4> HIDE DEF p
      <4>2. p \in 0 .. n0 - 1 /\ p \notin D
        BY <1>9, <3>1
      <4>3. old[p + 1] = new[q + 1]
        BY <1>5, <3>1, <4>1, <4>2 DEF IsTold
      <4> QED BY <3>3, <3>5, <4>3
    <3> QED BY <3>4, <3>5
  <2> QED BY <2>1, <2>2
<1> HIDE DEF cell
<1>13. \A q \in 1 .. n : cell(q - 1) = new[q]
  <2> TAKE q \in 1 .. n
  <2>1. q - 1 \in 0 .. n - 1 /\ (q - 1) + 1 = q
    BY <1>3
  <2> QED BY <1>12, <2>1
<1>14. Updated(old, f, new) = [q \in 1 .. n |-> new[q]]
  BY <1>2, <1>3, <1>13
<1> QED BY <1>3, <1>14

\* Nothing to deliver, and nothing changed.
LEMMA EmptyIsTrue ==
  ASSUME NEW a, NEW x, NEW n \in Nat, IsInjectiveList(a, n)
  PROVE  EmptyChange \in ChangeSets /\ IsTrueOf(EmptyChange, a, x, n, a, x, n)
<1> DEFINE e == EmptyChange
<1>1. /\ e.deletions = {} /\ e.insertions = {} /\ e.modifications = {}
      /\ e.moves = <<>>
  BY DEF EmptyChange
<1>2. <<>> \in MoveList /\ Len(<<>>) = 0 /\ 1 .. 0 = {}
  BY EmptySeq DEF MoveList
<1>3. e \in ChangeSets
  BY <1>2 DEF ChangeSets, EmptyChange
<1> HIDE DEF e
<1>4. Rest(n, {}) = 0 .. n - 1
  BY DEF Rest
<1>5. \A p, q \in 0 .. n - 1 : a[p + 1] = a[q + 1] => p = q
  BY InjectiveRows
<1>6. IsExact(a, a, n, n, {}, {})
  BY <1>4, <1>5 DEF IsExact
<1>7. AreRows({}, n)
  BY DEF AreRows
<1>8. AreTrueMoves(<<>>, a, a, {}, {})
  BY <1>2 DEF AreTrueMoves, FromOnce
<1>9. IsTold({}, <<>>, a, x, n, a, x, n, {})
  BY <1>5 DEF IsTold
<1>10. IsTrueOf(e, a, x, n, a, x, n)
  BY <1>1, <1>6, <1>7, <1>8, <1>9 DEF IsTrueOf, IsExactChange
<1> QED BY <1>3, <1>10 DEF e

(***************************************************************************)
(* The invariant is inductive.                                              *)
(***************************************************************************)

\* What is used of a list of talks.
LEMMA TalkListFacts ==
  ASSUME NEW s, IsTalkList(s)
  PROVE  /\ s \in Seq(Talk) /\ Len(s) \in Nat /\ DOMAIN s = 1 .. Len(s)
         /\ \A k \in 1 .. Len(s) : s[k] \in Talk
         /\ \A k, l \in 1 .. Len(s) : s[k].id = s[l].id => k = l
         /\ OnceEach(s, Len(s))
         /\ IsInjectiveList(Ids(s), Len(s))
         /\ \A p \in 0 .. Len(s) - 1 : Ids(s)[p + 1] = s[p + 1].id
<1> DEFINE n == Len(s)
<1>1. s \in Seq(Talk) /\ IsInjectiveList(Ids(s), n)
  BY DEF IsTalkList
<1>2. n \in Nat /\ DOMAIN s = 1 .. n /\ \A k \in 1 .. n : s[k] \in Talk
  BY <1>1, LenProperties, ElementOfSeq
<1> HIDE DEF n
<1>3. \A k \in 1 .. n : Ids(s)[k] = s[k].id
  BY DEF Ids, n
<1>4. \A k, l \in 1 .. n : s[k].id = s[l].id => k = l
  BY <1>1, <1>3 DEF IsInjectiveList
<1>5. \A p \in 0 .. n - 1 : p + 1 \in 1 .. n
  BY <1>2
<1>6. OnceEach(s, n)
  <2> SUFFICES ASSUME NEW i \in 0 .. n - 1, NEW j \in 0 .. n - 1, s[i + 1].id = s[j + 1].id
               PROVE  i = j
    BY DEF OnceEach
  <2>1. i + 1 = j + 1
    BY <1>4, <1>5
  <2> QED BY <2>1
<1> QED BY <1>1, <1>2, <1>3, <1>4, <1>5, <1>6 DEF n

\* A sequence of talks with an id each is such a list.
LEMMA IsTalkListIf ==
  ASSUME NEW s \in Seq(Talk), \A k, l \in 1 .. Len(s) : s[k].id = s[l].id => k = l
  PROVE  IsTalkList(s)
<1>1. \A k \in 1 .. Len(s) : Ids(s)[k] = s[k].id
  BY DEF Ids
<1> QED BY <1>1 DEF IsTalkList, IsInjectiveList

\* The table at the last run has the talks of the last results at their rows.
IsTableOf(T, rows, talks, n) ==
  /\ \A k \in 1 .. n : T[rows[k] + 1] = talks[k]
  /\ \A i \in 0 .. n - 1 : \E k \in 1 .. n : rows[k] = i /\ T[i + 1] = talks[k]
  /\ OnceEach(T, n)

\* TableOf gives each row of the table the talk that the results have for it.
LEMMA TableOfResults ==
  ASSUME NEW talks, IsTalkList(talks), NEW n, n = Len(talks), NEW rows, NEW unsorted,
         AreAllRows(rows, n, unsorted), NEW T, T = TableOf(rows, talks)
  PROVE  IsTableOf(T, rows, talks, n)
<1>1. /\ n \in Nat /\ \A k, l \in 1 .. n : talks[k].id = talks[l].id => k = l
  BY TalkListFacts
<1>2. /\ rows \in [1 .. n -> 0 .. n - 1]
      /\ \A i \in 0 .. n - 1 : \E k \in 1 .. n : rows[k] = i
      /\ \A k, l \in 1 .. n : rows[k] = rows[l] => k = l
  BY DEF AreAllRows
<1>3. ASSUME NEW k \in 1 .. n PROVE T[rows[k] + 1] = talks[k]
  <2> DEFINE i == rows[k] + 1
             l == CHOOSE l \in 1 .. n : rows[l] = i - 1
  <2>1. i \in 1 .. n /\ rows[k] = i - 1
    BY <1>1, <1>2
  <2>2. T[i] = talks[l]
    BY <2>1 DEF TableOf
  <2> HIDE DEF i
  <2>3. l \in 1 .. n /\ rows[l] = i - 1
    BY <2>1
  <2> HIDE DEF l
  <2>4. l = k
    BY <1>2, <2>1, <2>3
  <2> QED BY <2>2, <2>4 DEF i
<1>4. ASSUME NEW i \in 0 .. n - 1 PROVE \E k \in 1 .. n : rows[k] = i /\ T[i + 1] = talks[k]
  <2>1. PICK k \in 1 .. n : rows[k] = i
    BY <1>2
  <2> QED BY <1>3, <2>1
<1>5. ASSUME NEW i \in 0 .. n - 1, NEW j \in 0 .. n - 1, T[i + 1].id = T[j + 1].id
      PROVE  i = j
  <2>1. PICK k \in 1 .. n : rows[k] = i /\ T[i + 1] = talks[k]
    BY <1>4
  <2>2. PICK l \in 1 .. n : rows[l] = j /\ T[j + 1] = talks[l]
    BY <1>4
  <2> QED BY <1>1, <1>5, <2>1, <2>2
<1> QED BY <1>3, <1>4, <1>5 DEF OnceEach, IsTableOf

\* The talks of the results of a table.
LEMMA TalksOfTable ==
  ASSUME NEW t, IsTalkList(t), NEW n, n = Len(t), NEW unsorted \in BOOLEAN,
         NEW rows, rows = ResultRows(t, unsorted), NEW s, s = Talks(t, rows)
  PROVE  /\ AreAllRows(rows, n, unsorted)
         /\ IsTalkList(s) /\ Len(s) = n
         /\ \A q \in 1 .. n : s[q] = t[rows[q] + 1]
<1>1. /\ t \in Seq(Talk) /\ n \in Nat /\ \A k \in 1 .. n : t[k] \in Talk
      /\ \A k, l \in 1 .. n : t[k].id = t[l].id => k = l
  BY TalkListFacts
<1>2. AreAllRows(rows, n, unsorted)
  BY <1>1, ResultRowsAreAll
<1>3. /\ rows \in [1 .. n -> 0 .. n - 1]
      /\ \A k, l \in 1 .. n : rows[k] = rows[l] => k = l
  BY <1>2 DEF AreAllRows
<1>4. s = [q \in 1 .. n |-> t[rows[q] + 1]]
  BY <1>3 DEF Talks
<1>5. \A q \in 1 .. n : rows[q] + 1 \in 1 .. n
  BY <1>1, <1>3
<1>6. s \in [1 .. n -> Talk]
  BY <1>1, <1>4, <1>5
<1>7. s \in Seq(Talk) /\ Len(s) = n
  <2>1. s \in Seq(Talk)
    BY <1>1, <1>6, SeqDef
  <2>2. DOMAIN s = 1 .. n
    BY <1>6
  <2> QED BY <1>1, <2>1, <2>2, LenProperties
<1>8. ASSUME NEW k \in 1 .. n, NEW l \in 1 .. n, s[k].id = s[l].id PROVE k = l
  <2>1. rows[k] + 1 = rows[l] + 1
    BY <1>1, <1>4, <1>5, <1>8
  <2>2. rows[k] = rows[l]
    BY <1>3, <2>1
  <2> QED BY <1>3, <2>2
<1>9. IsTalkList(s)
  BY <1>7, <1>8, IsTalkListIf
<1> QED BY <1>2, <1>4, <1>7, <1>9

\* A run leaves an empty log, true of the table it has seen.
LEMMA FreshLog ==
  ASSUME NEW t, IsTalkList(t), NEW unsorted \in BOOLEAN,
         NEW rows, rows = ResultRows(t, unsorted), NEW s, s = Talks(t, rows)
  PROVE  IsLogged(EmptyChange, TableOf(rows, s), Len(s), t, Len(t))
<1> DEFINE n == Len(t)
           T == TableOf(rows, s)
<1>1. /\ AreAllRows(rows, n, unsorted) /\ IsTalkList(s) /\ n = Len(s)
      /\ \A q \in 1 .. n : s[q] = t[rows[q] + 1]
  <2> HIDE DEF T
  <2>1. n = Len(t)
    OBVIOUS
  <2> HIDE DEF n
  <2> QED BY <2>1, TalksOfTable
<1>2. n \in Nat /\ OnceEach(t, n)
  BY TalkListFacts
<1> HIDE DEF n
<1>3. \A i \in 0 .. n - 1 : \E k \in 1 .. n : rows[k] = i /\ T[i + 1] = s[k]
  <2>1. T = TableOf(rows, s)
    OBVIOUS
  <2> HIDE DEF T
  <2>2. IsTableOf(T, rows, s, n)
    BY <1>1, <2>1, TableOfResults
  <2> QED BY <2>2 DEF IsTableOf
<1> HIDE DEF T
<1>4. \A i \in 0 .. n - 1 : T[i + 1] = t[i + 1]
  <2> TAKE i \in 0 .. n - 1
  <2>1. PICK k \in 1 .. n : rows[k] = i /\ T[i + 1] = s[k]
    BY <1>3
  <2> QED BY <1>1, <2>1
<1>5. IsLogged(EmptyChange, T, n, t, n)
  BY <1>2, <1>4, EmptyIsLogged DEF OnceEach
<1>6. IsLogged(EmptyChange, T, Len(s), t, Len(t))
  BY <1>1, <1>5 DEF n
<1> QED BY <1>6 DEF T

\* The talks of the results are known if those of the table are.
LEMMA ResultsAreKnown ==
  ASSUME NEW t, IsTalkList(t), NEW m, AreKnown(t, m), NEW unsorted \in BOOLEAN,
         NEW rows, rows = ResultRows(t, unsorted), NEW s, s = Talks(t, rows)
  PROVE  AreKnown(s, m)
<1> DEFINE n == Len(t)
<1>1. /\ AreAllRows(rows, n, unsorted) /\ n = Len(s)
      /\ \A q \in 1 .. n : s[q] = t[rows[q] + 1]
  BY TalksOfTable
<1>2. n \in Nat /\ \A k \in 1 .. n : t[k].id <= m
  <2>1. Len(t) \in Nat
    BY TalkListFacts
  <2> QED BY <2>1 DEF AreKnown
<1> HIDE DEF n
<1>3. \A q \in 1 .. n : rows[q] + 1 \in 1 .. n
  BY <1>1, <1>2 DEF AreAllRows
<1>4. \A q \in 1 .. n : s[q].id <= m
  BY <1>1, <1>2, <1>3
<1> QED BY <1>1, <1>4 DEF AreKnown

\* The empty change is true between a list and itself.
LEMMA EmptyIsBetween ==
  ASSUME NEW s, IsTalkList(s)
  PROVE  IsTrueBetween(EmptyChange, s, s)
<1> DEFINE n == Len(s)
           a == Ids(s)
<1>1. n \in Nat /\ IsInjectiveList(a, n)
  BY TalkListFacts
<1> HIDE DEF n, a
<1>2. EmptyChange \in ChangeSets /\ IsTrueOf(EmptyChange, a, s, n, a, s, n)
  BY <1>1, EmptyIsTrue
<1> QED BY <1>2 DEF IsTrueBetween, n, a

\* The invariant holds at the start.
LEMMA InitInv == Init => Inv
<1> SUFFICES ASSUME Init PROVE Inv
  OBVIOUS
<1>1. PICK n \in 0 .. MaxRows : \E d \in [1 .. n -> Dates] :
        table = [k \in 1 .. n |-> [id |-> k, date |-> d[k]]]
  BY DEF Init
<1>2. PICK d \in [1 .. n -> Dates] : table = [k \in 1 .. n |-> [id |-> k, date |-> d[k]]]
  BY <1>1
<1>3. /\ inTableOrder \in BOOLEAN /\ info = EmptyChange
      /\ previous = ResultRows(table, inTableOrder) /\ seen = Talks(table, previous)
      /\ accumulated = EmptyChange /\ shown = seen /\ ops = 0
  BY DEF Init
<1>4. n \in Nat /\ MaxRows \in Nat /\ n <= MaxRows
  BY ResultsAssumption
<1>5. table \in [1 .. n -> Talk]
  BY <1>2, <1>4 DEF Talk
<1>6. table \in Seq(Talk) /\ Len(table) = n
  <2>1. table \in Seq(Talk)
    BY <1>4, <1>5, SeqDef
  <2>2. DOMAIN table = 1 .. n
    BY <1>5
  <2> QED BY <1>4, <2>1, <2>2, LenProperties
<1>7. \A k \in 1 .. n : table[k].id = k
  BY <1>2
<1>8. IsTalkList(table)
  BY <1>6, <1>7, IsTalkListIf
<1>9. AreKnown(table, MaxRows + ops)
  BY <1>3, <1>4, <1>6, <1>7 DEF AreKnown
<1>10. /\ AreAllRows(previous, Len(seen), inTableOrder) /\ IsTalkList(seen)
  BY <1>3, <1>8, TalksOfTable
<1>11. AreKnown(seen, MaxRows + ops)
  BY <1>3, <1>8, <1>9, ResultsAreKnown
<1>12. IsLogged(info, TableOf(previous, seen), Len(seen), table, Len(table)) /\ IsLog(info)
  BY <1>3, <1>8, FreshLog, EmptyIsLog
<1>13. IsTrueBetween(accumulated, shown, seen)
  BY <1>3, <1>10, EmptyIsBetween
<1> QED BY <1>3, <1>8, <1>9, <1>10, <1>11, <1>12, <1>13 DEF Inv

\* The table changes and the log with it; what was seen and shown stays.
TableStep ==
  /\ ops' = ops + 1
  /\ IsTalkList(table') /\ AreKnown(table', MaxRows + ops')
  /\ IsLog(info') /\ IsLogged(info', TableOf(previous, seen), Len(seen), table', Len(table'))
  /\ UNCHANGED <<inTableOrder, previous, seen, accumulated, shown>>

\* A write keeps the invariant if it keeps the table and the log in step.
LEMMA TableStepInv ==
  ASSUME Inv, TableStep PROVE Inv'
<1>1. /\ ops' = ops + 1 /\ inTableOrder' = inTableOrder /\ previous' = previous /\ seen' = seen
      /\ accumulated' = accumulated /\ shown' = shown
      /\ IsTalkList(table') /\ AreKnown(table', MaxRows + ops')
      /\ IsLog(info') /\ IsLogged(info', TableOf(previous, seen), Len(seen), table', Len(table'))
  BY DEF TableStep
<1>2. /\ ops \in Nat /\ inTableOrder \in BOOLEAN
      /\ IsTalkList(seen) /\ AreKnown(seen, MaxRows + ops) /\ IsTalkList(shown)
      /\ AreAllRows(previous, Len(seen), inTableOrder)
      /\ IsTrueBetween(accumulated, shown, seen)
  BY DEF Inv
<1>3. AreKnown(seen, MaxRows + ops')
  <2>1. \A k \in 1 .. Len(seen) : seen[k].id \in Nat
    BY <1>2, TalkListFacts DEF Talk
  <2>2. MaxRows \in Nat
    BY ResultsAssumption
  <2> QED BY <1>1, <1>2, <2>1, <2>2 DEF AreKnown
<1>4. ops' \in Nat
  BY <1>1, <1>2
<1>5. IsLogged(info', TableOf(previous', seen'), Len(seen'), table', Len(table'))
  BY <1>1
<1>6. /\ inTableOrder' \in BOOLEAN
      /\ IsTalkList(seen') /\ AreKnown(seen', MaxRows + ops') /\ IsTalkList(shown')
      /\ AreAllRows(previous', Len(seen'), inTableOrder')
      /\ IsTrueBetween(accumulated', shown', seen')
  BY <1>1, <1>2, <1>3
<1> QED BY <1>1, <1>4, <1>5, <1>6 DEF Inv

\* What the invariant says of the table at the last run.
LEMMA OldTable ==
  ASSUME Inv, NEW T, T = TableOf(previous, seen), NEW n0, n0 = Len(seen)
  PROVE  /\ n0 \in Nat /\ IsTableOf(T, previous, seen, n0)
         /\ \A i \in 0 .. n0 - 1 : T[i + 1].id \in Nat /\ T[i + 1].id <= MaxRows + ops
<1>1. IsTalkList(seen) /\ AreKnown(seen, MaxRows + ops) /\ AreAllRows(previous, n0, inTableOrder)
  BY DEF Inv
<1>2. IsTableOf(T, previous, seen, n0)
  BY <1>1, TableOfResults
<1>3. n0 \in Nat /\ \A k \in 1 .. n0 : seen[k].id \in Nat /\ seen[k].id <= MaxRows + ops
  <2>1. Len(seen) \in Nat /\ \A k \in 1 .. Len(seen) : seen[k] \in Talk
    BY <1>1, TalkListFacts
  <2> QED BY <1>1, <2>1 DEF AreKnown, Talk
<1>4. ASSUME NEW i \in 0 .. n0 - 1 PROVE T[i + 1].id \in Nat /\ T[i + 1].id <= MaxRows + ops
  <2>1. PICK k \in 1 .. n0 : T[i + 1] = seen[k]
    BY <1>2 DEF IsTableOf
  <2> QED BY <1>3, <2>1, Zenon
<1> QED BY <1>2, <1>3, <1>4

\* The invariant is kept by inserting a talk.
LEMMA InsertTalkInv ==
  ASSUME Inv, NEW date \in Dates, InsertTalk(date) PROVE Inv'
<1> DEFINE e == [id |-> MaxRows + ops + 1, date |-> date]
           n == Len(table)
           T == TableOf(previous, seen)
           n0 == Len(seen)
<1>1. /\ IsTalkList(table) /\ AreKnown(table, MaxRows + ops) /\ ops \in Nat
      /\ IsLog(info) /\ IsLogged(info, T, n0, table, n)
  BY DEF Inv
<1>2. /\ table' = Append(table, e) /\ info' = modify(insert(info, n), n) /\ ops' = ops + 1
      /\ UNCHANGED <<inTableOrder, previous, seen, accumulated, shown>>
  BY DEF InsertTalk, Operation
<1>3. MaxRows \in Nat
  BY ResultsAssumption
<1>4. e \in Talk /\ e.id = MaxRows + ops + 1
  BY <1>1, <1>3 DEF Talk
<1> HIDE DEF e
<1>5. /\ table \in Seq(Talk) /\ n \in Nat
      /\ \A k \in 1 .. n : table[k] \in Talk
      /\ \A k, l \in 1 .. n : table[k].id = table[l].id => k = l
  BY <1>1, TalkListFacts
<1>6. /\ table' \in Seq(Talk) /\ Len(table') = n + 1
      /\ \A k \in 1 .. n : table'[k] = table[k]
      /\ table'[n + 1] = e
  BY <1>2, <1>4, <1>5, AppendProperties
<1>7. \A k \in 1 .. n : table[k].id \in Nat /\ table[k].id <= MaxRows + ops
  BY <1>1, <1>5 DEF AreKnown, Talk
<1>8. n0 \in Nat /\ \A i \in 0 .. n0 - 1 : T[i + 1].id \in Nat /\ T[i + 1].id <= MaxRows + ops
  BY OldTable
<1> HIDE DEF n, T, n0
<1>9. IsTalkList(table')
  <2>1. \A k \in 1 .. n + 1 : k \in 1 .. n \/ k = n + 1
    BY <1>5
  <2>2. \A k, l \in 1 .. n + 1 : table'[k].id = table'[l].id => k = l
    BY <1>1, <1>3, <1>4, <1>5, <1>6, <1>7, <2>1
  <2>3. \A k, l \in 1 .. Len(table') : table'[k].id = table'[l].id => k = l
    BY <1>6, <2>2
  <2> QED BY <1>6, <2>3, IsTalkListIf
<1>10. AreKnown(table', MaxRows + ops')
  <2>1. \A k \in 1 .. n + 1 : k \in 1 .. n \/ k = n + 1
    BY <1>5
  <2>2. \A k \in 1 .. n + 1 : table'[k].id <= MaxRows + ops'
    BY <1>1, <1>2, <1>3, <1>4, <1>6, <1>7, <2>1
  <2> QED BY <1>6, <2>2 DEF AreKnown
<1>11. IsLog(info') /\ IsLogged(info', T, n0, table', n + 1)
  <2>1. \A i \in 0 .. n - 1 : table'[i + 1] = table[i + 1]
    <3>1. \A i \in 0 .. n - 1 : i + 1 \in 1 .. n
      BY <1>5
    <3> QED BY <1>6, <3>1
  <2>2. \A i \in 0 .. n0 - 1 : T[i + 1].id # table'[n + 1].id
    BY <1>1, <1>3, <1>4, <1>6, <1>8
  <2> DEFINE u == table'
             d == info'
             c == info
             t == table
  <2>3. /\ IsLog(c) /\ IsLogged(c, T, n0, t, n) /\ d = modify(insert(c, n), n)
        /\ \A i \in 0 .. n - 1 : u[i + 1] = t[i + 1]
        /\ \A i \in 0 .. n0 - 1 : T[i + 1].id # u[n + 1].id
    BY <1>1, <1>2, <2>1, <2>2 DEF n
  <2> HIDE DEF u, d, c, t
  <2>4. IsTrueLog(d, T, n0, u, n + 1)
    BY <1>5, <1>8, <2>3, InsertedIsLogged
  <2> QED BY <2>4 DEF u, d, IsTrueLog
<1>12. TableStep
  BY <1>2, <1>6, <1>9, <1>10, <1>11 DEF TableStep, T, n0
<1> QED BY <1>12, TableStepInv

\* The invariant is kept by modifying a talk.
LEMMA ModifyTalkInv ==
  ASSUME Inv, NEW row \in 0 .. Len(table) - 1, NEW date \in Dates, ModifyTalk(row, date)
  PROVE  Inv'
<1> DEFINE n == Len(table)
           T == TableOf(previous, seen)
           n0 == Len(seen)
           u == table'
<1>1. /\ IsTalkList(table) /\ AreKnown(table, MaxRows + ops) /\ ops \in Nat
      /\ IsLog(info) /\ IsLogged(info, T, n0, table, n)
  BY DEF Inv
<1>2. /\ u = [table EXCEPT ![row + 1].date = date] /\ info' = modify(info, row)
      /\ ops' = ops + 1 /\ UNCHANGED <<inTableOrder, previous, seen, accumulated, shown>>
  BY DEF ModifyTalk, Operation
<1>3. MaxRows \in Nat
  BY ResultsAssumption
<1>4. /\ table \in Seq(Talk) /\ n \in Nat /\ DOMAIN table = 1 .. n
      /\ \A k \in 1 .. n : table[k] \in Talk
      /\ \A k, l \in 1 .. n : table[k].id = table[l].id => k = l
  BY <1>1, TalkListFacts
<1>5. n0 \in Nat
  BY OldTable
<1>6. row \in 0 .. n - 1
  OBVIOUS
<1> HIDE DEF n, T, n0
<1> DEFINE e == [table[row + 1] EXCEPT !.date = date]
<1>7. row + 1 \in 1 .. n
  BY <1>4, <1>6
<1>8. e \in Talk /\ e.id = table[row + 1].id
  <2>1. table[row + 1] \in Talk
    BY <1>4, <1>7
  <2> QED BY <2>1 DEF Talk
<1>9. u = [table EXCEPT ![row + 1] = e]
  BY <1>2
<1> HIDE DEF e, u
<1>10. /\ u \in Seq(Talk) /\ Len(u) = n
       /\ \A k \in 1 .. n : u[k] = IF k = row + 1 THEN e ELSE table[k]
  <2>1. row + 1 \in 1 .. Len(table)
    BY <1>7 DEF n
  <2> QED BY <1>4, <1>8, <1>9, <2>1, ExceptSeq DEF n
<1>11. \A k \in 1 .. n : u[k].id = table[k].id
  BY <1>8, <1>10
<1>12. IsTalkList(u)
  <2>1. \A k, l \in 1 .. Len(u) : u[k].id = u[l].id => k = l
    BY <1>4, <1>10, <1>11
  <2> QED BY <1>10, <2>1, IsTalkListIf
<1>13. AreKnown(u, MaxRows + ops')
  <2>1. \A k \in 1 .. n : table[k].id \in Nat /\ table[k].id <= MaxRows + ops
    BY <1>1, <1>4 DEF AreKnown, Talk, n
  <2>2. \A k \in 1 .. n : u[k].id <= MaxRows + ops'
    BY <1>1, <1>2, <1>3, <1>11, <2>1
  <2> QED BY <1>10, <2>2 DEF AreKnown
<1>14. IsLog(info') /\ IsLogged(info', T, n0, u, n)
  <2>1. \A i \in 0 .. n - 1 : i + 1 \in 1 .. n
    BY <1>4
  <2>2. \A i \in 0 .. n - 1 : u[i + 1].id = table[i + 1].id
    BY <1>11, <2>1
  <2>3. \A i \in 0 .. n - 1 : i # row => u[i + 1] = table[i + 1]
    BY <1>6, <1>10, <2>1
  <2>4. IsTrueLog(info', T, n0, u, n)
    BY <1>1, <1>2, <1>4, <1>5, <1>6, <2>2, <2>3, ModifiedIsLogged
  <2> QED BY <2>4 DEF IsTrueLog
<1>15. TableStep
  BY <1>2, <1>10, <1>12, <1>13, <1>14 DEF TableStep, T, n0, u
<1> QED BY <1>15, TableStepInv

\* The invariant is kept by deleting a talk.
LEMMA DeleteTalkInv ==
  ASSUME Inv, NEW row \in 0 .. Len(table) - 1, DeleteTalk(row)
  PROVE  Inv'
<1> DEFINE n == Len(table)
           last == n - 1
           T == TableOf(previous, seen)
           n0 == Len(seen)
           u == table'
<1>1. /\ IsTalkList(table) /\ AreKnown(table, MaxRows + ops) /\ ops \in Nat
      /\ IsLog(info) /\ IsLogged(info, T, n0, table, n)
  BY DEF Inv
<1>2. /\ u = SubSeq([table EXCEPT ![row + 1] = table[last + 1]], 1, last)
      /\ info' = move_over(info, row, last)
      /\ ops' = ops + 1 /\ UNCHANGED <<inTableOrder, previous, seen, accumulated, shown>>
  BY DEF DeleteTalk, Operation
<1>3. MaxRows \in Nat
  BY ResultsAssumption
<1>4. /\ table \in Seq(Talk) /\ n \in Nat
      /\ \A k \in 1 .. n : table[k] \in Talk
      /\ \A k, l \in 1 .. n : table[k].id = table[l].id => k = l
  BY <1>1, TalkListFacts
<1>5. n0 \in Nat
  BY OldTable
<1>6. row \in 0 .. n - 1 /\ last = n - 1
  OBVIOUS
<1>7. n = Len(table)
  OBVIOUS
<1> HIDE DEF n, T, n0, last
<1>8. n \in Nat \ {0} /\ last \in Nat /\ row \in 0 .. last /\ last + 1 = n /\ row + 1 \in 1 .. n
  BY <1>4, <1>6
<1> DEFINE s == [table EXCEPT ![row + 1] = table[last + 1]]
<1>9. \A k \in 1 .. n : s[k] = (IF k = row + 1 THEN table[n] ELSE table[k]) /\ s[k] \in Talk
  <2>1. row + 1 \in 1 .. Len(table) /\ table[last + 1] \in Talk
    BY <1>4, <1>7, <1>8
  <2>2. \A k \in 1 .. Len(table) : s[k] = IF k = row + 1 THEN table[last + 1] ELSE table[k]
    BY <1>4, <2>1, ExceptSeq
  <2> HIDE DEF s
  <2> QED BY <1>4, <1>7, <1>8, <2>2
<1>10. u = SubSeq(s, 1, last)
  BY <1>2
<1> HIDE DEF s, u
<1>11. /\ u \in Seq(Talk) /\ Len(u) = last
       /\ \A k \in 1 .. last : u[k] = IF k = row + 1 THEN table[n] ELSE table[k]
  <2>1. 1 \in Int /\ last \in Int /\ \A i \in 1 .. last : s[i] \in Talk
    BY <1>8, <1>9
  <2>2. /\ SubSeq(s, 1, last) \in Seq(Talk)
        /\ Len(SubSeq(s, 1, last)) = IF 1 <= last THEN last - 1 + 1 ELSE 0
        /\ \A i \in 1 .. last - 1 + 1 : SubSeq(s, 1, last)[i] = s[1 + i - 1]
    BY <2>1, SubSeqProperties
  <2>3. u \in Seq(Talk) /\ Len(u) = last /\ \A i \in 1 .. last : u[i] = s[i]
    BY <1>8, <1>10, <2>2
  <2>4. \A i \in 1 .. last : i \in 1 .. n
    BY <1>8
  <2> QED BY <1>9, <2>3, <2>4
<1>12. ASSUME NEW k \in 1 .. last, NEW l \in 1 .. last, u[k].id = u[l].id PROVE k = l
  <2>1. k \in 1 .. n /\ l \in 1 .. n /\ k # n /\ l # n /\ n \in 1 .. n
    BY <1>8
  <2> QED BY <1>4, <1>11, <1>12, <2>1
<1>13. IsTalkList(u)
  BY <1>11, <1>12, IsTalkListIf
<1>14. AreKnown(u, MaxRows + ops')
  <2>1. \A k \in 1 .. n : table[k].id \in Nat /\ table[k].id <= MaxRows + ops
    BY <1>1, <1>4, <1>7 DEF AreKnown, Talk
  <2>2. ASSUME NEW k \in 1 .. last PROVE u[k].id <= MaxRows + ops'
    <3>1. k \in 1 .. n /\ n \in 1 .. n
      BY <1>8
    <3>2. u[k].id \in Nat /\ u[k].id <= MaxRows + ops
      BY <1>11, <2>1, <3>1
    <3>3. ops \in Nat /\ ops' = ops + 1
      BY <1>1, <1>2
    <3> QED BY <1>3, <3>2, <3>3
  <2> QED BY <1>11, <2>2 DEF AreKnown
<1>15. IsLog(info') /\ IsLogged(info', T, n0, u, last)
  <2>1. \A i \in 0 .. last - 1 :
          u[i + 1] = IF i = row THEN table[last + 1] ELSE table[i + 1]
    <3> TAKE i \in 0 .. last - 1
    <3>1. i + 1 \in 1 .. last /\ (i + 1 = row + 1 <=> i = row)
      BY <1>8
    <3> QED BY <1>8, <1>11, <3>1
  <2> DEFINE d == info'
             c == info
             t == table
  <2>2. /\ IsLog(c) /\ IsLogged(c, T, n0, t, n) /\ d = move_over(c, row, last)
        /\ \A i \in 0 .. last - 1 : u[i + 1] = IF i = row THEN t[last + 1] ELSE t[i + 1]
    BY <1>1, <1>2, <2>1, Zenon DEF n, last
  <2> HIDE DEF d, c, t
  <2>3. IsTrueLog(d, T, n0, u, last)
    BY <1>5, <1>6, <1>8, <2>2, DeleteIsLogged
  <2> QED BY <2>3 DEF d, IsTrueLog
<1>16. TableStep
  BY <1>2, <1>11, <1>13, <1>14, <1>15 DEF TableStep, T, n0, u
<1> QED BY <1>16, TableStepInv

\* What Run has at hand.
LEMMA RunFacts ==
  ASSUME Inv, NEW ch, ch = parse_complete(info),
         NEW next, next = ResultRows(table, inTableOrder), NEW s, s = Talks(table, next)
  PROVE  IsRun(PreviousRows(ch), next, seen, s, Len(seen), table, Len(table),
               previous, inTableOrder, ch.insertions, ch.modifications)
<1> DEFINE n == Len(table)
           T == TableOf(previous, seen)
           n0 == Len(seen)
           I == info.insertions
           D == info.deletions
           M == info.modifications
           mm == info.move_mapping
           prev == PreviousRows(ch)
<1>1. /\ IsTalkList(table) /\ IsTalkList(seen) /\ inTableOrder \in BOOLEAN
      /\ AreAllRows(previous, n0, inTableOrder)
      /\ IsLog(info) /\ IsLogged(info, T, n0, table, n)
  BY DEF Inv
<1>2. n \in Nat /\ OnceEach(table, n)
  BY <1>1, TalkListFacts
<1>3. n0 \in Nat /\ OnceEach(seen, n0)
  BY <1>1, TalkListFacts
<1>4. IsTableOf(T, previous, seen, n0)
  BY OldTable
<1>5. IsLogOf(I, D, M, mm, T, n0, table, n)
  BY <1>1 DEF IsLogged
<1> HIDE DEF n0, T
<1>6. AreAllRows(next, n, inTableOrder) /\ \A q \in 1 .. n : s[q] = table[next[q] + 1]
  BY <1>1, TalksOfTable
<1> HIDE DEF n
<1>7. IsParsed(ch, I, D, M, mm)
  BY <1>1, <1>2, <1>3, LogIsParsed
<1> HIDE DEF I, D, M, mm
<1>8. ArePreviousRows(prev, seen, n0, table, n, previous, I)
  <2>1. previous \in [1 .. n0 -> 0 .. n0 - 1]
    BY <1>1 DEF AreAllRows
  <2>2. OnceEach(T, n0) /\ \A k \in 1 .. n0 : T[previous[k] + 1] = seen[k]
    BY <1>4 DEF IsTableOf
  <2> QED BY <1>2, <1>3, <1>5, <1>7, <2>1, <2>2, PreviousRowsFollow
<1> HIDE DEF prev
<1>9. ASSUME NEW p \in 0 .. n0 - 1, NEW j \in 0 .. n - 1,
             seen[p + 1].id = table[j + 1].id, seen[p + 1] # table[j + 1]
      PROVE  j \in M
  <2> DEFINE i == previous[p + 1]
  <2>1. p + 1 \in 1 .. n0
    BY <1>3
  <2>2. i \in 0 .. n0 - 1
    BY <1>1, <2>1 DEF AreAllRows
  <2>3. T[i + 1] = seen[p + 1]
    BY <1>4, <2>1 DEF IsTableOf
  <2> HIDE DEF i
  <2>4. T[i + 1].id = table[j + 1].id /\ T[i + 1] # table[j + 1]
    BY <1>9, <2>3
  <2> QED BY <1>5, <2>2, <2>4 DEF IsLogOf
<1>10. IsRun(prev, next, seen, s, n0, table, n, previous, inTableOrder, I, M)
  BY <1>1, <1>2, <1>3, <1>6, <1>8, <1>9 DEF IsRun
<1>11. ch.insertions = I /\ ch.modifications = M
  BY <1>7 DEF IsParsed
<1> QED BY <1>10, <1>11 DEF prev, n0, n

\* The invariant is kept by a run: its change is true of the results before and
\* after it, and merged into the one that waits.
LEMMA RunInv ==
  ASSUME Inv, Run PROVE Inv'
<1> DEFINE ch == parse_complete(info)
           next == ResultRows(table, inTableOrder)
           s == Talks(table, next)
           prev == PreviousRows(ch)
           c == calculate(prev, next, ch.modifications, inTableOrder, ch.insertions)
<1>1. /\ previous' = next /\ seen' = s /\ accumulated' = merge(accumulated, c)
      /\ info' = EmptyChange /\ table' = table /\ inTableOrder' = inTableOrder
      /\ shown' = shown /\ ops' = ops
  BY DEF Run
<1>2. /\ ops \in Nat /\ inTableOrder \in BOOLEAN
      /\ IsTalkList(table) /\ AreKnown(table, MaxRows + ops)
      /\ IsTalkList(seen) /\ IsTalkList(shown)
      /\ IsTrueBetween(accumulated, shown, seen)
  BY DEF Inv
<1>3. IsRun(prev, next, seen, s, Len(seen), table, Len(table), previous, inTableOrder,
            ch.insertions, ch.modifications)
  BY RunFacts
<1>4. /\ AreAllRows(next, Len(s), inTableOrder) /\ IsTalkList(s) /\ Len(s) = Len(table)
  <2>1. next = ResultRows(table, inTableOrder) /\ s = Talks(table, next)
    OBVIOUS
  <2> HIDE DEF next, s
  <2>2. AreAllRows(next, Len(table), inTableOrder) /\ IsTalkList(s) /\ Len(s) = Len(table)
    BY <1>2, <2>1, TalksOfTable
  <2> QED BY <2>2
<1>5. AreKnown(s, MaxRows + ops)
  BY <1>2, ResultsAreKnown
<1>6. IsLogged(EmptyChange, TableOf(next, s), Len(s), table, Len(table)) /\ IsLog(EmptyChange)
  BY <1>2, FreshLog, EmptyIsLog
<1> DEFINE a == Ids(shown)
           na == Len(shown)
           b == Ids(seen)
           nb == Len(seen)
           e == Ids(s)
           ne == Len(s)
           I == ch.insertions
           M == ch.modifications
<1>7. /\ na \in Nat /\ IsInjectiveList(a, na) /\ nb \in Nat /\ IsInjectiveList(b, nb)
      /\ ne \in Nat /\ IsInjectiveList(e, ne)
  BY <1>2, <1>4, TalkListFacts
<1>8. /\ \A p \in 0 .. nb - 1 : b[p + 1] = seen[p + 1].id
      /\ \A q \in 0 .. ne - 1 : e[q + 1] = s[q + 1].id
  BY <1>2, <1>4, TalkListFacts
<1>9. IsRun(prev, next, seen, s, nb, table, ne, previous, inTableOrder, I, M)
  BY <1>3, <1>4
<1>10. accumulated \in ChangeSets /\ IsTrueOf(accumulated, a, shown, na, b, seen, nb)
  BY <1>2 DEF IsTrueBetween
<1>11. c = calculate(prev, next, M, inTableOrder, I)
  OBVIOUS
<1> HIDE DEF ch, next, s, prev, c, a, na, b, nb, e, ne, I, M
<1>12. c \in ChangeSets /\ IsTrueOf(c, b, seen, nb, e, s, ne)
  BY <1>8, <1>9, <1>11, RunIsTrue
<1>13. AreSuccessive(accumulated, c, a, shown, na, b, seen, nb, e, s, ne)
  BY <1>7, <1>10, <1>12 DEF AreSuccessive
<1> DEFINE r == merge(accumulated, c)
<1>14. r \in ChangeSets /\ IsTrueOf(r, a, shown, na, e, s, ne)
  BY <1>10, <1>12, <1>13, MergedChangeIsTrue
<1> HIDE DEF r
<1>15. IsTrueBetween(accumulated', shown', seen')
  <2>1. IsTrueBetween(r, shown, s)
    BY <1>14 DEF IsTrueBetween, a, na, e, ne
  <2>2. accumulated' = r
    BY <1>1 DEF r
  <2> QED BY <1>1, <2>1, <2>2
<1>16. /\ ops' \in Nat /\ inTableOrder' \in BOOLEAN
       /\ IsTalkList(table') /\ AreKnown(table', MaxRows + ops')
       /\ IsTalkList(seen') /\ AreKnown(seen', MaxRows + ops') /\ IsTalkList(shown')
       /\ AreAllRows(previous', Len(seen'), inTableOrder')
       /\ IsLog(info') /\ IsLogged(info', TableOf(previous', seen'), Len(seen'),
                                   table', Len(table'))
  BY <1>1, <1>2, <1>4, <1>5, <1>6
<1> QED BY <1>15, <1>16 DEF Inv

\* What waits to be delivered.
LEMMA PendingIsTrue ==
  ASSUME Inv
  PROVE  /\ IsTrueOfLists(accumulated, Ids(shown), shown, Len(shown), Ids(seen), seen, Len(seen))
         /\ \A p \in 0 .. Len(shown) - 1 : Ids(shown)[p + 1] = shown[p + 1].id
         /\ \A q \in 0 .. Len(seen) - 1 : Ids(seen)[q + 1] = seen[q + 1].id
         /\ shown \in Seq(Talk) /\ seen \in Seq(Talk)
<1>1. IsTalkList(shown) /\ IsTalkList(seen) /\ IsTrueBetween(accumulated, shown, seen)
  BY DEF Inv
<1>2. /\ Len(shown) \in Nat /\ IsInjectiveList(Ids(shown), Len(shown)) /\ shown \in Seq(Talk)
      /\ \A p \in 0 .. Len(shown) - 1 : Ids(shown)[p + 1] = shown[p + 1].id
  BY <1>1, TalkListFacts
<1>3. /\ Len(seen) \in Nat /\ IsInjectiveList(Ids(seen), Len(seen)) /\ seen \in Seq(Talk)
      /\ \A q \in 0 .. Len(seen) - 1 : Ids(seen)[q + 1] = seen[q + 1].id
  BY <1>1, TalkListFacts
<1>4. IsTrueOf(accumulated, Ids(shown), shown, Len(shown), Ids(seen), seen, Len(seen))
  BY <1>1 DEF IsTrueBetween
<1> QED BY <1>2, <1>3, <1>4 DEF IsTrueOfLists

\* The change that waits takes the rows shown to those seen.
LEMMA PendingUpdates ==
  ASSUME Inv PROVE Updated(shown, finalize(accumulated), seen) = seen
<1> DEFINE a == Ids(shown)
           b == Ids(seen)
           n0 == Len(shown)
           n == Len(seen)
<1>1. IsTrueOfLists(accumulated, a, shown, n0, b, seen, n)
      /\ shown \in Seq(Talk) /\ seen \in Seq(Talk)
  BY PendingIsTrue
<1>2. n0 = Len(shown) /\ n = Len(seen)
  OBVIOUS
<1> HIDE DEF a, b, n0, n
<1> QED BY <1>1, <1>2, UpdatedIsNew

\* The change that waits is a batch.
LEMMA PendingIsBatch ==
  ASSUME Inv PROVE IsBatch(finalize(accumulated), shown, Len(shown), seen, Len(seen))
<1> DEFINE a == Ids(shown)
           b == Ids(seen)
           n0 == Len(shown)
           n == Len(seen)
<1>1. /\ IsTrueOfLists(accumulated, a, shown, n0, b, seen, n)
      /\ \A p \in 0 .. n0 - 1 : a[p + 1] = shown[p + 1].id
      /\ \A q \in 0 .. n - 1 : b[q + 1] = seen[q + 1].id
  BY PendingIsTrue
<1> HIDE DEF a, b, n0, n
<1>2. IsBatch(finalize(accumulated), shown, n0, seen, n)
  BY <1>1, FinalizedIsBatch
<1> QED BY <1>2 DEF n0, n

\* The invariant is kept by a delivery.
LEMMA DeliverInv ==
  ASSUME Inv, Deliver PROVE Inv'
<1>1. /\ shown' = Updated(shown, finalize(accumulated), seen) /\ accumulated' = EmptyChange
      /\ UNCHANGED <<table, inTableOrder, info, previous, seen, ops>>
  BY DEF Deliver
<1>2. shown' = seen
  BY <1>1, PendingUpdates
<1>3. IsTalkList(seen)
  BY DEF Inv
<1>4. IsTalkList(shown') /\ IsTrueBetween(accumulated', shown', seen')
  BY <1>1, <1>2, <1>3, EmptyIsBetween
<1> QED BY <1>1, <1>4 DEF Inv

\* The invariant is kept when nothing changes.
LEMMA StutterInv ==
  ASSUME Inv, UNCHANGED vars PROVE Inv'
BY DEF Inv, vars

\* Whatever the transactions, runs and deliveries: the change that waits is true
\* of the talks shown and those of the last run, and the log is true of the table
\* at the last run and the table now (run, merge and the transaction log).
THEOREM InvHolds == Spec => []Inv
<1>1. Init => Inv
  BY InitInv
<1>2. Inv /\ [Next]_vars => Inv'
  <2> SUFFICES ASSUME Inv, [Next]_vars PROVE Inv'
    OBVIOUS
  <2>1. CASE \E date \in Dates : InsertTalk(date)
    BY <2>1, InsertTalkInv
  <2>2. CASE \E row \in 0 .. Len(table) - 1 : \E date \in Dates : ModifyTalk(row, date)
    BY <2>2, ModifyTalkInv
  <2>3. CASE \E row \in 0 .. Len(table) - 1 : DeleteTalk(row)
    BY <2>3, DeleteTalkInv
  <2>4. CASE Run
    BY <2>4, RunInv
  <2>5. CASE Deliver
    BY <2>5, DeliverInv
  <2>6. CASE UNCHANGED vars
    BY <2>6, StutterInv
  <2> QED BY <2>1, <2>2, <2>3, <2>4, <2>5, <2>6 DEF Next
<1> QED BY <1>1, <1>2, PTL DEF Spec

(***************************************************************************)
(* The properties.                                                          *)
(***************************************************************************)

\* For any dates and any number of rows and operations: whatever was inserted,
\* modified and moved over since the last delivery, and in however many runs it
\* was calculated and merged, delivering the accumulated change makes the cells
\* show exactly the talks of the last results, and the batch is one that UIKit
\* accepts (package_for_delivery, and the three lists of the listing).
THEOREM PendingChangeIsAlwaysExact == Spec => []PendingChangeIsExact
<1>1. Inv => PendingChangeIsExact
  <2> SUFFICES ASSUME Inv PROVE PendingChangeIsExact
    OBVIOUS
  <2>1. Updated(shown, finalize(accumulated), seen) = seen
    BY PendingUpdates
  <2>2. IsBatch(finalize(accumulated), shown, Len(shown), seen, Len(seen))
    BY PendingIsBatch
  <2> QED BY <2>1, <2>2, Zenon DEF PendingChangeIsExact, IsBatch
<1> QED BY <1>1, InvHolds, PTL

\* No row is reloaded and deleted in one batch, and the rows reported as modified
\* are, in both numberings, the same talks (finalize).
THEOREM ReloadedRowsAlwaysSurvive == Spec => []ReloadedRowsSurvive
<1>1. Inv => ReloadedRowsSurvive
  <2> SUFFICES ASSUME Inv PROVE ReloadedRowsSurvive
    OBVIOUS
  <2>1. IsBatch(finalize(accumulated), shown, Len(shown), seen, Len(seen))
    BY PendingIsBatch
  <2> QED BY <2>1, Zenon DEF ReloadedRowsSurvive, IsBatch
<1> QED BY <1>1, InvHolds, PTL

\* Every move of the accumulated change, followed through the merges, is of one
\* talk, from a deleted row to an inserted one (verify, in debug builds).
THEOREM MovesAreAlwaysTrue == Spec => []MovesAreTrue
<1>1. Inv => MovesAreTrue
  <2> SUFFICES ASSUME Inv, NEW m \in Range(accumulated.moves)
               PROVE  /\ m.from \in accumulated.deletions
                      /\ m.to \in accumulated.insertions
                      /\ shown[m.from + 1].id = seen[m.to + 1].id
    BY DEF MovesAreTrue
  <2> DEFINE a == Ids(shown)
             b == Ids(seen)
             n0 == Len(shown)
             n == Len(seen)
             moves == accumulated.moves
             D == accumulated.deletions
             I == accumulated.insertions
  <2>1. /\ IsTrueOfLists(accumulated, a, shown, n0, b, seen, n)
        /\ \A p \in 0 .. n0 - 1 : a[p + 1] = shown[p + 1].id
        /\ \A q \in 0 .. n - 1 : b[q + 1] = seen[q + 1].id
    BY PendingIsTrue
  <2>2. AreRows(D, n0) /\ AreRows(I, n) /\ AreTrueMoves(moves, a, b, D, I)
    BY <2>1 DEF IsTrueOfLists, IsTrueOf, IsExactChange
  <2>3. m \in Range(moves)
    OBVIOUS
  <2> HIDE DEF a, b, n0, n, moves, D, I
  <2>4. DOMAIN moves = 1 .. Len(moves)
    BY <2>2, LenProperties DEF AreTrueMoves, MoveList
  <2>5. PICK k \in 1 .. Len(moves) : m = moves[k]
    BY <2>3, <2>4 DEF Range
  <2>6. IsTrueMove(m, a, b, D, I)
    BY <2>2, <2>5 DEF AreTrueMoves
  <2>7. m.from \in D /\ m.to \in I /\ a[m.from + 1] = b[m.to + 1]
    BY <2>6 DEF IsTrueMove
  <2>8. m.from \in 0 .. n0 - 1 /\ m.to \in 0 .. n - 1
    BY <2>2, <2>7 DEF AreRows
  <2>9. shown[m.from + 1].id = seen[m.to + 1].id
    BY <2>1, <2>7, <2>8
  <2> QED BY <2>7, <2>9 DEF D, I
<1> QED BY <1>1, InvHolds, PTL
=============================================================================
