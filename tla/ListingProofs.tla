---------------------------- MODULE ListingProofs ----------------------------
(***************************************************************************)
(* Theorems about the listing screen, for any set of talks and any number   *)
(* of versions: whatever is committed in between, the batches fit the rows  *)
(* of the table view, and its cells show their talks.  They rest on what    *)
(* CollectionChangeProofs proves of the changes that calculate finds.       *)
(***************************************************************************)
EXTENDS Listing, CollectionChangeProofs

(***************************************************************************)
(* Tables and their sorted results.                                         *)
(***************************************************************************)

\* A version of the table has finitely many talks, each with a positive id.
LEMMA TableFacts ==
  ASSUME NEW v \in Tables
  PROVE  /\ DOMAIN v \subseteq Ids /\ IsFiniteSet(DOMAIN v)
         /\ \A id \in DOMAIN v : id \in Nat \ {0} /\ v[id] \in Dates
<1>1. PICK S \in SUBSET Ids : v \in [S -> Dates]
  BY DEF Tables
<1>2. DOMAIN v = S
  BY <1>1
<1>3. IsFiniteSet(S)
  BY ListingAssumption, FS_Subset
<1>4. \A id \in S : id \in Nat \ {0} /\ v[id] \in Dates
  BY <1>1, ListingAssumption
<1> QED BY <1>2, <1>3, <1>4

\* s lists the members of S, each once.
IsListOf(s, S) ==
  /\ Cardinality(S) \in Nat
  /\ s \in [1 .. Cardinality(S) -> S]
  /\ \A x \in S : \E k \in 1 .. Cardinality(S) : s[k] = x
  /\ IsInjectiveList(s, Cardinality(S))

\* SortedBy lists every member of a finite set once.
LEMMA SortedByLists ==
  ASSUME NEW S, IsFiniteSet(S), NEW before, IsStrictOrder(before, S)
  PROVE  IsListOf(SortedBy(S, before), S)
<1> DEFINE s == SortedBy(S, before)
           n == Cardinality(S)
<1>1. /\ n \in Nat
      /\ s \in [1 .. n -> S]
      /\ \A x \in S : \E k \in 1 .. n : s[k] = x
      /\ \A k, l \in 1 .. n : k < l <=> <<s[k], s[l]>> \in before
  BY SortedByOrders
<1> HIDE DEF s, n
<1>2. IsInjectiveList(s, n)
  <2> SUFFICES ASSUME NEW k \in 1 .. n, NEW l \in 1 .. n, s[k] = s[l] PROVE k = l
    BY DEF IsInjectiveList
  <2>1. s[k] \in S
    BY <1>1
  <2>2. <<s[k], s[k]>> \notin before
    BY <2>1 DEF IsStrictOrder
  <2>3. /\ k < l <=> <<s[k], s[l]>> \in before
        /\ l < k <=> <<s[l], s[k]>> \in before
    BY <1>1
  <2>4. ~ k < l /\ ~ l < k
    BY <2>2, <2>3
  <2> QED BY <1>1, <2>4
<1> QED BY <1>1, <1>2 DEF IsListOf, s, n

\* The results are a list of the talks of the table, in either order.
LEMMA SortedLists ==
  ASSUME NEW v \in Tables, NEW by
  PROVE  IsListOf(Sorted(v, by), DOMAIN v)
<1> DEFINE S == DOMAIN v
           created == {e \in S \X S : e[1] > e[2]}
           modified == {e \in S \X S : \/ v[e[1]] < v[e[2]]
                                       \/ v[e[1]] = v[e[2]] /\ e[1] < e[2]}
<1>1. IsFiniteSet(S) /\ \A x \in S : x \in Int /\ v[x] \in Int
  BY TableFacts DEF Dates
<1>2. Sorted(v, by) = SortedBy(S, IF by = "created" THEN created ELSE modified)
  BY Zenon DEF Sorted
<1> HIDE DEF S
<1>3. IsStrictOrder(created, S)
  <2>1. \A x, y \in S : <<x, y>> \in created <=> x > y
    OBVIOUS
  <2> HIDE DEF created
  <2>2. \A x, y \in S : <<x, y>> \in created => <<y, x>> \notin created
    BY <1>1, <2>1
  <2>3. \A x, y, z \in S : <<x, y>> \in created /\ <<y, z>> \in created => <<x, z>> \in created
    BY <1>1, <2>1
  <2>4. ASSUME NEW x \in S, NEW y \in S
        PROVE  x = y \/ <<x, y>> \in created \/ <<y, x>> \in created
    <3>1. x = y \/ x > y \/ y > x
      BY <1>1
    <3> QED BY <2>1, <3>1
  <2> QED BY <2>2, <2>3, <2>4 DEF IsStrictOrder
<1>4. IsStrictOrder(modified, S)
  <2>1. \A x, y \in S : <<x, y>> \in modified <=> v[x] < v[y] \/ (v[x] = v[y] /\ x < y)
    OBVIOUS
  <2> HIDE DEF modified
  <2>2. \A x, y \in S : <<x, y>> \in modified => <<y, x>> \notin modified
    BY <1>1, <2>1
  <2>3. \A x, y, z \in S : <<x, y>> \in modified /\ <<y, z>> \in modified => <<x, z>> \in modified
    BY <1>1, <2>1
  <2>4. ASSUME NEW x \in S, NEW y \in S
        PROVE  x = y \/ <<x, y>> \in modified \/ <<y, x>> \in modified
    <3>1. /\ v[x] < v[y] \/ v[x] = v[y] \/ v[y] < v[x]
          /\ x = y \/ x < y \/ y < x
      BY <1>1
    <3> QED BY <2>1, <3>1
  <2> QED BY <2>2, <2>3, <2>4 DEF IsStrictOrder
<1> HIDE DEF created, modified
<1> DEFINE before == IF by = "created" THEN created ELSE modified
<1>5. IsStrictOrder(before, S)
  BY <1>3, <1>4
<1> HIDE DEF before
<1>6. IsListOf(SortedBy(S, before), S)
  BY <1>1, <1>5, SortedByLists
<1> QED BY <1>2, <1>6 DEF before, S

(***************************************************************************)
(* The change between two versions.                                         *)
(***************************************************************************)

Told(from, to) == {versions[k] : k \in from .. to}
Kept(from, to) == {id \in Ids : \A version \in Told(from, to) : id \in DOMAIN version}
Altered(from, to) == {id \in Kept(from, to) : \E v, w \in Told(from, to) : v[id] # w[id]}
Results(k) == Sorted(versions[k], "created")
OldResults(from, to) ==
  [k \in DOMAIN Results(from) |->
    IF Results(from)[k] \in Kept(from, to) THEN Results(from)[k] ELSE npos]
NewResults(from, to) ==
  [k \in DOMAIN Results(to) |->
    IF Results(to)[k] \in Kept(from, to) THEN Results(to)[k] ELSE npos - Results(to)[k]]
Size(k) == Cardinality(DOMAIN versions[k])

\* The change between two versions is true of their results.
LEMMA ChangeIsTrue ==
  ASSUME versions \in Seq(Tables), NEW from \in 1 .. Len(versions), NEW to \in 1 .. Len(versions)
  PROVE  IsTrueChange(Change(from, to), OldResults(from, to), NewResults(from, to),
                      Size(from), Size(to), Altered(from, to))
<1> DEFINE old == Results(from)
           new == Results(to)
           kept == Kept(from, to)
           prev == OldResults(from, to)
           next == NewResults(from, to)
           np == Size(from)
           nq == Size(to)
<1>1. Change(from, to) = finalize(calculate(prev, next, Altered(from, to), FALSE, {}))
  BY Zenon DEF Change, OldResults, NewResults, Altered, Kept, Told, Results
<1>2. versions[from] \in Tables /\ versions[to] \in Tables
  OBVIOUS
<1>3. IsListOf(old, DOMAIN versions[from]) /\ IsListOf(new, DOMAIN versions[to])
  BY <1>2, SortedLists DEF Results
<1>4. /\ \A id \in DOMAIN versions[from] : id \in Nat \ {0}
      /\ \A id \in DOMAIN versions[to] : id \in Nat \ {0}
  BY <1>2, TableFacts
<1>5. /\ np \in Nat /\ DOMAIN old = 1 .. np /\ \A k \in 1 .. np : old[k] \in Nat \ {0}
      /\ IsInjectiveList(old, np)
  BY <1>3, <1>4 DEF IsListOf, Size
<1>6. /\ nq \in Nat /\ DOMAIN new = 1 .. nq /\ \A k \in 1 .. nq : new[k] \in Nat \ {0}
      /\ IsInjectiveList(new, nq)
  BY <1>3, <1>4 DEF IsListOf, Size
<1>7. prev = [k \in 1 .. np |-> IF old[k] \in kept THEN old[k] ELSE npos]
  BY <1>5 DEF OldResults
<1>8. next = [k \in 1 .. nq |-> IF new[k] \in kept THEN new[k] ELSE npos - new[k]]
  BY <1>6 DEF NewResults
<1> HIDE DEF old, new, kept, np, nq, prev, next
<1>9. AreResults(prev, next, np, nq)
  <2>1. prev \in [1 .. np -> Int]
    BY <1>5, <1>7 DEF npos
  <2>2. next \in [1 .. nq -> Int]
    BY <1>6, <1>8 DEF npos
  <2>3. \A k, l \in 1 .. np : prev[k] = prev[l] /\ prev[k] # npos => k = l
    <3> SUFFICES ASSUME NEW k \in 1 .. np, NEW l \in 1 .. np, prev[k] = prev[l], prev[k] # npos
                 PROVE  k = l
      OBVIOUS
    <3>1. old[k] = old[l]
      BY <1>7
    <3> QED BY <1>5, <3>1 DEF IsInjectiveList
  <2>4. IsInjectiveList(next, nq)
    <3> SUFFICES ASSUME NEW k \in 1 .. nq, NEW l \in 1 .. nq, next[k] = next[l]
                 PROVE  k = l
      BY DEF IsInjectiveList
    <3>1. next[k] = new[k] \/ next[k] = npos - new[k]
      BY <1>8
    <3>2. next[l] = new[l] \/ next[l] = npos - new[l]
      BY <1>8
    <3>3. new[k] = new[l]
      BY <1>6, <3>1, <3>2 DEF npos
    <3> QED BY <1>6, <3>3 DEF IsInjectiveList
  <2>5. \A k \in 1 .. nq : next[k] # npos
    BY <1>6, <1>8 DEF npos
  <2> QED BY <2>1, <2>2, <2>3, <2>4, <2>5 DEF AreResults
<1> DEFINE c == Change(from, to)
           changed == Altered(from, to)
<1>10. c = finalize(calculate(prev, next, changed, FALSE, {}))
  BY <1>1
<1> HIDE DEF c, changed
<1>11. IsTrueChange(c, prev, next, np, nq, changed)
  BY <1>5, <1>6, <1>9, <1>10, CalculatedChangeIsTrue
<1> QED BY <1>11 DEF c, changed, prev, next, np, nq

\* What the batch for a change relies on, from version 1 to version v.
IsBatch(c, v) ==
  /\ \A x \in c.deletions \union c.modifications : x \in 0 .. Size(1) - 1
  /\ Size(1) - Cardinality(c.deletions) + Cardinality(c.insertions) = Size(v)
  /\ \A r \in 1 .. Size(v) : r - 1 \notin c.insertions =>
       LET o == shift(c.deletions, unshift(c.insertions, r - 1)) + 1
       IN /\ o \in 1 .. Size(1)
          /\ Results(1)[o] = Results(v)[r]
          /\ o - 1 \notin c.modifications =>
               versions[1][Results(1)[o]] = versions[v][Results(v)[r]]
  /\ c.deletions = {} => \A k \in 1 .. v : DOMAIN versions[1] \subseteq DOMAIN versions[k]

\* A delivered change, finalized, is a batch that the table view accepts.
LEMMA ChangeIsBatch ==
  ASSUME versions \in Seq(Tables), NEW v \in 1 .. Len(versions)
  PROVE  IsBatch(Change(1, v), v)
<1> DEFINE c == Change(1, v)
           D == c.deletions
           I == c.insertions
           old == Results(1)
           new == Results(v)
           kept == Kept(1, v)
           prev == OldResults(1, v)
           next == NewResults(1, v)
           np == Size(1)
           nq == Size(v)
<1>1. 1 \in 1 .. Len(versions)
  OBVIOUS
<1>2. IsTrueChange(c, prev, next, np, nq, Altered(1, v))
  BY <1>1, ChangeIsTrue
<1> HIDE DEF c
<1>3. versions[1] \in Tables /\ versions[v] \in Tables
  BY <1>1
<1>4. IsListOf(old, DOMAIN versions[1]) /\ IsListOf(new, DOMAIN versions[v])
  BY <1>3, SortedLists DEF Results
<1>5. /\ \A id \in DOMAIN versions[1] : id \in Nat \ {0}
      /\ \A id \in DOMAIN versions[v] : id \in Nat \ {0}
  BY <1>3, TableFacts
<1>6. /\ np \in Nat /\ DOMAIN old = 1 .. np
      /\ \A k \in 1 .. np : old[k] \in DOMAIN versions[1] /\ old[k] \in Nat \ {0}
      /\ \A x \in DOMAIN versions[1] : \E k \in 1 .. np : old[k] = x
  BY <1>4, <1>5 DEF IsListOf, Size
<1>7. /\ nq \in Nat /\ DOMAIN new = 1 .. nq
      /\ \A k \in 1 .. nq : new[k] \in DOMAIN versions[v] /\ new[k] \in Nat \ {0}
  BY <1>4, <1>5 DEF IsListOf, Size
<1>8. prev = [k \in 1 .. np |-> IF old[k] \in kept THEN old[k] ELSE npos]
  BY <1>6 DEF OldResults
<1>9. next = [k \in 1 .. nq |-> IF new[k] \in kept THEN new[k] ELSE npos - new[k]]
  BY <1>7 DEF NewResults
<1> HIDE DEF old, new, np, nq, prev, next
<1>10. /\ \A x \in D : x \in 0 .. np - 1
       /\ \A x \in I : x \in 0 .. nq - 1
       /\ np - Cardinality(D) + Cardinality(I) = nq
  BY <1>2 DEF IsTrueChange
<1>11. \A q \in Rest(nq, I) : /\ shift(D, unshift(I, q)) \in Rest(np, D)
                              /\ prev[shift(D, unshift(I, q)) + 1] = next[q + 1]
  BY <1>2 DEF IsTrueChange
<1>12. c.modifications = {p \in Rest(np, D) : prev[p + 1] \in Altered(1, v)}
  BY <1>2 DEF IsTrueChange
<1>13. \A p \in Rest(np, D) : p \in 0 .. np - 1 /\ p + 1 \in 1 .. np /\ (p + 1) - 1 = p
  BY <1>6 DEF Rest
<1>14. \A x \in D \union c.modifications : x \in 0 .. np - 1
  BY <1>10, <1>12, <1>13
<1>15. ASSUME NEW k \in 1 .. np, NEW r \in 1 .. nq, prev[k] = next[r]
       PROVE  old[k] = new[r] /\ old[k] \in kept
  BY <1>6, <1>7, <1>8, <1>9, <1>15 DEF npos
<1>16. versions[1] \in Told(1, v) /\ versions[v] \in Told(1, v)
  BY DEF Told
<1>17. ASSUME NEW r \in 1 .. nq, r - 1 \notin I
       PROVE  LET o == shift(D, unshift(I, r - 1)) + 1
              IN /\ o \in 1 .. np
                 /\ old[o] = new[r]
                 /\ o - 1 \notin c.modifications => versions[1][old[o]] = versions[v][new[r]]
  <2> DEFINE p == shift(D, unshift(I, r - 1))
             o == p + 1
  <2>1. r - 1 \in Rest(nq, I) /\ (r - 1) + 1 = r
    BY <1>7, <1>17 DEF Rest
  <2>2. p \in Rest(np, D) /\ prev[p + 1] = next[r]
    BY <1>11, <2>1
  <2> HIDE DEF p
  <2>3. o \in 1 .. np /\ o - 1 = p /\ prev[o] = next[r]
    BY <1>13, <2>2
  <2>4. old[o] = new[r] /\ old[o] \in kept
    BY <1>15, <2>3
  <2>5. ASSUME o - 1 \notin c.modifications
        PROVE  versions[1][old[o]] = versions[v][new[r]]
    <3>1. prev[o] \notin Altered(1, v)
      BY <1>12, <2>2, <2>3, <2>5
    <3>2. prev[o] = old[o]
      BY <1>8, <2>3, <2>4
    <3>3. old[o] \notin Altered(1, v)
      BY <3>1, <3>2
    <3>4. versions[1][old[o]] = versions[v][old[o]]
      BY <1>16, <2>4, <3>3 DEF Altered
    <3> QED BY <2>4, <3>4
  <2> QED BY <2>3, <2>4, <2>5 DEF p
<1>18. ASSUME D = {} PROVE \A k \in 1 .. v : DOMAIN versions[1] \subseteq DOMAIN versions[k]
  <2>1. \A p \in Rest(np, D) : \E q \in Rest(nq, I) : p = shift(D, unshift(I, q))
    BY <1>2 DEF IsTrueChange
  <2>2. ASSUME NEW id \in DOMAIN versions[1] PROVE id \in kept
    <3>1. PICK o \in 1 .. np : old[o] = id
      BY <1>6
    <3> DEFINE p == o - 1
    <3>2. p \in Rest(np, D) /\ p + 1 = o
      BY <1>6, <1>18 DEF Rest
    <3> HIDE DEF p
    <3>3. PICK q \in Rest(nq, I) : p = shift(D, unshift(I, q))
      BY <2>1, <3>2
    <3>4. prev[p + 1] = next[q + 1]
      BY <1>11, <3>3
    <3>5. q + 1 \in 1 .. nq
      BY <1>7 DEF Rest
    <3> QED BY <1>15, <3>1, <3>2, <3>4, <3>5
  <2>3. \A k \in 1 .. v : versions[k] \in Told(1, v)
    BY DEF Told
  <2> QED BY <2>2, <2>3 DEF Kept
<1> QED BY <1>10, <1>14, <1>17, <1>18 DEF IsBatch, c, old, new, np, nq

(***************************************************************************)
(* The inductive invariant.                                                 *)
(***************************************************************************)

Cell == [id : Ids \union {0}, date : Dates]

\* The rows c of a table view, mixed or not, are those of the table t.
RowsMatch(c, m, t) ==
  /\ Len(c) = Cardinality(DOMAIN t)
  /\ ~ m => \A r \in DOMAIN c :
       \/ c[r] = Unloaded
       \/ c[r] = [id |-> Sorted(t, "created")[r], date |-> t[Sorted(t, "created")[r]]]

Types ==
  /\ versions \in Seq(Tables) /\ Len(versions) \in 1 .. MaxVersions
  /\ main \in 1 .. Len(versions)
  /\ phase \in {"first", "called", "failed"}
  /\ state \in {"empty", "data", "error"}
  /\ order \in {"created", "modified"}
  /\ cells \in Seq(Cell)
  /\ crashed \in BOOLEAN /\ mixed \in BOOLEAN /\ visible \in BOOLEAN
  /\ opened \in Ids \union {0}

\* Once the callback goes on, the main thread is at the version last told, or at
\* what it has written since itself, an edit or a deletion; the state is that of
\* either.
StateFits ==
  phase = "called" =>
    /\ main \in {1, 2}
    /\ main = 2 => DOMAIN versions[2] \subseteq DOMAIN versions[1]
    /\ state \in {StateOf(versions[1]), StateOf(versions[main])}

RowsFit == Following => RowsMatch(cells, mixed, versions[1])

LInv == Types /\ StateFits /\ RowsFit

(***************************************************************************)
(* What a call of the callback leaves.                                      *)
(***************************************************************************)

\* After reloadData the rows match the table, whatever was shown.
LEMMA ReloadedMatches ==
  ASSUME NEW t \in Tables, NEW c, c = Unread(numberOfRows(t, StateOf(t)))
  PROVE  c \in Seq(Cell) /\ RowsMatch(c, FALSE, t)
<1>1. Cardinality(DOMAIN t) \in Nat /\ (DOMAIN t = {} => Cardinality(DOMAIN t) = 0)
  BY TableFacts, FS_CardinalityType, FS_EmptySet
<1>2. numberOfRows(t, StateOf(t)) = Cardinality(DOMAIN t)
  BY <1>1 DEF numberOfRows, StateOf
<1>3. c = [r \in 1 .. Cardinality(DOMAIN t) |-> Unloaded]
  BY <1>2 DEF Unread
<1>4. Unloaded \in Cell
  BY DEF Unloaded, Cell, Dates
<1>5. c \in Seq(Cell) /\ Len(c) = Cardinality(DOMAIN t)
  BY <1>1, <1>3, <1>4
<1>6. \A r \in DOMAIN c : c[r] = Unloaded
  BY <1>3
<1> QED BY <1>5, <1>6 DEF RowsMatch

\* The batch, over the rows of the table view.
LEMMA BatchType ==
  ASSUME NEW t \in Tables, NEW rows \in Seq(Cell), NEW change,
         NEW c, c = BatchUpdate(rows, change, numberOfRows(t, StateOf(t)))
  PROVE  c \in Seq(Cell) /\ Len(c) = Cardinality(DOMAIN t)
<1> DEFINE n == Cardinality(DOMAIN t)
           old(r) == shift(change.deletions, unshift(change.insertions, r - 1)) + 1
           cell(r) == IF r - 1 \in change.insertions \/ old(r) \notin DOMAIN rows THEN Unloaded
                      ELSE IF old(r) - 1 \in change.modifications THEN Unloaded
                      ELSE rows[old(r)]
<1>1. n \in Nat /\ (DOMAIN t = {} => n = 0)
  BY TableFacts, FS_CardinalityType, FS_EmptySet
<1>2. numberOfRows(t, StateOf(t)) = n
  BY <1>1 DEF numberOfRows, StateOf
<1>3. c = [r \in 1 .. n |-> cell(r)]
  BY <1>2 DEF BatchUpdate
<1>4. Unloaded \in Cell
  BY DEF Unloaded, Cell, Dates
<1> HIDE DEF old
<1>5. \A r \in 1 .. n : cell(r) \in Cell
  BY <1>4
<1> HIDE DEF cell, n
<1>6. c \in Seq(Cell) /\ Len(c) = n
  BY <1>1, <1>3, <1>5
<1> QED BY <1>6 DEF n

\* The batch, over rows that match the version last told.
LEMMA BatchMatches ==
  ASSUME versions \in Seq(Tables), NEW v \in 1 .. Len(versions),
         NEW rows \in Seq(Cell), NEW m, RowsMatch(rows, m, versions[1]),
         NEW change, change = Change(1, v),
         NEW c, c = BatchUpdate(rows, change, numberOfRows(versions[v], StateOf(versions[v])))
  PROVE  RowsMatch(c, m, versions[v])
<1> DEFINE t == versions[v]
           n == Cardinality(DOMAIN t)
           old(r) == shift(change.deletions, unshift(change.insertions, r - 1)) + 1
           cell(r) == IF r - 1 \in change.insertions \/ old(r) \notin DOMAIN rows THEN Unloaded
                      ELSE IF old(r) - 1 \in change.modifications THEN Unloaded
                      ELSE rows[old(r)]
           N == numberOfRows(t, StateOf(t))
<1>1. t \in Tables /\ versions[1] \in Tables
  OBVIOUS
<1>2. c \in Seq(Cell) /\ Len(c) = n
  BY <1>1, BatchType
<1>3. c = [r \in 1 .. N |-> cell(r)]
  BY DEF BatchUpdate
<1> HIDE DEF old, N
<1>4. ASSUME ~ m, NEW r \in DOMAIN c, c[r] # Unloaded
      PROVE  c[r] = [id |-> Sorted(t, "created")[r], date |-> t[Sorted(t, "created")[r]]]
  <2>1. c[r] = cell(r) /\ r \in 1 .. n
    <3> HIDE DEF cell, n
    <3>1. c[r] = cell(r)
      BY <1>3
    <3>2. DOMAIN c = 1 .. n
      BY <1>2
    <3> QED BY <3>1, <3>2
  <2>2. /\ r - 1 \notin change.insertions /\ old(r) \in DOMAIN rows
        /\ old(r) - 1 \notin change.modifications /\ c[r] = rows[old(r)]
    BY <1>4, <2>1
  <2>3. IsBatch(change, v)
    BY ChangeIsBatch
  <2>4. /\ Results(1)[old(r)] = Results(v)[r]
        /\ versions[1][Results(1)[old(r)]] = versions[v][Results(v)[r]]
    BY <2>1, <2>2, <2>3 DEF IsBatch, old, Size
  <2>5. rows[old(r)] = [id |-> Results(1)[old(r)], date |-> versions[1][Results(1)[old(r)]]]
    BY <1>4, <2>2 DEF RowsMatch, Results
  <2> QED BY <2>2, <2>4, <2>5 DEF Results
<1> HIDE DEF t
<1>5. RowsMatch(c, m, t)
  BY <1>2, <1>4 DEF RowsMatch
<1> QED BY <1>5 DEF t

\* Nothing to tell: the rows match the new version as they are.
LEMMA NothingToTell ==
  ASSUME versions \in Seq(Tables), NEW v \in 1 .. Len(versions),
         NEW change, change = Change(1, v), empty(change)
  PROVE  /\ \A k \in 1 .. v : DOMAIN versions[1] \subseteq DOMAIN versions[k]
         /\ DOMAIN versions[v] = DOMAIN versions[1]
         /\ \A c \in Seq(Cell), m \in BOOLEAN :
              RowsMatch(c, m, versions[1]) => RowsMatch(c, m, versions[v])
<1>1. change.deletions = {} /\ change.insertions = {} /\ change.modifications = {}
  BY DEF empty
<1>2. IsBatch(change, v)
  BY ChangeIsBatch
<1>3. \A k \in 1 .. v : DOMAIN versions[1] \subseteq DOMAIN versions[k]
  BY <1>1, <1>2 DEF IsBatch
<1>4. versions[v] \in Tables /\ versions[1] \in Tables
  OBVIOUS
<1>5. /\ IsFiniteSet(DOMAIN versions[v]) /\ IsFiniteSet(DOMAIN versions[1])
      /\ Size(v) \in Nat /\ Size(1) \in Nat
  BY <1>4, TableFacts, FS_CardinalityType DEF Size
<1>6. Size(1) = Size(v)
  <2>1. Cardinality({}) = 0
    BY FS_EmptySet
  <2>2. Size(1) - Cardinality({}) + Cardinality({}) = Size(v)
    BY <1>1, <1>2 DEF IsBatch
  <2> QED BY <1>5, <2>1, <2>2
<1>7. DOMAIN versions[v] = DOMAIN versions[1]
  <2>1. DOMAIN versions[1] \in SUBSET (DOMAIN versions[v])
    BY <1>3
  <2> QED BY <1>5, <1>6, <2>1, FS_Subset DEF Size
<1>8. ASSUME NEW r \in 1 .. Size(v)
      PROVE  /\ Results(1)[r] = Results(v)[r]
             /\ versions[1][Results(1)[r]] = versions[v][Results(v)[r]]
  <2>1. shift({}, unshift({}, r - 1)) = r - 1
    <3>1. r - 1 \in Nat \ {}
      BY <1>5
    <3> QED BY <3>1, FS_EmptySet, ShiftUnshift
  <2>2. (r - 1) + 1 = r
    BY <1>5
  <2>3. LET o == shift({}, unshift({}, r - 1)) + 1
        IN /\ Results(1)[o] = Results(v)[r]
           /\ versions[1][Results(1)[o]] = versions[v][Results(v)[r]]
    BY <1>1, <1>2 DEF IsBatch
  <2> QED BY <2>1, <2>2, <2>3
<1>9. ASSUME NEW c \in Seq(Cell), NEW m \in BOOLEAN, RowsMatch(c, m, versions[1])
      PROVE  RowsMatch(c, m, versions[v])
  <2>1. Len(c) = Size(1) /\ DOMAIN c = 1 .. Size(v)
    BY <1>6, <1>9 DEF RowsMatch, Size
  <2>2. ASSUME ~ m, NEW r \in DOMAIN c, c[r] # Unloaded
        PROVE  c[r] = [id |-> Results(v)[r], date |-> versions[v][Results(v)[r]]]
    <3>1. c[r] = [id |-> Results(1)[r], date |-> versions[1][Results(1)[r]]]
      BY <1>9, <2>2 DEF RowsMatch, Results
    <3> QED BY <1>8, <2>1, <3>1
  <2>3. Len(c) = Cardinality(DOMAIN versions[v])
    BY <1>6, <2>1 DEF Size
  <2> QED BY <2>2, <2>3 DEF RowsMatch, Results
<1> QED BY <1>3, <1>7, <1>9

\* Showing version v, told or not.
Shown(v) ==
  /\ cells' \in Seq(Cell) /\ mixed' \in BOOLEAN
  /\ phase' \in {"first", "called", "failed"}
  /\ state' \in {"empty", "data", "error"}
  /\ order' \in {"created", "modified"}
  /\ phase' = "called" => state' = StateOf(versions[v])
  /\ phase' = "called" => RowsMatch(cells', mixed', versions[v])

\* Applying the change to the rows shown gives the rows of the version shown.
LEMMA ShowKeepsRows ==
  ASSUME LInv, NEW v \in main .. Latest, Show(v)
  PROVE  Shown(v)
<1>1. v \in 1 .. Len(versions) /\ main <= v /\ versions \in Seq(Tables) /\ cells \in Seq(Cell)
  BY DEF LInv, Types, Latest
<1>2. versions[v] \in Tables
  BY <1>1
<1> DEFINE change == Change(1, v)
           reloaded == Unread(numberOfRows(versions[v], StateOf(versions[v])))
           batch == BatchUpdate(cells, change, numberOfRows(versions[v], StateOf(versions[v])))
<1>3. CallFor(change, v)
  BY DEF Show
<1>4. StateOf(versions[v]) \in {"empty", "data", "error"}
  BY DEF StateOf
<1>5. reloaded \in Seq(Cell) /\ RowsMatch(reloaded, FALSE, versions[v])
  BY <1>2, ReloadedMatches
<1>6. CASE IsCalled(change)
  <2>1. /\ state' = StateOf(versions[v]) /\ order' = "created" /\ phase' = "called"
        /\ cells' = Called(change, v).cells
        /\ mixed' = Called(change, v).mixed
    BY <1>3, <1>6 DEF CallFor
  <2>2. Called(change, v) =
          IF phase = "first" \/ ~ visible
            THEN [cells |-> reloaded, mixed |-> FALSE]
            ELSE [cells |-> batch, mixed |-> mixed]
    BY DEF Called, OnInitial, OnUpdate, TableReloaded
  <2>3. batch \in Seq(Cell)
    <3> HIDE DEF change
    <3> QED BY <1>1, <1>2, BatchType
  <2>4. mixed \in BOOLEAN /\ visible \in BOOLEAN
    BY DEF LInv, Types
  <2>5. CASE phase = "first" \/ ~ visible
    <3>1. cells' = reloaded /\ mixed' = FALSE
      BY <2>1, <2>2, <2>5
    <3> QED BY <1>4, <1>5, <2>1, <3>1 DEF Shown
  <2>6. CASE ~ (phase = "first" \/ ~ visible)
    <3>1. cells' = batch /\ mixed' = mixed
      BY <2>1, <2>2, <2>6
    <3>2. RowsMatch(batch, mixed, versions[v])
      <4>1. phase = "called"
        BY <1>6, <2>6 DEF IsCalled
      <4>2. RowsMatch(cells, mixed, versions[1])
        BY <4>1 DEF LInv, RowsFit, Following
      <4>3. /\ change = Change(1, v)
            /\ batch = BatchUpdate(cells, change, numberOfRows(versions[v], StateOf(versions[v])))
        OBVIOUS
      <4> HIDE DEF change, batch
      <4> QED BY <1>1, <4>2, <4>3, BatchMatches
    <3> HIDE DEF batch
    <3> QED BY <1>4, <2>1, <2>3, <2>4, <3>1, <3>2 DEF Shown
  <2> QED BY <2>5, <2>6
<1>7. CASE ~ IsCalled(change)
  <2>1. UNCHANGED <<state, order, cells, mixed, phase>>
    BY <1>3, <1>7 DEF CallFor, screen
  <2>2. ASSUME phase = "called"
        PROVE  /\ state = StateOf(versions[v])
               /\ RowsMatch(cells, mixed, versions[v])
    <3>1. empty(change)
      BY <1>7, <2>2 DEF IsCalled
    <3>2. /\ \A k \in 1 .. v : DOMAIN versions[1] \subseteq DOMAIN versions[k]
          /\ DOMAIN versions[v] = DOMAIN versions[1]
          /\ \A c \in Seq(Cell), m \in BOOLEAN :
               RowsMatch(c, m, versions[1]) => RowsMatch(c, m, versions[v])
      <4>1. change = Change(1, v)
        OBVIOUS
      <4> HIDE DEF change
      <4> QED BY <1>1, <3>1, <4>1, NothingToTell
    <3>3. /\ main \in {1, 2}
          /\ main = 2 => DOMAIN versions[2] \subseteq DOMAIN versions[1]
          /\ state \in {StateOf(versions[1]), StateOf(versions[main])}
      BY <2>2 DEF LInv, StateFits
    <3>4. main \in 1 .. v
      BY <1>1, <3>3
    <3>5. DOMAIN versions[main] = DOMAIN versions[1]
      BY <3>2, <3>3, <3>4
    <3>6. state = StateOf(versions[v])
      BY <3>2, <3>3, <3>5 DEF StateOf
    <3>7. RowsMatch(cells, mixed, versions[1])
      BY <2>2 DEF LInv, RowsFit, Following
    <3>8. mixed \in BOOLEAN
      BY DEF LInv, Types
    <3> QED BY <1>1, <3>2, <3>6, <3>7, <3>8
  <2> QED BY <2>1, <2>2 DEF Shown, LInv, Types
<1> QED BY <1>6, <1>7

(***************************************************************************)
(* The steps.                                                               *)
(***************************************************************************)

\* The invariant holds at the start.
LEMMA InitKeeps == Init => LInv
<1> SUFFICES ASSUME Init PROVE LInv
  OBVIOUS
<1>1. PICK t \in Tables : versions = <<t>>
  BY DEF Init
<1>2. versions \in Seq(Tables) /\ Len(versions) = 1 /\ versions[1] = t
  BY <1>1
<1>3. cells \in Seq(Cell)
  BY <1>2, ReloadedMatches DEF Init
<1>4. Types
  <2>1. crashed \in BOOLEAN /\ mixed \in BOOLEAN /\ visible \in BOOLEAN
    BY Zenon DEF Init
  <2>2. main \in 1 .. Len(versions) /\ Len(versions) \in 1 .. MaxVersions
    BY <1>2, ListingAssumption DEF Init
  <2>3. /\ phase \in {"first", "called", "failed"}
        /\ state \in {"empty", "data", "error"}
        /\ order \in {"created", "modified"}
        /\ opened \in Ids \union {0}
    BY DEF Init, StateOf
  <2> QED BY <1>2, <1>3, <2>1, <2>2, <2>3 DEF Types
<1> QED BY <1>4 DEF LInv, StateFits, RowsFit, Following, Init

\* The invariant is kept by a notification.
LEMMA NotificationKeeps ==
  ASSUME LInv, NEW v \in main .. Latest, Notification(v)
  PROVE  LInv'
<1>1. Shown(v)
  BY ShowKeepsRows DEF Notification
<1>2. /\ v \in 1 .. Len(versions) /\ versions \in Seq(Tables)
      /\ Len(versions) \in Nat /\ Len(versions) <= MaxVersions
  BY ListingAssumption DEF LInv, Types, Latest
<1>3. versions' = SubSeq(versions, v, Len(versions)) /\ main' = 1 /\ UNCHANGED <<crashed, visible, opened>>
  BY DEF Notification, Latest
<1>4. /\ versions' \in Seq(Tables) /\ Len(versions') = Len(versions) - v + 1
      /\ versions'[1] = versions[v]
  BY <1>2, <1>3
<1>5. Types'
  BY <1>1, <1>2, <1>3, <1>4, ListingAssumption DEF Types, LInv, Shown
<1>6. StateFits'
  BY <1>1, <1>3, <1>4 DEF StateFits, Shown, StateOf
<1>7. RowsFit'
  BY <1>1, <1>4 DEF RowsFit, Following, Shown, RowsMatch
<1> QED BY <1>5, <1>6, <1>7 DEF LInv

\* The invariant is kept by a write that adds no talk.
LEMMA WriteKeeps ==
  ASSUME LInv, NEW version \in Tables, DOMAIN version \subseteq DOMAIN versions[Latest],
         Write(version), UNCHANGED <<crashed, visible, opened>>
  PROVE  LInv'
<1>1. /\ Latest \in main .. Latest /\ Latest \in 1 .. Len(versions) /\ versions \in Seq(Tables)
      /\ versions[Latest] \in Tables
  BY DEF LInv, Types, Latest
<1>2. Shown(Latest)
  BY <1>1, ShowKeepsRows DEF Write
<1>3. versions' = <<versions[Latest], version>> /\ main' = 2
  BY DEF Write
<1>4. /\ versions' \in Seq(Tables) /\ Len(versions') = 2
      /\ versions'[1] = versions[Latest] /\ versions'[2] = version
  BY <1>1, <1>3
<1>5. 2 \in 1 .. MaxVersions
  BY ListingAssumption
<1>6. Types'
  BY <1>2, <1>3, <1>4, <1>5 DEF Types, LInv, Shown
<1>7. StateFits'
  BY <1>2, <1>3, <1>4 DEF StateFits, Shown, StateOf
<1>8. RowsFit'
  BY <1>2, <1>4 DEF RowsFit, Following, Shown, RowsMatch
<1> QED BY <1>6, <1>7, <1>8 DEF LInv

\* What a transaction of the main thread writes.
LEMMA DeletedFacts ==
  ASSUME NEW t \in Tables, NEW id
  PROVE  Deleted(t, id) \in Tables /\ DOMAIN Deleted(t, id) = DOMAIN t \ {id}
<1>1. PICK S \in SUBSET Ids : t \in [S -> Dates]
  BY DEF Tables
<1>2. Deleted(t, id) \in [S \ {id} -> Dates] /\ DOMAIN t = S
  BY <1>1 DEF Deleted
<1>3. S \ {id} \in SUBSET Ids
  OBVIOUS
<1> QED BY <1>2, <1>3 DEF Tables

\* Editing a talk keeps the talks of the table.
LEMMA EditedFacts ==
  ASSUME NEW t \in Tables, NEW id \in DOMAIN t, NEW w \in Edited(t, id)
  PROVE  w \in Tables /\ DOMAIN w = DOMAIN t
<1>1. PICK S \in SUBSET Ids : t \in [S -> Dates]
  BY DEF Tables
<1>2. PICK d \in Dates : w = [t EXCEPT ![id] = d]
  BY DEF Edited
<1>3. w \in [S -> Dates]
  BY <1>1, <1>2
<1> QED BY <1>1, <1>3 DEF Tables

\* The results that the screen reads are talks.
LEMMA TalksAreTalks ==
  ASSUME LInv
  PROVE  /\ versions[main] \in Tables
         /\ \A r \in DOMAIN Talks : /\ Talks[r] \in DOMAIN versions[main]
                                    /\ Talks[r] \in Ids
                                    /\ versions[main][Talks[r]] \in Dates
<1>1. versions[main] \in Tables
  BY DEF LInv, Types
<1>2. IsListOf(Talks, DOMAIN versions[main])
  BY <1>1, SortedLists DEF Talks
<1>3. \A r \in DOMAIN Talks : Talks[r] \in DOMAIN versions[main]
  BY <1>2 DEF IsListOf
<1>4. /\ DOMAIN versions[main] \subseteq Ids
      /\ \A id \in DOMAIN versions[main] : versions[main][id] \in Dates
  BY <1>1, TableFacts
<1> QED BY <1>1, <1>3, <1>4

\* Each step keeps the inductive invariant.
LEMMA NextKeeps == LInv /\ [Next]_vars => LInv'
<1> SUFFICES ASSUME LInv, [Next]_vars PROVE LInv'
  OBVIOUS
<1>1. /\ versions \in Seq(Tables) /\ Len(versions) \in 1 .. MaxVersions /\ MaxVersions \in Nat
      /\ main \in 1 .. Len(versions) /\ cells \in Seq(Cell)
  BY ListingAssumption DEF LInv, Types
<1>2. ASSUME NEW v \in main .. Latest, Notification(v) PROVE LInv'
  BY <1>2, NotificationKeeps
<1>3. ASSUME NEW v \in main .. Latest, NotificationError(v) PROVE LInv'
  <2>1. v \in 1 .. Len(versions)
    BY <1>1, <1>3 DEF Latest
  <2>2. Types'
    BY <1>3, <2>1 DEF LInv, Types, NotificationError
  <2> QED BY <1>3, <2>2 DEF LInv, StateFits, RowsFit, Following, NotificationError
<1>4. ASSUME NEW v \in main .. Latest, Autorefresh(v) PROVE LInv'
  <2>1. v \in 1 .. Len(versions)
    BY <1>1, <1>4 DEF Latest
  <2>2. Types'
    BY <1>4, <2>1 DEF LInv, Types, Autorefresh, screen
  <2> QED BY <1>4, <2>2 DEF LInv, StateFits, RowsFit, Following, Autorefresh, screen
<1>5. CASE BackgroundWrite
  <2>1. PICK t \in Tables : versions' = Append(versions, t)
    BY <1>5 DEF BackgroundWrite
  <2>2. /\ versions' \in Seq(Tables) /\ Len(versions') = Len(versions) + 1
        /\ \A k \in 1 .. Len(versions) : versions'[k] = versions[k]
    BY <1>1, <2>1
  <2>3. Len(versions) < MaxVersions
    BY <1>5 DEF BackgroundWrite, Latest
  <2>4. Types'
    BY <1>1, <1>5, <2>2, <2>3 DEF LInv, Types, BackgroundWrite, screen
  <2>5. versions'[1] = versions[1] /\ versions'[main] = versions[main]
    BY <1>1, <2>2
  <2>6. StateFits'
    BY <1>5, <2>5 DEF LInv, StateFits, BackgroundWrite, screen, StateOf
  <2>7. RowsFit'
    BY <1>5, <2>5 DEF LInv, RowsFit, Following, BackgroundWrite, screen, RowsMatch
  <2> QED BY <2>4, <2>6, <2>7 DEF LInv
<1>6. versions[Latest] \in Tables
  BY <1>1 DEF Latest
<1>7. CASE WriteFromDetail
  <2>1. PICK t \in Edited(versions[Latest], opened) \union {Deleted(versions[Latest], opened)} :
          Write(t)
    BY <1>7 DEF WriteFromDetail
  <2>2. opened \in DOMAIN versions[Latest] /\ UNCHANGED <<crashed, visible, opened>>
    BY <1>7 DEF WriteFromDetail
  <2>3. t \in Tables /\ DOMAIN t \subseteq DOMAIN versions[Latest]
    <3>1. CASE t \in Edited(versions[Latest], opened)
      BY <1>6, <2>2, <3>1, EditedFacts
    <3>2. CASE t = Deleted(versions[Latest], opened)
      BY <1>6, <3>2, DeletedFacts
    <3> QED BY <2>1, <3>1, <3>2
  <2> QED BY <2>1, <2>2, <2>3, WriteKeeps
<1>8. CASE reloadData
  <2>1. Types'
    BY <1>8 DEF LInv, Types, reloadData, StateOf
  <2>2. StateFits'
    BY <1>8 DEF LInv, StateFits, reloadData, StateOf
  <2>3. RowsFit'
    BY <1>8 DEF LInv, RowsFit, Following, reloadData, RowsMatch
  <2> QED BY <2>1, <2>2, <2>3 DEF LInv
<1>9. ASSUME NEW r \in DOMAIN cells, cellForRowAt(r), ~ Crash PROVE LInv'
  <2>1. r \in DOMAIN Talks
    BY <1>9 DEF cellForRowAt
  <2> DEFINE cell == [id |-> Talks[r], date |-> versions[main][Talks[r]]]
  <2>2. cell \in Cell
    BY <2>1, TalksAreTalks DEF Cell
  <2>3. cells' = [cells EXCEPT ![r] = cell] /\ mixed' = (mixed \/ order # "created" \/ main # 1)
        /\ UNCHANGED <<versions, main, phase, crashed, state, order, visible, opened>>
    BY <1>9 DEF cellForRowAt
  <2>4. /\ cells' \in Seq(Cell) /\ Len(cells') = Len(cells) /\ DOMAIN cells' = DOMAIN cells
        /\ cells'[r] = cell /\ \A s \in DOMAIN cells : s # r => cells'[s] = cells[s]
    <3> HIDE DEF cell
    <3> QED BY <1>1, <2>2, <2>3
  <2>5. mixed' \in BOOLEAN
    BY <2>3
  <2>6. Types'
    BY <2>3, <2>4, <2>5 DEF LInv, Types
  <2>7. StateFits'
    BY <2>3 DEF LInv, StateFits, StateOf
  <2>8. RowsFit'
    <3> SUFFICES ASSUME Following PROVE RowsMatch(cells', mixed', versions[1])
      BY <2>3 DEF RowsFit, Following, RowsMatch
    <3>1. RowsMatch(cells, mixed, versions[1])
      BY DEF LInv, RowsFit
    <3>2. ASSUME ~ mixed', NEW s \in DOMAIN cells'
          PROVE  \/ cells'[s] = Unloaded
                 \/ cells'[s] = [id |-> Sorted(versions[1], "created")[s],
                                 date |-> versions[1][Sorted(versions[1], "created")[s]]]
      <4>1. ~ mixed /\ order = "created" /\ main = 1
        BY <2>3, <3>2
      <4>2. CASE s = r
        <5>1. cells'[s] = [id |-> Talks[s], date |-> versions[main][Talks[s]]]
          BY <2>4, <4>2
        <5> QED BY <4>1, <5>1 DEF Talks
      <4>3. CASE s # r
        BY <2>4, <3>1, <3>2, <4>1, <4>3 DEF RowsMatch
      <4> QED BY <4>2, <4>3
    <3> QED BY <2>4, <3>1, <3>2 DEF RowsMatch
  <2> QED BY <2>6, <2>7, <2>8 DEF LInv
<1>10. ASSUME NEW r \in DOMAIN cells, ScrollAway(r) PROVE LInv'
  <2>1. Unloaded \in Cell
    BY DEF Unloaded, Cell, Dates
  <2>2. cells' = [cells EXCEPT ![r] = Unloaded]
        /\ UNCHANGED <<versions, main, phase, crashed, state, order, mixed, visible, opened>>
    BY <1>10 DEF ScrollAway
  <2>3. /\ cells' \in Seq(Cell) /\ Len(cells') = Len(cells) /\ DOMAIN cells' = DOMAIN cells
        /\ cells'[r] = Unloaded /\ \A s \in DOMAIN cells : s # r => cells'[s] = cells[s]
    BY <1>1, <2>1, <2>2
  <2>4. Types'
    BY <2>2, <2>3 DEF LInv, Types
  <2>5. StateFits'
    BY <2>2 DEF LInv, StateFits, StateOf
  <2>6. RowsFit'
    BY <2>2, <2>3 DEF LInv, RowsFit, Following, RowsMatch
  <2> QED BY <2>4, <2>5, <2>6 DEF LInv
<1>11. ASSUME NEW r \in DOMAIN cells, didSelectRowAt(r), ~ Crash PROVE LInv'
  <2>1. opened' \in Ids
    BY <1>11, TalksAreTalks DEF didSelectRowAt
  <2>2. UNCHANGED <<versions, main, phase, crashed, state, order, cells, mixed, visible>>
    BY <1>11 DEF didSelectRowAt, screen
  <2>3. Types'
    BY <2>1, <2>2 DEF LInv, Types
  <2>4. StateFits'
    BY <2>2 DEF LInv, StateFits, StateOf
  <2>5. RowsFit'
    BY <2>2 DEF LInv, RowsFit, Following, RowsMatch
  <2> QED BY <2>3, <2>4, <2>5 DEF LInv
<1>12. ASSUME NEW r \in DOMAIN cells, deleteRowAt(r), ~ Crash PROVE LInv'
  <2> DEFINE t == Deleted(versions[Latest], Talks[r])
  <2>1. Write(t) /\ UNCHANGED <<crashed, visible, opened>>
    BY <1>12 DEF deleteRowAt
  <2>2. t \in Tables /\ DOMAIN t \subseteq DOMAIN versions[Latest]
    BY <1>6, DeletedFacts
  <2> HIDE DEF t
  <2> QED BY <2>1, <2>2, WriteKeeps
<1>13. CASE ChangeVisibility
  <2>1. visible' \in BOOLEAN
    BY <1>13 DEF ChangeVisibility
  <2>2. UNCHANGED <<versions, main, phase, crashed, state, order, cells, mixed, opened>>
    BY <1>13 DEF ChangeVisibility, screen
  <2>3. Types'
    BY <2>1, <2>2 DEF LInv, Types
  <2>4. StateFits'
    BY <2>2 DEF LInv, StateFits, StateOf
  <2>5. RowsFit'
    BY <2>2 DEF LInv, RowsFit, Following, RowsMatch
  <2> QED BY <2>3, <2>4, <2>5 DEF LInv
<1>14. CASE UNCHANGED vars
  <2>1. UNCHANGED <<versions, main, phase, crashed, state, order, cells, mixed, visible, opened>>
    BY <1>14 DEF vars
  <2>2. Types'
    BY <2>1 DEF LInv, Types
  <2>3. StateFits'
    BY <2>1 DEF LInv, StateFits, StateOf
  <2>4. RowsFit'
    BY <2>1 DEF LInv, RowsFit, Following, RowsMatch
  <2> QED BY <2>2, <2>3, <2>4 DEF LInv
<1>15. CASE Crash
  <2>1. crashed' \in BOOLEAN
    BY <1>15 DEF Crash
  <2>2. UNCHANGED <<versions, main, phase, state, order, cells, mixed, visible, opened>>
    BY <1>15 DEF Crash, screen
  <2>3. Types'
    BY <2>1, <2>2 DEF LInv, Types
  <2>4. StateFits'
    BY <2>2 DEF LInv, StateFits, StateOf
  <2>5. RowsFit'
    BY <2>2 DEF LInv, RowsFit, Following, RowsMatch
  <2> QED BY <2>3, <2>4, <2>5 DEF LInv
<1> QED BY <1>2, <1>3, <1>4, <1>5, <1>7, <1>8, <1>9, <1>10, <1>11, <1>12, <1>13, <1>14, <1>15
     DEF Next

\* Where the app crashes over a listing that is being told: over a row that the
\* version of the main thread does not have.
CrashFits == crashed /\ Following => Cardinality(DOMAIN versions[main]) < Len(cells)

\* A row without data, or without a talk, is one too many for the version read.
LEMMA CrashFitsKept == LInv /\ CrashFits /\ [Next]_vars => CrashFits'
<1> SUFFICES ASSUME LInv, CrashFits, [Next]_vars, crashed', Following'
             PROVE  (Cardinality(DOMAIN versions[main]) < Len(cells))'
  BY DEF CrashFits
<1>1. CASE UNCHANGED vars
  BY <1>1 DEF CrashFits, vars, Following
<1>2. CASE Next
  <2>1. PICK r \in DOMAIN cells :
          /\ Crash
          /\ state # "data" \/ r \notin DOMAIN Talks
    BY <1>2 DEF Next, Notification, NotificationError, Autorefresh, BackgroundWrite,
       WriteFromDetail, reloadData, cellForRowAt, ScrollAway, didSelectRowAt, deleteRowAt,
       ChangeVisibility
  <2>2. UNCHANGED <<versions, main, phase, cells>> /\ phase = "called"
    BY <2>1 DEF Crash, screen, Following
  <2>3. /\ versions[main] \in Tables /\ versions[1] \in Tables
        /\ cells \in Seq(Cell) /\ r \in 1 .. Len(cells)
    BY DEF LInv, Types
  <2>4. Len(cells) = Cardinality(DOMAIN versions[1])
    BY <2>2 DEF LInv, RowsFit, Following, RowsMatch
  <2>5. Cardinality(DOMAIN versions[main]) \in Nat
        /\ DOMAIN Talks = 1 .. Cardinality(DOMAIN versions[main])
    <3>1. IsListOf(Talks, DOMAIN versions[main])
      BY <2>3, SortedLists DEF Talks
    <3> QED BY <3>1 DEF IsListOf
  <2>6. CASE r \notin DOMAIN Talks
    BY <2>2, <2>3, <2>5, <2>6
  <2>7. CASE state # "data"
    <3>1. state \in {StateOf(versions[1]), StateOf(versions[main])}
      BY <2>2 DEF LInv, StateFits
    <3>2. DOMAIN versions[1] = {} \/ DOMAIN versions[main] = {}
      BY <2>7, <3>1 DEF StateOf
    <3>3. DOMAIN versions[1] # {}
      <4>1. DOMAIN versions[1] = {} => Cardinality(DOMAIN versions[1]) = 0
        BY FS_EmptySet
      <4>2. Len(cells) # 0
        BY <2>3
      <4> QED BY <2>4, <4>1, <4>2
    <3>4. Cardinality(DOMAIN versions[main]) = 0
      BY <3>2, <3>3, FS_EmptySet
    <3> QED BY <2>2, <2>3, <3>4
  <2> QED BY <2>1, <2>6, <2>7
<1> QED BY <1>1, <1>2

(***************************************************************************)
(* Theorems.                                                                *)
(***************************************************************************)

\* The inductive invariant holds throughout.
LEMMA Invariance == Spec => [](LInv /\ CrashFits)
<1>1. Init => LInv /\ CrashFits
  BY InitKeeps DEF Init, CrashFits
<1>2. LInv /\ CrashFits /\ [Next]_vars => (LInv /\ CrashFits)'
  BY NextKeeps, CrashFitsKept
<1> QED BY <1>1, <1>2, PTL DEF Spec

\* The variables of the screen keep their types: the version read is one of those
\* kept, the rows have cells of talks or none, and the opened talk is a talk.
THEOREM TypeCorrectness == Spec => []TypeOK
<1>1. LInv => TypeOK
  <2> SUFFICES ASSUME LInv PROVE TypeOK
    OBVIOUS
  <2>1. Range(versions) \subseteq Tables
    BY DEF LInv, Types, Range
  <2>2. {crashed, mixed, visible} \subseteq BOOLEAN
    BY DEF LInv, Types
  <2>3. \A r \in DOMAIN cells : cells[r] \in [id : Ids \union {0}, date : Dates]
    <3>1. cells \in Seq(Cell)
      BY DEF LInv, Types
    <3>2. \A r \in DOMAIN cells : cells[r] \in Cell
      BY <3>1
    <3> QED BY <3>2 DEF Cell
  <2> QED BY <2>1, <2>2, <2>3 DEF TypeOK, LInv, Types, Latest
<1> QED BY <1>1, Invariance, PTL

\* The counts that UIKit checks at endUpdates: the rows of the table view, less
\* the rows deleted, plus those inserted, are the rows of the results, whichever
\* version the notification or the transaction brings the main thread to.
THEOREM BatchesAreConsistent == Spec => []BatchIsConsistent
<1>1. LInv => BatchIsConsistent
  <2> SUFFICES ASSUME LInv, Following, NEW v \in main .. Latest
               PROVE  Fits(Change(1, v), numberOfRows(versions[v], StateOf(versions[v])))
    BY DEF BatchIsConsistent
  <2>1. /\ v \in 1 .. Len(versions) /\ versions \in Seq(Tables)
        /\ versions[v] \in Tables
    BY DEF LInv, Types, Latest
  <2>2. IsBatch(Change(1, v), v)
    BY <2>1, ChangeIsBatch
  <2>3. Len(cells) = Size(1)
    BY DEF LInv, RowsFit, RowsMatch, Size
  <2>4. numberOfRows(versions[v], StateOf(versions[v])) = Size(v)
    BY <2>1, TableFacts, FS_EmptySet DEF numberOfRows, StateOf, Size
  <2> DEFINE c == Change(1, v)
  <2> HIDE DEF c
  <2>5. IsBatch(c, v)
    BY <2>2 DEF c
  <2>6. c.deletions \union c.modifications \subseteq 0 .. Len(cells) - 1
    BY <2>3, <2>5 DEF IsBatch
  <2>7. Len(cells) - Cardinality(c.deletions) + Cardinality(c.insertions) = Size(v)
    BY <2>3, <2>5 DEF IsBatch
  <2>8. Fits(c, Size(v))
    BY <2>6, <2>7 DEF Fits
  <2> QED BY <2>4, <2>8 DEF c
<1> QED BY <1>1, Invariance, PTL

\* The table view has a row for each talk that it was told of, and an access to a
\* row without a talk falls between a deletion by the main thread and the
\* notification of it.
THEOREM RowsAlwaysHaveTalks == Spec => []RowsHaveTalks
<1>1. LInv /\ CrashFits => RowsHaveTalks
  <2> SUFFICES ASSUME LInv, CrashFits, Following
               PROVE  /\ main = 1 => Len(cells) = numberOfRows(versions[1], state)
                      /\ crashed => /\ main # 1
                                    /\ Cardinality(DOMAIN versions[main]) < Len(cells)
    BY DEF RowsHaveTalks
  <2>1. versions[1] \in Tables /\ cells \in Seq(Cell)
    BY DEF LInv, Types
  <2>2. Len(cells) = Cardinality(DOMAIN versions[1])
    BY DEF LInv, RowsFit, RowsMatch
  <2>3. main = 1 => state = StateOf(versions[1])
    BY DEF LInv, StateFits, Following
  <2>4. DOMAIN versions[1] = {} => Cardinality(DOMAIN versions[1]) = 0
    BY FS_EmptySet
  <2>5. main = 1 => Len(cells) = numberOfRows(versions[1], state)
    BY <2>2, <2>3, <2>4 DEF numberOfRows, StateOf
  <2>6. crashed => Cardinality(DOMAIN versions[main]) < Len(cells)
    BY DEF CrashFits
  <2>7. crashed => main # 1
    BY <2>1, <2>2, <2>6
  <2> QED BY <2>5, <2>6, <2>7
<1> QED BY <1>1, Invariance, PTL

\* Batch after batch, every cell shows the talk of its row with the contents last
\* told, as long as no cell was filled from other results.
THEOREM CellsAlwaysShowTheirTalks == Spec => []CellsShowTheirTalks
<1>1. LInv => CellsShowTheirTalks
  BY DEF LInv, RowsFit, RowsMatch, CellsShowTheirTalks
<1> QED BY <1>1, Invariance, PTL

\* A swipe over the results last told deletes the talk that the row shows and no
\* other, whatever versions the transaction brings in.
THEOREM SwipeDeletesItsTalk == Spec => SwipedTalkIsDeleted
<1> DEFINE Swiped(r) ==
      deleteRowAt(r) /\ Following /\ ~ mixed /\ order = "created" /\ main = 1 =>
        DOMAIN versions[Latest] \ DOMAIN versions'[2]
          = {cells[r].id} \intersect DOMAIN versions[Latest]
<1>1. ASSUME LInv, NEW r \in DOMAIN cells PROVE Swiped(r)
  <2> SUFFICES ASSUME deleteRowAt(r), Following, ~ mixed, order = "created", main = 1
               PROVE  DOMAIN versions[Latest] \ DOMAIN versions'[2]
                        = {cells[r].id} \intersect DOMAIN versions[Latest]
    OBVIOUS
  <2>1. versions[Latest] \in Tables
    BY <1>1 DEF LInv, Types, Latest
  <2>2. cells[r] # Unloaded /\ Write(Deleted(versions[Latest], Talks[r]))
    <3>1. versions[1] \in Tables /\ cells \in Seq(Cell)
      BY <1>1 DEF LInv, Types
    <3>2. IsListOf(Talks, DOMAIN versions[1])
      BY <3>1, SortedLists DEF Talks
    <3>3. Len(cells) = Cardinality(DOMAIN versions[1])
      BY <1>1 DEF LInv, RowsFit, RowsMatch
    <3>4. r \in DOMAIN Talks
      BY <1>1, <3>1, <3>2, <3>3 DEF IsListOf
    <3> QED BY <3>4 DEF deleteRowAt
  <2>3. versions' = <<versions[Latest], Deleted(versions[Latest], Talks[r])>>
    BY <2>2 DEF Write
  <2>4. DOMAIN versions'[2] = DOMAIN versions[Latest] \ {Talks[r]}
    BY <2>1, <2>3, DeletedFacts
  <2>5. cells[r].id = Talks[r]
    BY <1>1, <2>2 DEF LInv, RowsFit, RowsMatch, Talks
  <2> QED BY <2>4, <2>5
<1>2. LInv /\ [Next]_vars => [\A r \in DOMAIN cells : Swiped(r)]_vars
  BY <1>1
<1> QED BY <1>2, Invariance, PTL DEF Spec, SwipedTalkIsDeleted
=============================================================================
