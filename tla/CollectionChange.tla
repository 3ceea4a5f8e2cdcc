-------------------------- MODULE CollectionChange --------------------------
(***************************************************************************)
(* The change sets of the Realm Object Store, on which the listing's table  *)
(* updates rest: IndexSet (a set of row indices, 0-based as in the code),   *)
(* the CollectionChangeBuilder that follows a transaction log or compares   *)
(* two query results, and the merge of two successive change sets.  Only    *)
(* the operations that a Results over one table reaches are here: rows are  *)
(* inserted, modified and removed with move_last_over.                      *)
(***************************************************************************)
EXTENDS Integers, Sequences, FiniteSets, SequencesExt

(***************************************************************************)
(* IndexSet: the chunked list of ranges is the set of its indices.          *)
(***************************************************************************)

count(S, lo, hi) == Cardinality({i \in S : lo <= i /\ i < hi})

\* The index that position n of a collection gets once the rows of S are
\* inserted into it: the n-th index outside S.
shift(S, n) ==
  CHOOSE i \in n .. n + Cardinality(S) : i \notin S /\ i - count(S, 0, i) = n

\* The position that index i (not in S) had before the rows of S came.
unshift(S, i) == i - count(S, 0, i)

\* erase_at(positions): the rows of D leave the collection, and the set.
erase_at(S, D) == {unshift(D, i) : i \in S \ D}

\* shift_for_insert_at(values): the rows of I enter the collection, not the set.
shift_for_insert_at(S, I) == {shift(I, i) : i \in S}

\* insert_at(positions): the rows of I enter the collection and the set.
insert_at(S, I) == shift_for_insert_at(S, I) \union I

\* A wrong add_shifted_by: the rows of by still counted.
add_shifted(S, by, new) == S \union {shift(S, i) : i \in new \ by}

\* add_shifted_by: the new indices, given in a collection that already has the
\* rows of by and lacks those of S, are brought to the numbering of S.
add_shifted_by(S, by, new) == S \union {shift(S, unshift(by, i)) : i \in new \ by}

(***************************************************************************)
(* A change: deletions in the old numbering, insertions and modifications   *)
(* in the new one, moves a list of [from |-> old, to |-> new], and the map   *)
(* new -> old of the moves of the transaction log being read.               *)
(***************************************************************************)

EmptyChange ==
  [deletions |-> {}, insertions |-> {}, modifications |-> {},
   moves |-> <<>>, move_mapping |-> <<>>]

empty(c) == /\ c.deletions = {}
            /\ c.insertions = {}
            /\ c.modifications = {}
            /\ c.moves = <<>>

Without(f, k) == [x \in DOMAIN f \ {k} |-> f[x]]
With(f, k, v) == [x \in DOMAIN f \union {k} |-> IF x = k THEN v ELSE f[x]]

modify(c, ndx) == [c EXCEPT !.modifications = @ \union {ndx}]

\* A row is added at the end of the table: no index shifts.
insert(c, index) == [c EXCEPT !.insertions = @ \union {index}]

\* The last row itself is removed.
move_over_last(c, row) ==
  [c EXCEPT
    !.insertions = @ \ {row},
    !.deletions = IF row \in c.insertions THEN @
                  ELSE @ \union {shift(@, unshift(c.insertions, row))},
    !.modifications = @ \ {row},
    !.move_mapping = Without(@, row)]

\* Row row is removed by moving the last row over it.  The deletion of the last
\* row is recorded before that of row: the second is shifted by the first.
move_over_other(c, row, last) ==
  LET rowIsInsertion  == row \in c.insertions
      lastIsInsertion == last \in c.insertions
      lastWasMoved    == lastIsInsertion /\ last \in DOMAIN c.move_mapping
      lastOld == shift(c.deletions, unshift(c.insertions, last))
      del1 == IF lastIsInsertion THEN c.deletions
              ELSE c.deletions \union {lastOld}
      ins1 == c.insertions \ {last}
  IN [c EXCEPT
       !.modifications = (@ \ {row, last})
                           \union (IF last \in @ THEN {row} ELSE {}),
       !.move_mapping =
         IF lastWasMoved THEN With(Without(@, last), row, @[last])
         ELSE IF lastIsInsertion THEN Without(@, row)
         ELSE With(@, row, lastOld),
       !.deletions = IF rowIsInsertion THEN del1
                     ELSE del1 \union {shift(del1, unshift(ins1, row))},
       !.insertions = ins1 \union {row}]

move_over(c, row, last) ==
  IF row = last THEN move_over_last(c, row) ELSE move_over_other(c, row, last)

\* std::sort: the members of S by the strict order before, a set of pairs.
SortedBy(S, before) ==
  [k \in 1 .. Cardinality(S) |->
    CHOOSE x \in S : Cardinality({y \in S : <<y, x>> \in before}) = k - 1]

\* The end of the log: a row moved onto itself did not move; the moves are
\* listed by their origin.
parse_complete(c) ==
  LET still == {to \in DOMAIN c.move_mapping : c.move_mapping[to] = to}
      moved == {[from |-> c.move_mapping[to], to |-> to] :
                  to \in DOMAIN c.move_mapping \ still}
  IN [c EXCEPT
       !.deletions = @ \ still,
       !.insertions = @ \ still,
       !.moves = SortedBy(moved, {e \in moved \X moved : e[1].from < e[2].from}),
       !.move_mapping = <<>>]

(***************************************************************************)
(* merge: this change, then the change c.                                   *)
(***************************************************************************)

\* A wrong follow_move: a row deleted since stays a move.
follow_move_blindly(this, c, s, old) ==
  LET again == {k \in DOMAIN s.next : s.next[k].from = old.to} IN
  IF again # {} THEN
    LET k == CHOOSE k \in again : TRUE
        last == Len(s.next)
    IN [kept |-> Append(s.kept, [old EXCEPT !.to = s.next[k].to]),
        next |-> SubSeq([s.next EXCEPT ![k] = s.next[last]], 1, last - 1),
        modified |-> s.modified \union
          (IF old.to \in this.modifications THEN {s.next[k].to} ELSE {})]
  ELSE [s EXCEPT !.kept = Append(@,
          [old EXCEPT !.to = shift(c.insertions, unshift(c.deletions, old.to))])]

\* One earlier move is brought up to date with c: its row moved again, or was
\* deleted, or was shifted by what c inserts and deletes.  A modified row that
\* moves again stays modified.
follow_move(this, c, s, old) ==
  LET again == {k \in DOMAIN s.next : s.next[k].from = old.to} IN
  IF again # {} THEN
    LET k == CHOOSE k \in again : TRUE
        last == Len(s.next)
    IN [kept |-> Append(s.kept, [old EXCEPT !.to = s.next[k].to]),
        next |-> SubSeq([s.next EXCEPT ![k] = s.next[last]], 1, last - 1),
        modified |-> s.modified \union
          (IF old.to \in this.modifications THEN {s.next[k].to} ELSE {})]
  ELSE IF old.to \in c.deletions THEN s
  ELSE [s EXCEPT !.kept = Append(@,
          [old EXCEPT !.to = shift(c.insertions, unshift(c.deletions, old.to))])]

follow_moves(this, c) ==
  LET follow[n \in 0 .. Len(this.moves)] ==
        IF n = 0 THEN [kept |-> <<>>, next |-> c.moves, modified |-> c.modifications]
        ELSE follow_move(this, c, follow[n - 1], this.moves[n])
  IN follow[Len(this.moves)]

\* A move that only looks like one because other rows came and went is dropped
\* with its deletion and insertion.
clean_up_stale_move(d, move) ==
  IF unshift(d.deletions, move.from) = unshift(d.insertions, move.to)
    THEN [d EXCEPT !.deletions = @ \ {move.from}, !.insertions = @ \ {move.to}]
    ELSE [d EXCEPT !.moves = Append(@, move)]

clean_up_stale_moves(c) ==
  LET clean[n \in 0 .. Len(c.moves)] ==
        IF n = 0 THEN [c EXCEPT !.moves = <<>>]
        ELSE clean_up_stale_move(clean[n - 1], c.moves[n])
  IN clean[Len(c.moves)]

\* The moves of rows that were not inserted before, in their order.
fresh_moves(moves, insertions) ==
  LET stay == {k \in DOMAIN moves : moves[k].from \notin insertions}
      inOrder == SortedBy(stay, {e \in stay \X stay : e[1] < e[2]})
  IN [k \in DOMAIN inOrder |-> moves[inOrder[k]]]

merge_both(this, c) ==
  LET followed == follow_moves(this, c)
      fresh == fresh_moves(followed.next, this.insertions)
      modified == followed.modified \union
                    {m.to : m \in {n \in Range(fresh) : n.from \in this.modifications}}
      aligned == [k \in DOMAIN fresh |->
                   [fresh[k] EXCEPT !.from = shift(this.deletions,
                                                   unshift(this.insertions, @))]]
      merged == clean_up_stale_moves(
        [this EXCEPT
          !.moves = followed.kept \o aligned,
          !.deletions = add_shifted_by(@, this.insertions, c.deletions),
          !.insertions = insert_at(erase_at(@, c.deletions), c.insertions)])
  IN [merged EXCEPT
       !.modifications = shift_for_insert_at(erase_at(@, c.deletions), c.insertions)
                           \union modified]

merge(this, c) ==
  IF empty(c) THEN this ELSE IF empty(this) THEN c ELSE merge_both(this, c)

\* A wrong finalize: the modified rows not shifted by the deletions.
finalize_unshifted(c) ==
  [deletions |-> c.deletions,
   insertions |-> c.insertions,
   modifications |-> erase_at(c.modifications, c.insertions),
   modifications_new |-> c.modifications \ c.insertions,
   moves |-> c.moves]

\* What the callback gets: the modified rows in the old numbering too, and no
\* inserted row among the modified ones.
finalize(c) ==
  [deletions |-> c.deletions,
   insertions |-> c.insertions,
   modifications |-> shift_for_insert_at(erase_at(c.modifications, c.insertions),
                                         c.deletions),
   modifications_new |-> c.modifications \ c.insertions,
   moves |-> c.moves]

(***************************************************************************)
(* calculate: the change between two results of a query, as lists of table  *)
(* rows.  prev is in the numbering of the new table, npos for the rows that *)
(* are gone.                                                                *)
(***************************************************************************)

npos == -1

\* RowInfo of the rows present in both results, in the order of the new one.
SharedRows(prev, next) ==
  LET shared == {n \in DOMAIN next : next[n] \in Range(prev)}
      inNext == SortedBy(shared, {e \in shared \X shared : e[1] < e[2]})
      was(n) == CHOOSE p \in DOMAIN prev : prev[p] = next[n]
  IN [k \in DOMAIN inNext |->
       LET n == inNext[k]
           gone == {q \in 0 .. was(n) - 2 : prev[q + 1] = npos}
       IN [row_index |-> next[n], tv_index |-> n - 1, prev_tv_index |-> was(n) - 1,
           shifted_tv_index |-> was(n) - 1 - Cardinality(gone)]]

\* A wrong calculate_moves_unsorted: every candidate with another index moved.
calculate_moves_by_index(rows, removed, candidates, c) ==
  LET moved == SelectSeq(rows, LAMBDA row : /\ row.row_index \in candidates
                                            /\ row.shifted_tv_index # row.tv_index)
  IN [c EXCEPT
       !.moves = [k \in DOMAIN moved |->
                   [from |-> moved[k].prev_tv_index, to |-> moved[k].tv_index]],
       !.insertions = @ \union {row.tv_index : row \in Range(moved)},
       !.deletions = @ \union removed \union {row.prev_tv_index : row \in Range(moved)}]

\* Results in table order: a row off its expected place that may have moved,
\* and whose place the other changes do not explain, is a move.
place_row(candidates, s, row) ==
  LET calc_expected == unshift(s.insertions, row.tv_index)
                         + count(s.removed, 0, row.prev_tv_index)
  IN IF row.shifted_tv_index = s.expected
       THEN [s EXCEPT !.expected = @ + 1]
     ELSE IF row.row_index \notin candidates \/ row.shifted_tv_index = calc_expected
       THEN [s EXCEPT !.expected = row.shifted_tv_index + 1]
     ELSE [s EXCEPT
            !.moves = Append(@, [from |-> row.prev_tv_index, to |-> row.tv_index]),
            !.insertions = @ \union {row.tv_index},
            !.removed = @ \union {row.prev_tv_index}]

calculate_moves_unsorted(rows, removed, candidates, c) ==
  LET round[n \in 0 .. Len(rows)] ==
        IF n = 0
          THEN [expected |-> 0, moves |-> c.moves, insertions |-> c.insertions,
                removed |-> removed]
          ELSE place_row(candidates, round[n - 1], rows[n])
      end == round[Len(rows)]
  IN [c EXCEPT !.moves = end.moves,
               !.insertions = end.insertions,
               !.deletions = @ \union end.removed]

\* One round of find_longest_match, for row i of a: the block that ends at a[i]
\* and at the same row of b, if that is within the bounds.  Among blocks of one
\* length a later one is taken only for fewer modified rows; the count of the
\* block found first is taken, as in the code, over the size indices that end at
\* its start, none when these would begin below 0.
for_each_b_match(a, b, begin2, end2, modified, s, i) ==
  LET at == {j \in begin2 .. end2 - 1 : b[j + 1] = a[i + 1]}
      j == CHOOSE j \in at : TRUE
      size == IF s.len > 0 /\ s.j + 1 = j THEN s.len + 1 ELSE 1
      found == [i |-> i - size + 1, j |-> j - size + 1, size |-> size, modified |-> npos]
      here == count(modified, j - size + 1, j + 1)
      best == s.best.j - size + 1
      known == IF s.best.modified # npos THEN s.best.modified
               ELSE IF best < 0 THEN 0
               ELSE count(modified, best, s.best.j + 1)
  IN IF at = {} THEN [s EXCEPT !.len = 0]
     ELSE [j |-> j, len |-> size,
           best |-> IF size > s.best.size THEN found
                    ELSE IF size < s.best.size THEN s.best
                    ELSE IF here < known THEN [found EXCEPT !.modified = here]
                    ELSE [s.best EXCEPT !.modified = known]]

\* find_longest_match: the longest block of rows that both results have in the
\* same order, i and j where it starts in a and b (0-based), within the bounds.
find_longest_match(a, b, begin1, end1, begin2, end2, modified) ==
  LET round[n \in 0 .. end1 - begin1] ==
        IF n = 0
          THEN [j |-> begin2, len |-> 0,
                best |-> [i |-> begin1, j |-> begin2, size |-> 0, modified |-> 0]]
          ELSE for_each_b_match(a, b, begin2, end2, modified, round[n - 1], begin1 + n - 1)
  IN round[end1 - begin1].best

\* One call of find_longest_matches on the bounds q: the longest block, and the
\* blocks that the calls for both sides of it find.
matches_within(a, b, modified, q, found) ==
  LET begin1 == q[1]  end1 == q[2]  begin2 == q[3]  end2 == q[4]
      m == find_longest_match(a, b, begin1, end1, begin2, end2, modified)
  IN IF m.size = 0 THEN {}
     ELSE {m}
       \union (IF m.i > begin1 /\ m.j > begin2
                 THEN found[<<begin1, m.i, begin2, m.j>>] ELSE {})
       \union (IF m.i + m.size < end2 /\ m.j + m.size < end2
                 THEN found[<<m.i + m.size, end1, m.j + m.size, end2>>] ELSE {})

\* find_longest_matches, by the depth of the recursion: every call is left with
\* fewer rows of a than the one that makes it.
find_longest_matches(a, b, first, modified) ==
  LET N == 0 .. Len(a)
      bounds == {q \in N \X N \X N \X N : q[1] <= q[2] /\ q[3] <= q[4]}
      find[depth \in N] ==
        [q \in bounds |->
          IF depth = 0 THEN {} ELSE matches_within(a, b, modified, q, find[depth - 1])]
  IN find[Len(a)][<<first, Len(a), first, Len(a)>>]

\* Sorted results: the rows outside the common blocks are deleted and inserted.
calculate_moves_sorted(rows, c) ==
  LET byPrev == SortedBy(Range(rows), {e \in Range(rows) \X Range(rows) :
                                         e[1].prev_tv_index < e[2].prev_tv_index})
      a == [k \in DOMAIN rows |-> byPrev[k].row_index]
      b == [k \in DOMAIN rows |-> rows[k].row_index]
      differs == {k \in DOMAIN rows : a[k] # b[k]}
      first == (CHOOSE k \in differs : \A l \in differs : k <= l) - 1
      matches == find_longest_matches(a, b, first, c.modifications)
      outsideA == {i \in first .. Len(a) - 1 :
                     \A m \in matches : i \notin m.i .. m.i + m.size - 1}
      outsideB == {j \in first .. Len(b) - 1 :
                     \A m \in matches : j \notin m.j .. m.j + m.size - 1}
  IN IF differs = {} THEN c
     ELSE [c EXCEPT
            !.deletions = @ \union {byPrev[i + 1].prev_tv_index : i \in outsideA},
            !.insertions = @ \union {rows[j + 1].tv_index : j \in outsideB}]

\* changed: the rows of the new table that row_did_change reports; candidates:
\* the rows that may have moved, used when the results are in table order.
calculate(prev, next, changed, inTableOrder, candidates) ==
  LET rows    == SharedRows(prev, next)
      gone    == {p - 1 : p \in {q \in DOMAIN prev : prev[q] = npos}}
      removed == {p - 1 : p \in {q \in DOMAIN prev : prev[q] # npos
                                                      /\ prev[q] \notin Range(next)}}
      c == [EmptyChange EXCEPT
             !.deletions = gone,
             !.insertions = {n - 1 : n \in {k \in DOMAIN next : next[k] \notin Range(prev)}},
             !.modifications = {r.tv_index : r \in {q \in Range(rows) :
                                                      q.row_index \in changed}}]
  IN IF inTableOrder
       THEN calculate_moves_unsorted(rows, removed, candidates, c)
       ELSE LET d == calculate_moves_sorted(rows, c)
            IN [d EXCEPT !.deletions = @ \union removed]
=============================================================================
