--------------------------- MODULE ResultsNotifier ---------------------------
(***************************************************************************)
(* How the Realm notifier of the listing's talks turns transactions into    *)
(* the rows that a table view deletes, inserts and reloads: the table of    *)
(* talks and its transaction log, ResultsNotifier on the worker thread, and *)
(* a table view that applies what it is told.  When each step happens is    *)
(* the business of RealmNotifier; here any number of transactions come      *)
(* before a run, and any number of runs before a delivery.                  *)
(***************************************************************************)
EXTENDS CollectionChange

CONSTANTS Dates,    \* values of the property the talks are sorted by
          MaxRows,  \* bound: talks in the table
          MaxOps    \* bound: operations of transactions in one behaviour

ASSUME ResultsAssumption == Dates \subseteq Nat /\ MaxRows \in Nat /\ MaxOps \in Nat

VARIABLES
  table,         \* the Realm table: its rows in order, each a talk
  inTableOrder,  \* the results carry no sort
  info,          \* TransactionChangeInfo of the table since the last run
  previous,      \* m_previous_rows: the table rows of the last results
  seen,          \* the talks of the last results, handed over with the change
  accumulated,   \* m_accumulated_changes: not delivered yet
  shown,         \* the cells of the table view
  ops            \* operations so far: also makes the ids of new talks

vars == <<table, inTableOrder, info, previous, seen, accumulated, shown, ops>>

Talk == [id : Nat, date : Dates]

\* The rows of the table in the order of the results: the newest talk first,
\* equal dates in table order.
ResultRows(t, unsorted) ==
  LET rows == 0 .. Len(t) - 1
      newer == {e \in rows \X rows :
                  \/ t[e[1] + 1].date > t[e[2] + 1].date
                  \/ t[e[1] + 1].date = t[e[2] + 1].date /\ e[1] < e[2]}
  IN IF unsorted THEN [k \in 1 .. Len(t) |-> k - 1] ELSE SortedBy(rows, newer)

Talks(t, rows) == [k \in DOMAIN rows |-> t[rows[k] + 1]]

\* The callback is registered and its first run has been delivered.
Init ==
  /\ \E n \in 0 .. MaxRows : \E d \in [1 .. n -> Dates] :
        table = [k \in 1 .. n |-> [id |-> k, date |-> d[k]]]
  /\ inTableOrder \in BOOLEAN
  /\ info = EmptyChange
  /\ previous = ResultRows(table, inTableOrder)
  /\ seen = Talks(table, previous)
  /\ accumulated = EmptyChange
  /\ shown = seen
  /\ ops = 0

Operation == ops < MaxOps /\ ops' = ops + 1

\* insert_empty_rows, then the set instructions that fill the row.
InsertTalk(date) ==
  /\ Operation
  /\ Len(table) < MaxRows
  /\ table' = Append(table, [id |-> MaxRows + ops + 1, date |-> date])
  /\ info' = modify(insert(info, Len(table)), Len(table))
  /\ UNCHANGED <<inTableOrder, previous, seen, accumulated, shown>>

ModifyTalk(row, date) ==
  /\ Operation
  /\ table[row + 1].date # date
  /\ table' = [table EXCEPT ![row + 1].date = date]
  /\ info' = modify(info, row)
  /\ UNCHANGED <<inTableOrder, previous, seen, accumulated, shown>>

\* erase_rows, unordered: move_last_over.
DeleteTalk(row) ==
  /\ Operation
  /\ LET last == Len(table) - 1 IN
       /\ table' = SubSeq([table EXCEPT ![row + 1] = table[last + 1]], 1, last)
       /\ info' = move_over(info, row, last)
  /\ UNCHANGED <<inTableOrder, previous, seen, accumulated, shown>>

\* The rows of the previous results in the numbering of the new table.
PreviousRows(changes) ==
  LET movedTo(r) == {m.to : m \in {n \in Range(changes.moves) : n.from = r}} IN
  [k \in DOMAIN previous |->
    LET r == previous[k] IN
    IF r \notin changes.deletions
      THEN shift(changes.insertions, unshift(changes.deletions, r))
    ELSE IF movedTo(r) = {} THEN npos
    ELSE CHOOSE to \in movedTo(r) : TRUE]

\* run, calculate_changes and do_prepare_handover.  Nothing is done when the
\* table is at the version seen before.
Run ==
  LET changes == parse_complete(info)
      next == ResultRows(table, inTableOrder)
      change == calculate(PreviousRows(changes), next, changes.modifications,
                          inTableOrder, changes.insertions)
  IN /\ ~ empty(info)
     /\ previous' = next
     /\ seen' = Talks(table, next)
     /\ accumulated' = merge(accumulated, change)
     /\ info' = EmptyChange
     /\ UNCHANGED <<table, inTableOrder, shown, ops>>

\* A table view with the given cells applies a change: it keeps the cells that
\* are not deleted, asks for those inserted and those reloaded.
Blank == [id |-> 0, date |-> 0]
Updated(cells, change, talks) ==
  LET rest == {k \in 0 .. Len(cells) - 1 : k \notin change.deletions}
      kept == {n \in 0 .. Len(talks) - 1 : n \notin change.insertions}
      was(n) == {k \in rest : Cardinality({j \in rest : j < k})
                                = Cardinality({m \in kept : m < n})}
      old(n) == CHOOSE k \in was(n) : TRUE
      cell(n) == IF n \notin kept THEN talks[n + 1]
                 ELSE IF was(n) = {} THEN Blank
                 ELSE IF old(n) \in change.modifications THEN talks[n + 1]
                 ELSE cells[old(n) + 1]
  IN [n \in DOMAIN talks |-> cell(n - 1)]

\* package_for_delivery and after_advance: the callback is called only when
\* there is something to tell.
Deliver ==
  LET change == finalize(accumulated) IN
  /\ ~ empty(accumulated)
  /\ shown' = Updated(shown, change, seen)
  /\ accumulated' = EmptyChange
  /\ UNCHANGED <<table, inTableOrder, info, previous, seen, ops>>

Next ==
  \/ \E date \in Dates : InsertTalk(date)
  \/ \E row \in 0 .. Len(table) - 1 : \E date \in Dates : ModifyTalk(row, date)
  \/ \E row \in 0 .. Len(table) - 1 : DeleteTalk(row)
  \/ Run
  \/ Deliver

Spec == Init /\ [][Next]_vars

(***************************************************************************)
(* Properties.                                                              *)
(***************************************************************************)

\* Delivering what has been accumulated, over however many runs and whatever
\* the transactions between them did, makes a table view that shows the last
\* delivery show exactly the talks of the last results, every cell with the
\* talk's present contents, and the numbers of rows agree as UIKit demands of
\* a batch update (the listing passes the three lists to one).
PendingChangeIsExact ==
  LET change == finalize(accumulated) IN
  /\ Updated(shown, change, seen) = seen
  /\ Len(shown) - Cardinality(change.deletions) + Cardinality(change.insertions)
       = Len(seen)
  /\ change.deletions \union change.modifications \subseteq 0 .. Len(shown) - 1
  /\ change.insertions \subseteq 0 .. Len(seen) - 1

\* A row is never both deleted and reloaded in one batch (which UIKit refuses),
\* and a row reported as modified is a talk that was shown before and is still
\* there: modifications in the old and in the new numbering name the same talks.
ReloadedRowsSurvive ==
  LET change == finalize(accumulated) IN
  /\ change.modifications \intersect change.deletions = {}
  /\ {shown[i + 1].id : i \in change.modifications}
       = {seen[i + 1].id : i \in change.modifications_new}

\* "The indices of the objects in the new collection which were modified"
\* (RealmCollection.swift): the modifications that the callback is given are in
\* the numbering of the new results.
ModificationsAreOfNewResults ==
  LET change == finalize(accumulated) IN
  change.modifications = change.modifications_new

\* A reported move names one talk: the row it left and the row it went to are
\* the same talk, and both are among the deletions and insertions (verify()).
MovesAreTrue ==
  \A m \in Range(accumulated.moves) :
    /\ m.from \in accumulated.deletions
    /\ m.to \in accumulated.insertions
    /\ shown[m.from + 1].id = seen[m.to + 1].id

\* The largest set of talks that two lists have in the same order.
InCommonOrder(old, new) ==
  LET pos(s, x) == CHOOSE k \in DOMAIN s : s[k].id = x
      ids(s) == {s[k].id : k \in DOMAIN s}
      ordered == {S \in SUBSET (ids(old) \intersect ids(new)) :
                    \A x, y \in S : pos(old, x) < pos(old, y) => pos(new, x) < pos(new, y)}
      sizes == {Cardinality(S) : S \in ordered}
  IN CHOOSE n \in sizes : \A m \in sizes : m <= n

\* A run over results in table order moves as few rows as possible: what the
\* comment of calculate_moves_unsorted guarantees for move_last_over.
UnsortedDiffIsMinimal ==
  [][Run /\ inTableOrder /\ empty(accumulated) =>
       Cardinality(accumulated'.insertions) = Len(seen') - InCommonOrder(seen, seen')]_vars
=============================================================================
