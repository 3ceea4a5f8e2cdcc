------------------------------- MODULE Listing -------------------------------
(***************************************************************************)
(* The listing screen (ListingViewController) above the notifications of    *)
(* Realm: its state, the rows and cells of its table view, the results it   *)
(* reads (live: they follow the version of the main thread) and the order   *)
(* they are sorted in.  When the main thread moves to a version and what    *)
(* the callback is then told is ChangeFeed, which RealmNotifier implements; *)
(* which rows a change deletes, inserts and reloads is CollectionChange.    *)
(***************************************************************************)
EXTENDS CollectionChange

CONSTANTS Ids,         \* talks, numbered in the order of their dateCreated
          MaxVersions  \* bound: versions between the last call and the latest one

ASSUME ListingAssumption ==
  /\ Ids \subseteq Nat \ {0}
  /\ IsFiniteSet(Ids)
  /\ MaxVersions \in Nat \ {0, 1}

VARIABLES
  versions,   \* the versions of the table since the last call of the callback
              \* (since viewDidLoad before the first), versions[1] the one told
  main,       \* the version the main thread reads, an index of versions
  phase,      \* of the callback: "first" (not called yet), "called", "failed"
  crashed,    \* fatalError was met, or an index out of bounds
  state,      \* "empty", "data" or "error"
  order,      \* the sort of the results in state .data: "created" or "modified"
  cells,      \* the rows the table view has, each with its cell
  mixed,      \* history: since the table was last reloaded, a cell was filled from
              \* results other than those its rows stand for
  visible,    \* tableView.isVisible
  opened      \* the talk of the detail screen (0: none)

vars == <<versions, main, phase, crashed, state, order, cells, mixed, visible, opened>>
screen == <<state, order, cells, mixed>>

\* A version of the table: the talks stored, each with its dateModified, which
\* stands for its contents.
Dates == 0 .. 1
Tables == UNION {[S -> Dates] : S \in SUBSET Ids}
Latest == Len(versions)

\* sorted(byKeyPath:): by dateCreated the newest first, or by dateModified.
Sorted(version, by) ==
  LET S == DOMAIN version
      created == {e \in S \X S : e[1] > e[2]}
      modified == {e \in S \X S : \/ version[e[1]] < version[e[2]]
                                  \/ version[e[1]] = version[e[2]] /\ e[1] < e[2]}
  IN SortedBy(S, IF by = "created" THEN created ELSE modified)

Talks == Sorted(versions[main], order)

numberOfRows(version, s) == IF s = "data" THEN Cardinality(DOMAIN version) ELSE 0

\* A row whose cell has not been asked for, or has scrolled away, has no talk.
Unloaded == [id |-> 0, date |-> 0]
Unread(n) == [r \in 1 .. n |-> Unloaded]

StateOf(version) == IF DOMAIN version = {} THEN "empty" ELSE "data"

\* viewDidLoad: the results, the observation, and reloadData.
Init ==
  /\ \E version \in Tables : versions = <<version>>
  /\ main = 1
  /\ phase = "first"
  /\ crashed = FALSE
  /\ state = StateOf(versions[1])
  /\ order = "modified"
  /\ cells = Unread(numberOfRows(versions[1], state))
  /\ mixed = FALSE
  /\ visible = TRUE
  /\ opened = 0

(***************************************************************************)
(* The callback.                                                            *)
(***************************************************************************)

\* The change between two versions: a talk that was away in between is another
\* row of the table.
Change(from, to) ==
  LET all == {versions[k] : k \in from .. to}
      kept == {id \in Ids : \A version \in all : id \in DOMAIN version}
      changed == {id \in kept : \E v, w \in all : v[id] # w[id]}
      old == Sorted(versions[from], "created")
      new == Sorted(versions[to], "created")
  IN finalize(calculate([k \in DOMAIN old |-> IF old[k] \in kept THEN old[k] ELSE npos],
                        [k \in DOMAIN new |-> IF new[k] \in kept THEN new[k] ELSE npos - new[k]],
                        changed, FALSE, {}))

\* A wrong BatchUpdate: without reloadRows.
BatchUpdateUnreloaded(rows, change, n) ==
  LET old(r) == shift(change.deletions, unshift(change.insertions, r - 1)) + 1 IN
  [r \in 1 .. n |->
    IF r - 1 \in change.insertions \/ old(r) \notin DOMAIN rows THEN Unloaded
    ELSE rows[old(r)]]

\* UIKit: the cells after deleteRows, insertRows and reloadRows in one batch.
BatchUpdate(rows, change, n) ==
  LET old(r) == shift(change.deletions, unshift(change.insertions, r - 1)) + 1 IN
  [r \in 1 .. n |->
    IF r - 1 \in change.insertions \/ old(r) \notin DOMAIN rows THEN Unloaded
    ELSE IF old(r) - 1 \in change.modifications THEN Unloaded
    ELSE rows[old(r)]]

\* .initial: the state, and the whole table reloaded.
TableReloaded(v) ==
  [cells |-> Unread(numberOfRows(versions[v], StateOf(versions[v]))), mixed |-> FALSE]

\* A wrong OnInitial: the table is not reloaded.
OnInitialStateOnly(v) == [cells |-> cells, mixed |-> mixed, version |-> v]

OnInitial(v) == TableReloaded(v)

\* A wrong OnUpdate: a hidden table is left alone.
OnUpdateVisibleOnly(change, v) ==
  IF visible
    THEN [cells |-> BatchUpdate(cells, change,
                                numberOfRows(versions[v], StateOf(versions[v]))),
          mixed |-> mixed]
    ELSE [cells |-> cells, mixed |-> mixed]

\* .update: the batch when the table is visible, else the whole table.
OnUpdate(change, v) ==
  IF visible
    THEN [cells |-> BatchUpdate(cells, change,
                                numberOfRows(versions[v], StateOf(versions[v]))),
          mixed |-> mixed]
    ELSE TableReloaded(v)

\* The first call is made whatever there is to tell and is .initial, for the
\* change set of the first call is suppressed; later ones are made for a change.
IsCalled(change) == phase = "first" \/ (phase = "called" /\ ~ empty(change))
Called(change, v) == IF phase = "first" THEN OnInitial(v) ELSE OnUpdate(change, v)

CallFor(change, v) ==
  IF IsCalled(change)
    THEN /\ state' = StateOf(versions[v])
         /\ order' = "created"
         /\ cells' = Called(change, v).cells
         /\ mixed' = Called(change, v).mixed
         /\ phase' = "called"
    ELSE UNCHANGED <<screen, phase>>

Show(v) == CallFor(Change(1, v), v)

\* The run loop delivers: the main thread moves to v.
Notification(v) ==
  /\ phase # "failed"
  /\ phase = "called" => v > 1
  /\ Show(v)
  /\ versions' = SubSeq(versions, v, Latest)
  /\ main' = 1
  /\ UNCHANGED <<crashed, visible, opened>>

\* .error: the state only.
NotificationError(v) ==
  /\ phase = "first"
  /\ phase' = "failed"
  /\ state' = "error"
  /\ main' = v
  /\ UNCHANGED <<versions, crashed, order, cells, mixed, visible, opened>>

\* Nobody is told: the callback has not run yet, or is gone.
Autorefresh(v) ==
  /\ phase # "called"
  /\ main < v
  /\ main' = v
  /\ UNCHANGED <<versions, phase, crashed, screen, visible, opened>>

(***************************************************************************)
(* Transactions.                                                            *)
(***************************************************************************)

Deleted(version, id) == [x \in DOMAIN version \ {id} |-> version[x]]
Edited(version, id) == {[version EXCEPT ![id] = d] : d \in Dates \ {version[id]}}

\* A network completion commits on its own thread: a fetch replaces the table.
BackgroundWrite ==
  /\ Latest < MaxVersions
  /\ \E version \in Tables : versions' = Append(versions, version)
  /\ UNCHANGED <<main, phase, crashed, screen, visible, opened>>

\* A wrong Write: the callback is not called for what the transaction starts from.
WriteUntold(version) ==
  /\ UNCHANGED <<screen, phase>>
  /\ versions' = Append(versions, version)
  /\ main' = Latest + 1

\* realm.write on the main thread: beginning the transaction brings the main
\* thread to the latest version and calls the callback for it; the version
\* written is told later.
Write(version) ==
  /\ Show(Latest)
  /\ versions' = <<versions[Latest], version>>
  /\ main' = 2

\* The detail screen changes its talk or deletes it.  (Over a talk that is gone
\* it crashes: TalkDetail.)
WriteFromDetail ==
  /\ opened \in DOMAIN versions[main]
  /\ opened \in DOMAIN versions[Latest]
  /\ \E version \in Edited(versions[Latest], opened) \union {Deleted(versions[Latest], opened)} :
       Write(version)
  /\ UNCHANGED <<crashed, visible, opened>>

(***************************************************************************)
(* The user.                                                                *)
(***************************************************************************)

\* reloadData: the results in their other order; the table is not reloaded.
\* (fetchAll comes back as BackgroundWrite.)
reloadData ==
  /\ state' = StateOf(versions[main])
  /\ order' = "modified"
  /\ UNCHANGED <<versions, main, phase, crashed, cells, mixed, visible, opened>>

Crash ==
  /\ crashed' = TRUE
  /\ UNCHANGED <<versions, main, phase, screen, visible, opened>>

\* cellForRowAt, for a row that comes on the screen: fatalError without data, and
\* talks[row] raises for a row that the results do not have.
cellForRowAt(r) ==
  /\ visible
  /\ cells[r] = Unloaded
  /\ IF state = "data" /\ r \in DOMAIN Talks
       THEN /\ cells' = [cells EXCEPT ![r] = [id |-> Talks[r],
                                              date |-> versions[main][Talks[r]]]]
            /\ mixed' = (mixed \/ order # "created" \/ main # 1)
            /\ UNCHANGED <<versions, main, phase, crashed, state, order, visible, opened>>
       ELSE Crash

\* UIKit reuses the cell of a row that leaves the screen.
ScrollAway(r) ==
  /\ cells[r] # Unloaded
  /\ cells' = [cells EXCEPT ![r] = Unloaded]
  /\ UNCHANGED <<versions, main, phase, crashed, state, order, mixed, visible, opened>>

\* Without data there is nothing to select; a row that the results do not have
\* raises.
didSelectRowAt(r) ==
  /\ visible
  /\ cells[r] # Unloaded
  /\ state = "data"
  /\ IF r \in DOMAIN Talks
       THEN /\ opened' = Talks[r]
            /\ UNCHANGED <<versions, main, phase, crashed, screen, visible>>
       ELSE Crash

\* A wrong deleteRowAt: the talk is read inside the transaction.
deleteRowAtLate(r) ==
  /\ visible
  /\ cells[r] # Unloaded
  /\ state = "data"
  /\ LET talks == Sorted(versions[Latest], "created") IN
       IF r \in DOMAIN talks
         THEN /\ Write(Deleted(versions[Latest], talks[r]))
              /\ UNCHANGED <<crashed, visible, opened>>
         ELSE Crash

\* commit editingStyle .delete: the talk is read before the transaction begins;
\* one that is gone by then is not deleted again.
deleteRowAt(r) ==
  /\ visible
  /\ cells[r] # Unloaded
  /\ state = "data"
  /\ IF r \in DOMAIN Talks
       THEN /\ Write(Deleted(versions[Latest], Talks[r]))
            /\ UNCHANGED <<crashed, visible, opened>>
       ELSE Crash

\* The detail covers the listing on a phone, and goes away.
ChangeVisibility ==
  /\ visible' = ~ visible
  /\ UNCHANGED <<versions, main, phase, crashed, screen, opened>>

Next ==
  /\ ~ crashed
  /\ \/ \E v \in main .. Latest : Notification(v) \/ NotificationError(v) \/ Autorefresh(v)
     \/ BackgroundWrite
     \/ WriteFromDetail
     \/ reloadData
     \/ \E r \in DOMAIN cells : \/ cellForRowAt(r) \/ ScrollAway(r)
                               \/ didSelectRowAt(r) \/ deleteRowAt(r)
     \/ ChangeVisibility

Spec == Init /\ [][Next]_vars

(***************************************************************************)
(* Properties.                                                              *)
(***************************************************************************)

TypeOK ==
  /\ Latest \in 1 .. MaxVersions
  /\ Range(versions) \subseteq Tables
  /\ main \in 1 .. Latest
  /\ phase \in {"first", "called", "failed"}
  /\ state \in {"empty", "data", "error"}
  /\ order \in {"created", "modified"}
  /\ \A r \in DOMAIN cells : cells[r] \in [id : Ids \union {0}, date : Dates]
  /\ {crashed, mixed, visible} \subseteq BOOLEAN
  /\ opened \in Ids \union {0}

\* The callback has begun and goes on.
Following == phase = "called"

\* A batch that UIKit accepts over the present rows, leaving n.
Fits(change, n) ==
  /\ change.deletions \union change.modifications \subseteq 0 .. Len(cells) - 1
  /\ Len(cells) - Cardinality(change.deletions) + Cardinality(change.insertions) = n

\* Whatever was committed, edited, deleted in the list or on the detail screen,
\* pulled or hidden since: to whichever version the next notification or the
\* next transaction brings the main thread, the rows it deletes and inserts fit
\* the rows that the table view has and those that the new results have (UIKit
\* raises at endUpdates otherwise).
BatchIsConsistent ==
  Following =>
    \A v \in main .. Latest :
      Fits(Change(1, v), numberOfRows(versions[v], StateOf(versions[v])))

\* Once told of the version it reads, the table view has a row for each talk of it;
\* and neither cellForRowAt, nor a selection or a swipe, meets fatalError or an
\* index out of bounds, but between a deletion by the main thread itself and the
\* notification of it, when the results are shorter than the table view.
RowsHaveTalks ==
  Following =>
    /\ main = 1 => Len(cells) = numberOfRows(versions[1], state)
    /\ crashed => main # 1 /\ Cardinality(DOMAIN versions[main]) < Len(cells)

\* Batch after batch every cell shows the talk of its row with the contents
\* last told, as long as no cell was filled from other results: those of
\* reloadData, or those of a transaction not told yet.
CellsShowTheirTalks ==
  Following /\ ~ mixed =>
    LET talks == Sorted(versions[1], "created") IN
    \A r \in DOMAIN cells :
      cells[r] = Unloaded \/ cells[r] = [id |-> talks[r], date |-> versions[1][talks[r]]]

\* A swipe deletes the talk that its row shows and no other, although beginning
\* the transaction may bring in other versions and move the row; if that talk
\* is gone by then, nothing is deleted.
SwipedTalkIsDeleted ==
  [][\A r \in DOMAIN cells :
       deleteRowAt(r) /\ Following /\ ~ mixed /\ order = "created" /\ main = 1 =>
         DOMAIN versions[Latest] \ DOMAIN versions'[2]
           = {cells[r].id} \intersect DOMAIN versions[Latest]]_vars
=============================================================================
