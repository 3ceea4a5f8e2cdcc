# Verification of the talks server and its iOS app

The repository holds a Vapor server that keeps a collection of conference talks
(`src/Server`) and an iOS app that shows and edits them over a local Realm copy
(`src/App/EventApp`). This directory models both in TLA+, checks small instances
with TLC and proves the main results for all instances with TLAPS. Of the
vendored code it models the part the app's screens depend on at every commit:
the change notifications of Realm's Object Store
(`src/App/Pods/Realm/Realm/ObjectStore`).

## The system

| Part | State | Operations | Talks to |
|---|---|---|---|
| Server routes (`TalksController`) | requests being handled | `index`, `create`, `delete`, stubs `get`, `update` | SQLite through Fluent |
| Talk model and table | rows by UUID, in `db.sqlite` | insert, update, delete, query | |
| Boot and seeding (`boot`, `mockData`) | whether the query is out, saves not executed yet | start, query, five saves nobody awaits | the same table |
| Network client (`Network`, `Router`) | data tasks | two `request` functions | the server, HTTP |
| `TalksFetcher`, `TalksUpdater` | none | `fetchAll`, `create`, `update`, `delete` and their completions | network, Realm |
| Realm storage (`Talk`, `Talk+RW`) | rows by primary key, the version each thread sees | add, delete, write | |
| Realm notifications (`RealmCoordinator`, `CollectionNotifier`) | the version of each thread, the notifier and its version, what waits for the callback, the skip version | register, run on the worker thread, deliver, begin and commit a write | the worker, the run loop of the main thread |
| Realm change sets (`CollectionChangeBuilder`, `ResultsNotifier`) | the log of the table, the rows of the last results, the accumulated change | follow a log, compare two results, merge, finalize | notifications |
| Listing screen | sorted results, table rows and their cells, Realm notification | reload, add, swipe to delete, select | fetcher, updater, Realm |
| Detail screen | the talk it holds, rows of its sections, the field being edited | edit, toggle the date, pick a date, delete | updater, Realm |
| Split view (`BootViewController`) | collapsed or not | collapse | detail screen |

What is hard here:

* a handler of the server awaits between two SQL statements, and requests, the
  seeding and a crash come in between;
* nothing awaits the seeding, at any start;
* the app applies a response long after it was made, on another thread than the
  one the user acts on, and the user goes on meanwhile;
* a transport error completes a request twice, and statuses are never read;
* Realm objects change under a screen that holds them, and raise once deleted;
* the rows of a table view are kept twice, by the screen and by UIKit;
* a commit reaches the list through three threads: the worker computes a change
  against the version it saw last, the main thread moves to that version when
  its run loop gets there or when it starts a write, and its own commits are
  told to it later;
* a change is a pair of numberings: deletions and reloads count rows of the old
  results, insertions rows of the new ones, and two changes not delivered yet
  are merged into one.

`PROJECT.json` lists these hazards at their lines, with the properties that
would catch them going wrong.

What makes the parts correct: acknowledged operations of the server last;
identifiers are never reused; the mock talks are not duplicated; every request
is settled; a fetch makes the device agree with the response it received; a
deletion is not undone by something older than it; talks made on the device
stay there; every task of the app completes; no sequence of taps breaks the
detail screen, and every edit made there is sent; the list learns each change
once, with the version that has it; the rows it is told to delete, insert and
reload turn what it shows into the new results; a swipe deletes the talk it is
made on.

## The modules

| Module | Models |
|---|---|
| `TalkStore` | what the service promises of its collection (abstract) |
| `TalksServer` | `TalksController`, the table, `boot`, `mockData`, crashes and restarts |
| `TalksServerProofs` | theorems about `TalksServer` and its refinement of `TalkStore` |
| `RealmStore` | the Realm calls the app makes, as operators on a file |
| `TalksClient` | `Network`, `Router`, `TalksFetcher`, `TalksUpdater`, the user's calls of them |
| `TalksSystem` | app, server and other REST clients together |
| `TalksSystemProofs` | theorems about `TalksSystem` |
| `TalkDetail` | `TalkDetailViewController` and the split view around it |
| `TalkDetailProofs` | theorems about `TalkDetail` |
| `ChangeFeed` | what observing a collection promises to the main thread (abstract) |
| `RealmNotifier` | commits, the notifier, its worker and the main thread's run loop |
| `RealmNotifierProofs` | theorems about `RealmNotifier` and its refinement of `ChangeFeed` |
| `CollectionChange` | index sets and the operations on change sets |
| `CollectionChangeProofs` | theorems about its operators, for any two results |
| `ChangeMergeProofs` | theorems about merged changes and about results in table order |
| `ResultsNotifier` | from transactions to the rows a table view is told of |
| `ResultsNotifierProofs` | theorems about `ResultsNotifier` |
| `Listing` | `ListingViewController` above `ChangeFeed` and `CollectionChange` |
| `ListingProofs` | theorems about `Listing` |
| `MCTalksSystem`, `MCTalkDetail` | instances for TLC |

`TalksServer`, `RealmNotifier`, `ResultsNotifier` and `Listing` need no instance
module: their constants are numbers or model values, given in the `.cfg`.

Definitions keep the names of the code where there is one to keep. A definition
whose comment describes a wrong variant of the next one (`bootUnguarded`,
`deleteLookupEager`, ...) is a mutant: no specification uses it, it is there to
show that a property can be violated.

### TalksServer

`db` is the table (identifier to title), `seedsLeft` the saves `mockData` has
started, `proc` the process (`checking`: the query of `boot` is out). A request
is a slot of `Reqs`, used once: `call` is what it asks, `phase` how far it is,
`reply` its response. One SQL statement is one step. `delete` awaits between its
two statements and is `deleteLookup` followed by `deleteRow`; `create` is
`create` (no identifier in the body: INSERT) or `saveWithId` (Fluent's `save` of
a model with an identifier: UPDATE, answered 200 whether or not a row matched).
`sqlFails` is any statement failing, turned into a 500 by `ErrorMiddleware`;
`Handle` is it together with `Serve`, what the server does of itself for a request.
`start` is `app` with `configure`; a process in the testing environment does not
seed. `boot` and `bootFails`, `mockData` and `mockDataFails` are the query and
the saves, each of which may fail without anybody noticing. `crash` keeps the
table, for it is a file, and loses everything else. A client names only
identifiers that were generated before (`minted`): UUIDs do not collide and are
not guessed. Of a talk only the title is kept; no condition of the server reads
another field.

Fluent, Vapor and SQLite are not in the repository: `save`, `next(Talk.self)`
and `delete(on:)` are modelled from how the controller uses them.

### RealmStore, TalksClient, TalksSystem

A file is a function from primary keys to names. The delicate operator is
`replace`, the write of `fetchAll`. The code filters the talks to delete by
`!talksToUpdate.contains($0)`, where the fetched objects are not in Realm yet
and equal nothing; but `Results` is a lazy collection, so the filter runs when
`realm.delete` enumerates it, after `realm.add` has turned them into accessors
of rows, and then it compares rows. `replace` follows that order, `replaceEager`
is the order in which the code reads.

`TalksClient` has one action per call of the user and one per way a completion
handler goes. `task[r]` is the data task, `shown` the talks in the version of
the file the main thread is at, `offline[r]` the talks `create` put on the
device when request `r` failed. The session's queue is serial (`Completing`),
yet the main thread runs between the two completions of a transport error
(`requestError`, then `noData`, or for a DELETE whose response had arrived
`responseAfterError`). `write` is `try? realm.write`: a failing commit changes
nothing and is not noticed. `appDies` drops the tasks while the server may
still handle their requests.

`TalksSystem` puts the two together: a request of the app is a slot of the
server's `Reqs`, the other slots belong to other REST clients, which may send
any call, POSTs with an identifier included.

### TalkDetail

`talk` is the row, `accessor` what the screen's object still refers to: a row, a
removed row (`detached`), or nothing after a deletion through the object itself
(`released`). `rows` is the date section of `sections`, `tableRows` the number
of rows UIKit has there, `known` the talk as last sent or received, `editing`
the field with the keyboard. Access to a talk that is gone raises; `try?` does
not catch it. `datePickerChanged` is sent only while there is a picker row, for UIKit
sends it from the picker of that row; this is assumed. That the section then has
the second row which the handler indexes is not assumed but shown
(`DateSectionWellformed`). When the screen leaves, its field ends editing, so the handlers
for that also run on a popped screen.

### RealmNotifier, ChangeFeed

A Realm file has versions `1 .. latest`; of what a version changes only whether
it touches the observed collection is kept (`touching`), so a change set is the
set of the versions it covers, and merging two is their union. Each thread has
its own steps. Main: `Register` (`register_notifier` and `add_callback` in one:
a run of the worker between the two only records rows, as the first run does
anyway), `PromoteToWrite`, `BeginWrite` and `BeginWriteReturns` (the three stages of
`promote_to_write`: a package with a copy of `m_async_error`, made under the mutex;
the write lock, waited for without it; the wait for the worker, with the lock
held), `CommitWrite`, `NotifyOthers`, `CancelWrite`, and `Notify` (`Realm::notify` from the run loop, with
`advance_to_ready` or `process_available_async`). Background: a Realm without
notifier that begins, commits and notifies; the commit and the wake-up of the
worker are two steps. Worker: `OnChange` (the first section of
`run_async_notifiers`), `RunToSkipVersion`, `RunToTarget` and `Signal`. What the
code does under `m_notifier_mutex` is one step.

The skip version is the delicate part. A commit of the main thread records its
version; the worker's next pass first runs to that version alone, then to the
latest, so that the package for the main thread's own commit does not contain
what other threads added. The code asserts that a pass never goes below it.

`ChangeFeed` is the promise: each call of the callback takes its knowledge
exactly to the version the main thread then reads, and a write of the main
thread starts with everything told.

### CollectionChange, ResultsNotifier

`CollectionChange` has the operations as the code has them: `IndexSet` is the
set of its indices, with `shift`, `unshift`, `erase_at`, `insert_at` and
`add_shifted_by` by what they compute; `insert`, `modify` and `move_over` follow a
transaction log (deleting a Realm row moves the last one over it);
`parse_complete`, `merge`, `finalize`, and `calculate` with its two ways to find
moves, follow the code's order of assignments, the order in which two deletions
shift each other included. Loops are written for the prover as well, as recursive
functions with an operator for one round: over the rows of `a` in
`find_longest_match` (`for_each_b_match`), over the depth of its recursion in
`find_longest_matches` (`matches_within`), over the moves in `follow_moves`
(`follow_move`) and `clean_up_stale_moves` (`clean_up_stale_move`), over the new
rows in `calculate_moves_unsorted` (`place_row`). `std::sort` is `SortedBy`, by rank.

`ResultsNotifier` makes transactions over a table (`InsertTalk`, `ModifyTalk`,
`DeleteTalk`), runs of the notifier and deliveries in any order. `seen` are the
talks of the last run, `shown` the cells of a table view that applies what it
is told. Both kinds of results are covered, sorted by date and in table order.

### Listing

`versions` are the tables since the callback was last called, `main` the one
the main thread reads: results are live, so `talks[row]` follows `main`, and not
what was told. `cells` are the rows UIKit has and the talk each cell was filled
from (a row off the screen has no cell). `crashed` is the app stopped by
`fatalError` or by an index that the results do not have (`Crash`). `dateModified` stands for the contents
of a talk. `CallFor` is the callback (`.initial`, `.update`, both leaving the
results sorted by `dateCreated`; the first call is always `.initial`, for
`RLMCollection.mm:405-407` suppresses its change set), reached through `Show` by `Notification`, from
the run loop, and by `Write`: starting a transaction on the main thread calls it
first. `reloadData` leaves the results sorted by `dateModified` and does not
reload the table. `BackgroundWrite` is the completion of a fetch, which replaces
the table; `WriteFromDetail` is an edit or a deletion on the detail screen.

Two things the screen does are in the model and are premises of its
properties, not violations of anything the repository states:

* after a pull to refresh a row that scrolls in is filled in the other order
  (`ListingViewController.swift:124` against line 52) and keeps that cell until it
  is reloaded (`mixed`);
* between a write of the main thread and the notification of it the results may be
  a row shorter than the table view, and `talks[row]` of its last row raises
  (`cellForRowAt`, `didSelectRowAt`, `deleteRowAt` each have that branch).
  `RowsHaveTalks` says that, once the callback is called, a crash comes in this
  window and by such a row only. Before the first call, and after an `.error`,
  nothing is claimed of the rows.

## Runs

| Run | Instance | Shows |
|---|---|---|
| `server` | 3 identifiers, 2 requests, 2 seeds, 1 crash, development and testing, fair | acknowledged operations last, no double seeding, `TalkStore` is implemented, every request settles |
| `system` | 3 identifiers, 2 requests of the app, 1 of another client, 1 seed, 1 failing write | fetches mirror, deletions last, offline talks stay, the server is `TalksServer` |
| `system_live` | 6 identifiers, 2 requests of the app, fair, no symmetry | tasks complete, created talks appear |
| `detail` | 2 texts, 2 dates | rows, crashes and sending of the detail screen |
| `notifier` | 4 commits, one callback, fair | `ChangeFeed` is implemented, nothing is told twice or dropped, everything is told in the end, writes get through |
| `results` | 4 rows, 4 operations, 2 dates, sorted or not | the rows reported turn the old cells into the new results; no diff in table order is larger than needed |
| `listing` | 2 talks, 3 versions | batch updates fit the table view, cells show their talks, a swipe deletes its own |
| `error_untold` | 1 commit, fair | violation: an error that the block is never told |
| `modified_rows` | 2 rows, 2 operations | violation: modifications that are not indices of the new collection |
| `failed_create` | 2 requests of the app | violation: one failed creation, two talks |
| `reported_deletion` | 2 requests of the app | violation: a failed deletion reported as done |
| `post_with_id` | 1 request | violation: a POST answered 200 that stores nothing |

Why these bounds are enough for the cases that matter: the races of the server
are between two DELETEs, or a DELETE and a POST, of one talk, and the seeding gives
them a talk to race for, so two requests give each its partner; for more of them
the safety properties are proved. Seeding twice needs one crash
and two starts, and two seeds let the crash come between them. In the system,
two requests of the app are a fetch overtaken by a creation or a deletion, and
the third is another client changing the table meanwhile. A crash of the server
is left to `server` (`MaxCrashes = 0` in `system`): the app notices it only as a
transport error, which may happen to it at any time. An identifier is used up by each creation and by each
completion of a failing one; `system_live` has as many as its requests and their
double completions can use, so that no step is disabled for want of one; it has
no failing write, for a talk whose write fails does not appear. In
`system` a creation may find none left; that is a bound like any other and no
liveness is checked there. Deadlock checking is off because the bounded request
slots do run out.

For the notifications: a skip version matters when the main thread has
committed, another thread commits before the worker runs, and the main thread
goes on; with four commits that happens with a commit before it and one after
it. A merge of change sets needs two runs before a delivery; four operations
over four rows let a row be moved over, modified, moved again and deleted, in
one log or in two. In `listing` two talks have all the orders a batch of a
deletion, an insertion and a reload can meet, and three versions are the one
told, one of another thread and one of the main thread. An error of the
observation is left to `NotificationError` before the first call, since the
helper Realm is opened on the first run.

Bounds: `MaxCrashes` and `MaxWriteFailures` cap counters, `Reqs` and `Ids` the
number of requests and identifiers, `MaxVersion` the commits of `RealmNotifier` (it
guards the beginning of a transaction on either thread and the commit of the main
one, which, begun before another thread's last commit, can then only be cancelled),
`MaxRows` and `MaxOps` the table and the operations of `ResultsNotifier`,
`MaxVersions` the versions not told yet in `Listing`.

### Fairness

`Fairness` (server): weak fairness of `Serve` for each request. The event loop
serves each request by itself and a closed port refuses. That a statement fails
(`sqlFails`) is never assumed, so nothing is settled by a failure that has to come:
the second of two racing DELETEs ends because `deleteRow` does not need its row.
Starting the process is not assumed either, so a request may also be lost.
`EveryRequestSettles` exempts a POST for which the instance has no identifier left
(`NoIdLeft`), which is a matter of the bound and not of the code. `SystemFairness` adds weak
fairness of each task's completion: a task of a `URLSession` ends at the latest
by its timeout, and the serial queue runs its handler. Nothing is assumed of
the user, of the seeding, of the Realm refresh or of a restart.

`Fairness` of `RealmNotifier`: the threads run (`WorkerThread`, `NotifyOthers`,
`BackgroundNotify`), a write transaction that was begun is finished by commit or
cancellation (`realm.write` does one or the other), the write lock is obtained once
it stays free (`BeginWrite`; the other thread's commits are finite in number, so
nothing stronger is needed), the run loop comes back to a signalled source
(`Notify`), and a condition variable whose condition holds lets its thread go
(`BeginWriteReturns`). Nobody has to register or to begin a write.

`EveryChangeIsTold` and `BeginWriteEnds` exempt a helper Realm that cannot be
opened. For the first this is the code's way of giving up; `ErrorIsTold` says that the
callback hears of it, unless the main thread waits for the notifier (`mainPc =
"begin"`). That wait is the case the run `error_untold` exhibits: with a package made
before the failure nobody looks at the error again, the notifier never runs, and
the main thread waits on with the write lock.

### What the violations show

* `failed_create`: `Network.request` does not return after the error branch
  (`Network.swift:40-47`), so `create` stores the talk on the device twice.
* `reported_deletion`: a response of any status counts as success
  (`Network.swift:84`); a DELETE that failed with 500 prints "Succesfully
  deleted" while the talk is still on the server.
* `post_with_id`: "Saves a decoded `Talk` to the database"
  (`TalksController.swift:24`) is not so for a talk with an unknown identifier.
* `error_untold`: "If an error occurs, notification blocks are called one time with a
  `.error` result" (`RealmCollection.swift:109`) is not so if the helper Realm fails to
  open after `promote_to_write` has copied `m_async_error` (`realm_coordinator.cpp:921`),
  for instance while the main thread waits for another thread's write lock.
* `modified_rows`: "The indices of the objects in the new collection which were
  modified" (`RealmCollection.swift:104`) are in fact indices of the old collection
  (`RLMCollection.mm:357`). `reloadRows` of a batch needs those, as
  `PendingChangeIsExact` and `ReloadedRowsSurvive` show, so it is the text that is wrong.

## Proofs

The theorems hold for all values of the constants under the assumptions the
modules name: titles, seeds and identifiers are told apart from `None` and
titles from seeds (`TitlesAssumption`), `None` is no response
(`ReplyAssumption`), no text or date (`NoneAssumption`) and no edit
(`EditingAssumption`), the app's requests are requests (`AppReqsAssumption`),
and the bounds are natural numbers (`NotifierAssumption` is one of these).

`TalksServerProofs`. `AckedDeleteIsFinal` alone is not inductive: an INSERT
could take the identifier of a deleted talk, and a second DELETE could name an
identifier nobody has generated. `IInv` adds `Wellformed`: a stored row and
every identifier in a request are in `minted`, a request that was located is a
DELETE, and exactly the answered requests have a response. With it, an INSERT
takes a fresh identifier, which no acknowledged DELETE can name, and UPDATE
never creates a row; `AckedCreateIsDurable` holds because only `deleteRow`
removes rows and its request is the DELETE the property allows; `SeededOnce`
because `boot` starts saves only over an empty table. Theorems: `TypeCorrect`,
`DeleteIsFinal`, `CreateIsDurable`, `NeverSeededTwice`, and `Refinement`, in
which `mockData` and `create` are `Add`, `saveWithId` is `Rewrite` or a stutter,
`deleteRow` is `Remove` or a stutter, `elsewhere` is `Reserve`.

`TalksSystemProofs`. `SystemInv` is `IInv` with `AppInv`: every talk the app
holds or was sent has a generated identifier, a request it has not sent is
idle, and its POSTs carry no identifier. The step from there to the server is
the lemma `SystemStepIsServerStep` (a request is `Arrive`, a talk made on the
device is `elsewhere`), which gives `SystemImplementsServer` and carries the
server's theorems over (`DeleteIsFinalInSystem`). `FetchMirrors` rests on
`ReplaceIsResponse`: the write of `fetchAll` leaves exactly the response.
`OfflineTalksStayOffline` is part of the invariant: a talk made on the device
has an identifier no INSERT takes, and an UPDATE does not create it.
`DeletedStaysDeleted` follows from `AckedDeleteIsFinal`: no response made after
the acknowledgement has the talk, and the property's premise excludes those made
before it.

`TalkDetailProofs`. `CrashOnlyWhenGone` needs to know that the table view has as
many rows as the data source and that a picker is always the third of three
rows; `DetailInv` is the conjunction of the screen's properties with the former.
Each handler of the date section has a lemma of its own; the others leave the
rows alone (`SameRows`), or crash over a talk that is gone (`CrashDetailInv`).

`RealmNotifierProofs`. The properties of the notifier depend on each other
through the interleavings, so `NotifierInv` has a part for each reason they hold:

* `LockInv`: the write lock is held by the thread whose transaction is open, so
  nobody commits while the main thread waits or writes;
* `StageInv`: what registration, runs, errors and callbacks allow of each other
  (a callback is called only after a run, a run means no error, the error of a
  package is one of the coordinator);
* `WriteInv`: once the main thread may write it reads the latest version and its
  callback knows everything, which is why its own commit can be skipped;
* `PendingInv`: what the callback knows and what waits for it are disjoint and
  make up the touching versions up to the notifier's;
* `PassInv`: a skip version is strictly ahead of the notifier, is the version the
  main thread reads, and is not beyond the version the pass goes to. Without this
  a pass could run backwards or put a foreign commit into the package of the main
  thread's own.

Theorems: `NotifierInvariant`, `NotifierTypeCorrect`, `NothingIsToldTwice`,
`DroppedPackageIsEmpty`, `HandoverHasNoGap`, `NotifierOnlyAdvances`, and
`NotifierImplementsFeed`, in which the worker's steps and `PromoteToWrite` are
stutters, `BeginWrite`, `BeginWriteReturns` and `Notify` are `Tell`, `Advance`, `Fail` or stutters, and `CommitWrite` is `CommitOnMain`.

`CollectionChangeProofs`. What the comparison of two sorted results computes is
a matter of induction over data, and the library's induction rules take an
operator, which the provers cannot instantiate. Two lemmas stand in for them.
`SetInduction` and `LeastNat` are about sets: a set that contains a number
whenever it contains all smaller ones contains them all, shown by the least
counterexample. `Iteration` says that a function given by a first value and a
step exists, so a recursive definition by `CHOOSE` does satisfy its equation.
The argument then follows the code:

* `LongestMatchIsBlock`: each round of `find_longest_match` keeps the best block a
  block (`RoundKeepsBlocks`): its rows are the same in both results, and it lies
  within the bounds. These are the code's two `REALM_ASSERT`s, line 680;
* `LongestMatchesAreChain`: the blocks of all the calls follow one another in both
  results, by induction on the depth. That the code compares `m.i + m.size` with
  `end2` and not with `end1` (line 700) costs nothing here: it only decides
  whether the right side is searched, and both results have the same length;
* `ChainIsExact`: with everything outside a chain deleted and inserted, the n-th
  row kept in the old results is the n-th row kept in the new ones;
* `MatchingPlaces`, `ExactIsMatching`: that, counted through `shift` and `unshift`
  (`UnshiftIsRank`, `MatchingCut`), is the row each index leads back to;
* `SharedRowsAreShared`, `SharedRowsByPrev`, `MovesSortedAreExact`, `CalculateIsExact`:
  the lists `calculate` hands to the comparison, the rows gone and new, and the
  case that nothing moved;
* `CalculatedChangeIsTrue`: so `finalize(calculate(...))` is a true change. Debug
  builds check that at the end of `calculate` by applying the change; here it holds
  for any two results without repeated rows and any set of changed rows.

`ListingProofs`. `BatchIsConsistent` and `CellsShowTheirTalks` speak of the
versions since the callback was last called, so neither is inductive. `LInv` adds
what the screen knows in each phase: the state and the rows agree with the
version told (`StateFits`, `RowsFit`). `CrashFits` says that a crash is over a row the
version read does not have; with `RowsFit` that cannot be the version told. A batch is consistent because `Change` is a true change
(`ChangeIsTrue`, from `CalculatedChangeIsTrue`): `BatchMatches` carries each cell
that is not reloaded to the row of its talk, `NothingToTell` says that an empty
change leaves the same talks in the same order with the same contents, which is
why the callback need not be called. `SwipeDeletesItsTalk` follows from
`CellsShowTheirTalks`: the talk is read before the transaction begins.
`ListingAssumption` says that there are finitely many talks.
Theorems: `TypeCorrectness`, `BatchesAreConsistent`, `RowsAlwaysHaveTalks`,
`CellsAlwaysShowTheirTalks`, `SwipeDeletesItsTalk`.

`ChangeMergeProofs`. A change is true of an old and a new list (`IsTrueOf`) when it
is exact (deleting and inserting its rows turns one list into the other,
`IsExactChange`), every move is of one row, from a deletion to an insertion, at
most one from each row, and every row that stays or moves with other contents is
modified. Two arguments:

* `MergedChangeIsTrue`: a true change from the first list to the second, merged with
  one from the second to the third, is true of the first and the third. A row is in
  neither set of the merged change only if it stays in both, at the place that
  `shift` and `unshift` give it (`MergedIsExact`). `FollowKeeps` takes the moves of the
  first change one by one: moved again, deleted, or carried on; `FreshMoves` and
  `AlignedMoves` are the moves only the second has. `CleanKeeps` shows why
  `clean_up_stale_moves` may drop a move with its deletion and insertion: as many
  rows stay before it in both lists (`DroppedMoveIsExact`). That depends on the
  deletions and insertions left by then, so it is an invariant of the loop and not
  a fact about each move;
* `UnsortedIsCalculated`: `calculate` for results in table order. `place_row` keeps a
  row where the rows inserted and removed so far explain its place, and otherwise
  moves it. What has to be shown is that the rows kept are in the same order in
  both lists: `PlaceInv` says that no row after one that was kept stood before it,
  and `ExplainedIsFirst` that counting the rows before a row leaves no room for
  one. It holds because `move_last_over` only moves rows towards the start
  (`KeepsTable`); the code's own comment excludes `swap()` too.

`StepsStay` and `StepsExist` take the place of an induction over the rounds of a
loop: a function that starts in `P[0]` and whose n-th step goes from `P[n - 1]` to
`P[n]` stays in its sets.

`ResultsNotifierProofs`. `PendingChangeIsExact` says something of the change that
waits only; what a later run merges into it depends on the log that is still being
written, so the property is not inductive. `Inv` adds both ends:

* the change that waits is true between `shown` and `seen` (`IsTrueBetween`);
* the log is true between the table at the last run, which `previous` and `seen`
  determine (`TableOf`), and the table now (`IsLogOf`): rows outside its insertions
  and deletions are where they were, `move_mapping` says where a moved row was, and
  only rows further to the end were moved, all other insertions are new talks, and
  the modifications have every talk with other contents;
* `previous` lists each row once, no list has a talk twice, and a talk to come has
  an identifier that none has had (`AreKnown`).

`MoveOverIsLogged` is the delicate step of the log: `move_over` of a row that was
inserted, moved or untouched, by a last row that was. `PreviousRowsFollow` renumbers
the rows of the last run by the log, `RunIsTrue` puts `UnsortedIsCalculated` or
`CalculateIsExact` on top of it, `MergedChangeIsTrue` merges, and `UpdatedIsNew` and
`FinalizedIsBatch` say what a table view makes of the result. The only assumption
is that dates and bounds are natural numbers (`ResultsAssumption`). TLC checked
`Inv` on the instance of the run `results` before it was proved. Theorems:
`InvHolds`, `PendingChangeIsAlwaysExact`, `ReloadedRowsAlwaysSurvive`,
`MovesAreAlwaysTrue`.

Only model-checked: the liveness properties (TLAPS does not do fairness and
ENABLED), the violations, and `UnsortedDiffIsMinimal`. The last compares the rows a
run moves with the largest of all the sets of talks two lists have in one order; it
needs a bound on every such set, which no step of the argument above gives.

## Not modelled

* Dates, speaker, notes and timestamps of a talk outside the two screens: no
  condition of the server or of the core reads them. In particular the mock
  dates given in milliseconds (`boot.swift:22`) and `dateModified` copied from
  `dateCreated` (`Talk.swift:48` of the app) are outside the model.
* The edits a PUT carries: the route is a stub and the server reads no body.
* Cells, placeholders, logging, generated constants, Docker files: no state.
* The rest of the vendored pods. The repository's own program is a few thousand
  lines of Swift; nearly all of its C++ and Objective-C is third-party (Realm's
  storage engine, queries, accessors, sync and network, XCGLogger, SwiftDate),
  much of it as headers of a library whose implementation is not there. The app
  reaches it through a handful of calls, which `RealmStore` and `TalkDetail`
  model by their effect; the notifications and change sets are modelled from
  their source because the list's correctness rests on how they work.
* Of the Object Store: KVO, lists and single objects as observed collections,
  several processes, sync, schema changes, removing a callback, suppressing it
  in a write: the app uses none of them.
* That the texts of the cells of the detail screen are those of the talk at the
  time it was configured (`TalkDetailViewController.swift:357`): listed as a
  hazard without a property, since every order of edits is allowed there.

## What could follow

1. Compose `Listing` with `TalkDetail`: deletion in one under the other, which
   replaces the `removed` and `fetched` of `TalkDetail` by the list's and the
   fetcher's steps.
2. Dates: creation and modification as model time, through `Talk.from`, for the
   order of the list.
3. A proof of `UnsortedDiffIsMinimal`: that any set of talks in one order has, for
   each row of it that `place_row` moved, lost another row that was kept.
