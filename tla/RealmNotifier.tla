--------------------------- MODULE RealmNotifier ---------------------------
(***************************************************************************)
(* How a commit reaches the callback that the listing registers: the Realm  *)
(* coordinator, its worker thread (the commit listener) which runs the      *)
(* notifier, the main thread with its run loop, and a background thread     *)
(* (network completions) that commits too.                                  *)
(*                                                                          *)
(* What a version changes is abstracted to whether it touches the           *)
(* collection; a change set is the set of the versions it covers (that the  *)
(* rows are right is shown in ResultsNotifier).  The sections under         *)
(* m_notifier_mutex are single steps.                                       *)
(***************************************************************************)
EXTENDS Integers

CONSTANT MaxVersion   \* bound: commits in one behaviour

ASSUME NotifierAssumption == MaxVersion \in Nat

VARIABLES
  latest,       \* version of the latest snapshot
  touching,     \* the versions that changed the collection
  writer,       \* holder of the write lock: "none", "main", "background"
  mainPc,       \* "idle" (run loop), "promote" (waits for the write lock),
                \* "begin" (waits for the notifier), "write", "committed"
  packageError, \* the copy of m_async_error in the package of promote_to_write
  mainVersion,  \* the main thread's read transaction
  backgroundPc, \* "idle", "write", "committed"
  registered,   \* the notifier is in "none", "new" (m_new_notifiers), "old" (m_notifiers)
  callback,     \* "none", "first" (initial not delivered), "called", "removed" (error told)
  known,        \* history: the versions whose changes the callback has learnt of
  hasRun,       \* m_has_run
  version,      \* m_sg_version of the notifier
  accumulated,  \* accumulated_changes of the callback
  skipVersion,  \* m_notifier_skip_version (0: none)
  workerPc,     \* "idle", "skip", "run", "signal"
  target,       \* the version this pass of the worker goes to
  skip,         \* the skip version this pass took
  opened,       \* m_notifier_sg is open
  error,        \* m_async_error
  woken,        \* bytes in the pipe the worker listens on
  signalled     \* the run loop source of the main Realm is signalled

transaction == <<latest, touching, writer>>
notifier == <<registered, hasRun, version, accumulated>>
worker == <<workerPc, target, skip, opened>>
promotion == <<mainPc, packageError>>
told == <<callback, known>>

vars == <<latest, touching, writer, mainPc, packageError, mainVersion, backgroundPc,
          registered, callback, known, hasRun, version, accumulated, skipVersion,
          workerPc, target, skip, opened, error, woken, signalled>>

HaveCallbacks == callback \in {"first", "called"}

FlagsOK ==
  /\ packageError \in BOOLEAN /\ hasRun \in BOOLEAN /\ opened \in BOOLEAN
  /\ error \in BOOLEAN /\ woken \in BOOLEAN /\ signalled \in BOOLEAN

TypeOK ==
  /\ FlagsOK
  /\ latest \in Nat
  /\ touching \subseteq 1 .. latest
  /\ writer \in {"none", "main", "background"}
  /\ mainPc \in {"idle", "promote", "begin", "write", "committed"}
  /\ mainVersion \in 0 .. latest
  /\ backgroundPc \in {"idle", "write", "committed"}
  /\ registered \in {"none", "new", "old"}
  /\ callback \in {"none", "first", "called", "removed"}
  /\ known \subseteq touching
  /\ accumulated \subseteq touching
  /\ version \in 0 .. latest
  /\ skipVersion \in 0 .. latest
  /\ workerPc \in {"idle", "skip", "run", "signal"}
  /\ target \in 0 .. latest
  /\ skip \in 0 .. latest

Init ==
  /\ latest = 0 /\ touching = {} /\ writer = "none"
  /\ mainPc = "idle" /\ packageError = FALSE /\ mainVersion = 0 /\ backgroundPc = "idle"
  /\ registered = "none" /\ callback = "none" /\ known = {}
  /\ hasRun = FALSE /\ version = 0 /\ accumulated = {}
  /\ skipVersion = 0 /\ workerPc = "idle" /\ target = 0 /\ skip = 0
  /\ opened = FALSE /\ error = FALSE /\ woken = FALSE /\ signalled = FALSE

Between(lo, hi) == {u \in touching : lo < u /\ u <= hi}

(***************************************************************************)
(* The main thread.                                                         *)
(***************************************************************************)

\* talks.observe: register_notifier pins the version (which may fail), then
\* add_callback wakes the worker.
Register ==
  /\ mainPc = "idle"
  /\ registered = "none"
  /\ registered' = "new"
  /\ version' = mainVersion
  /\ callback' = "first"
  /\ error' \in BOOLEAN
  /\ woken' = TRUE
  /\ UNCHANGED <<transaction, promotion, mainVersion, backgroundPc, known,
                 hasRun, accumulated, skipVersion, worker, signalled>>

\* A wrong DeliverAt: the package stays where it was.
DeliverAtKeeping(v) ==
  /\ mainVersion' = v
  /\ IF callback \in {"first", "called"}
       THEN /\ callback' = "called"
            /\ known' = IF callback = "first" THEN {u \in touching : u <= v}
                        ELSE known \union accumulated
       ELSE UNCHANGED told
  /\ UNCHANGED notifier

\* package_for_delivery, then the callback once the main thread is at v: it is
\* called for its first time or when there are changes.
DeliverAt(v) ==
  /\ mainVersion' = v
  /\ accumulated' = {}
  /\ IF callback \in {"first", "called"}
       THEN /\ callback' = "called"
            /\ known' = IF callback = "first" THEN {u \in touching : u <= v}
                        ELSE known \union accumulated
       ELSE UNCHANGED told
  /\ UNCHANGED <<registered, hasRun, version>>

\* deliver_error: the callbacks are told and removed.
DeliverError(v) ==
  /\ mainVersion' = v
  /\ callback' = IF HaveCallbacks THEN "removed" ELSE callback
  /\ UNCHANGED <<known, notifier>>

AdvanceSilently(v) ==
  /\ mainVersion' = v
  /\ UNCHANGED <<told, notifier>>

\* Wrong: waiting for the first run only, and waiting for a later version.
NotifierHasRun(v) == ~ HaveCallbacks \/ (hasRun /\ v \in Nat)
NotifierIsPast(v) == ~ HaveCallbacks \/ (hasRun /\ version > v)

NotifierIsAt(v) == ~ HaveCallbacks \/ (hasRun /\ version >= v)

\* promote_to_write: the error and the notifiers are copied into a package, and
\* the mutex is released before the write lock is waited for.
PromoteToWrite ==
  /\ mainPc = "idle"
  /\ latest < MaxVersion
  /\ mainPc' = "promote"
  /\ packageError' = error
  /\ UNCHANGED <<transaction, mainVersion, backgroundPc, told, notifier, skipVersion,
                 worker, error, woken, signalled>>

\* transaction::begin: the write lock is taken; without a notifier, or with the
\* error of the package, there is nothing to wait for.  With a notifier that has
\* not reached the version to be read, the worker is woken and awaited.
BeginWrite ==
  /\ mainPc = "promote"
  /\ writer = "none"
  /\ writer' = "main"
  /\ packageError' = FALSE
  /\ IF registered = "none" \/ packageError
       THEN /\ mainPc' = "write"
            /\ IF packageError THEN DeliverError(latest) ELSE AdvanceSilently(latest)
            /\ UNCHANGED woken
       ELSE /\ mainPc' = "begin"
            /\ woken' = (woken \/ ~ NotifierIsAt(latest))
            /\ UNCHANGED <<mainVersion, told, notifier>>
  /\ UNCHANGED <<latest, touching, backgroundPc, skipVersion, worker, error, signalled>>

\* The wait is over: the callback runs inside the write transaction.
BeginWriteReturns ==
  /\ mainPc = "begin"
  /\ NotifierIsAt(latest)
  /\ mainPc' = "write"
  /\ IF hasRun THEN DeliverAt(latest) ELSE AdvanceSilently(latest)
  /\ UNCHANGED <<transaction, packageError, backgroundPc, skipVersion, worker, error,
                 woken, signalled>>

NewVersion ==
  /\ latest' = latest + 1
  /\ \/ touching' = touching \union {latest + 1}
     \/ UNCHANGED touching
  /\ writer' = "none"

\* commit_write: the commit and the skip version are one section.
CommitWrite ==
  /\ mainPc = "write"
  /\ latest < MaxVersion
  /\ NewVersion
  /\ mainVersion' = latest + 1
  /\ skipVersion' = IF registered = "old" THEN latest + 1 ELSE skipVersion
  /\ mainPc' = "committed"
  /\ UNCHANGED <<packageError, backgroundPc, told, notifier, worker, error, woken,
                 signalled>>

NotifyOthers ==
  /\ mainPc = "committed"
  /\ mainPc' = "idle"
  /\ woken' = TRUE
  /\ UNCHANGED <<transaction, packageError, mainVersion, backgroundPc, told, notifier,
                 skipVersion, worker, error, signalled>>

CancelWrite ==
  /\ mainPc = "write"
  /\ mainPc' = "idle"
  /\ writer' = "none"
  /\ UNCHANGED <<latest, touching, packageError, mainVersion, backgroundPc, told,
                 notifier, skipVersion, worker, error, woken, signalled>>

\* process_available_async: already at the latest version.
ProcessAvailableAsync ==
  IF registered = "none" THEN AdvanceSilently(mainVersion)
  ELSE IF error THEN DeliverError(mainVersion)
  ELSE IF hasRun /\ version = mainVersion THEN DeliverAt(mainVersion)
  ELSE AdvanceSilently(mainVersion)

\* A wrong AdvanceToReady: it reads the latest version, whatever is ready.
AdvanceToLatest ==
  IF registered # "none" /\ error THEN DeliverError(latest)
  ELSE AdvanceSilently(latest)

\* advance_to_ready: to the version the notifier has reached, without waiting.
\* Without a notifier that has run, to the latest; a package older than the
\* version read is dropped.
AdvanceToReady ==
  IF registered # "none" /\ error THEN DeliverError(latest)
  ELSE IF registered = "none" \/ ~ hasRun THEN AdvanceSilently(latest)
  ELSE IF version < mainVersion
    THEN /\ accumulated' = {}
         /\ UNCHANGED <<mainVersion, told, registered, hasRun, version>>
  ELSE DeliverAt(version)

\* The run loop calls Realm::notify.
Notify ==
  /\ mainPc = "idle"
  /\ signalled
  /\ signalled' = FALSE
  /\ IF mainVersion = latest THEN ProcessAvailableAsync ELSE AdvanceToReady
  /\ UNCHANGED <<transaction, promotion, backgroundPc, skipVersion, worker, error, woken>>

(***************************************************************************)
(* The background thread: its Realm has no notifier.                        *)
(***************************************************************************)

BackgroundBegin ==
  /\ backgroundPc = "idle"
  /\ writer = "none"
  /\ latest < MaxVersion
  /\ backgroundPc' = "write"
  /\ writer' = "background"
  /\ UNCHANGED <<latest, touching, promotion, mainVersion, told, notifier,
                 skipVersion, worker, error, woken, signalled>>

BackgroundCommit ==
  /\ backgroundPc = "write"
  /\ NewVersion
  /\ backgroundPc' = "committed"
  /\ UNCHANGED <<promotion, mainVersion, told, notifier, skipVersion, worker, error,
                 woken, signalled>>

\* A wrong BackgroundNotify: the worker is not woken.
BackgroundNotifySilent ==
  /\ backgroundPc = "committed"
  /\ backgroundPc' = "idle"
  /\ UNCHANGED <<transaction, promotion, mainVersion, told, notifier, skipVersion,
                 worker, error, woken, signalled>>

BackgroundNotify ==
  /\ backgroundPc = "committed"
  /\ backgroundPc' = "idle"
  /\ woken' = TRUE
  /\ UNCHANGED <<transaction, promotion, mainVersion, told, notifier, skipVersion,
                 worker, error, signalled>>

(***************************************************************************)
(* The worker: on_change, run_async_notifiers.                              *)
(***************************************************************************)

\* The first section: nothing to run.
NothingToRun ==
  /\ registered = "none" \/ error
  /\ workerPc' = "signal"
  /\ UNCHANGED <<target, skip, opened, skipVersion, error>>

\* A wrong OpenFails: it leaves without signalling the run loop.
OpenFailsSilently ==
  /\ registered # "none" /\ ~ error
  /\ ~ opened
  /\ error' = TRUE
  /\ workerPc' = "idle"
  /\ UNCHANGED <<target, skip, opened, skipVersion>>

\* The helper Realm cannot be opened.
OpenFails ==
  /\ registered # "none" /\ ~ error
  /\ ~ opened
  /\ error' = TRUE
  /\ workerPc' = "signal"
  /\ UNCHANGED <<target, skip, opened, skipVersion>>

\* A wrong PickVersion: the next pass takes the same skip version again.
PickVersionKeepingSkip ==
  /\ registered # "none" /\ ~ error
  /\ opened' = TRUE
  /\ target' = latest
  /\ skip' = skipVersion
  /\ workerPc' = IF skipVersion = 0 THEN "run" ELSE "skip"
  /\ UNCHANGED <<skipVersion, error>>

\* The pass goes to the latest version, first to the skip version if there is one.
PickVersion ==
  /\ registered # "none" /\ ~ error
  /\ opened' = TRUE
  /\ target' = latest
  /\ skip' = skipVersion
  /\ skipVersion' = 0
  /\ workerPc' = IF skipVersion = 0 THEN "run" ELSE "skip"
  /\ UNCHANGED error

OnChange ==
  /\ workerPc = "idle"
  /\ woken
  /\ woken' = FALSE
  /\ registered' = IF registered = "none" THEN "none" ELSE "old"
  /\ NothingToRun \/ OpenFails \/ PickVersion
  /\ UNCHANGED <<transaction, promotion, mainVersion, backgroundPc, told, hasRun,
                 version, accumulated, signalled>>

\* A wrong HandOver: what waits for the callback is replaced.
HandOverReplacing(v) ==
  /\ accumulated' = IF hasRun /\ HaveCallbacks THEN Between(version, v) ELSE accumulated
  /\ version' = v
  /\ hasRun' = TRUE
  /\ UNCHANGED registered

\* A wrong HandOver: a version that does not touch the collection is reported.
HandOverEverything(v) ==
  /\ accumulated' = IF hasRun /\ HaveCallbacks
                      THEN accumulated \union (version + 1 .. v)
                      ELSE accumulated
  /\ version' = v
  /\ hasRun' = TRUE
  /\ UNCHANGED registered

\* run and prepare_handover: what changed since the version of the last handover
\* is merged into what waits for the callback; the first run only records rows.
HandOver(v) ==
  /\ accumulated' = IF hasRun /\ HaveCallbacks
                      THEN accumulated \union Between(version, v)
                      ELSE accumulated
  /\ version' = v
  /\ hasRun' = TRUE
  /\ UNCHANGED registered

RunToSkipVersion ==
  /\ workerPc = "skip"
  /\ HandOver(skip)
  /\ workerPc' = "run"
  /\ UNCHANGED <<transaction, promotion, mainVersion, backgroundPc, told, skipVersion,
                 target, skip, opened, error, woken, signalled>>

RunToTarget ==
  /\ workerPc = "run"
  /\ HandOver(target)
  /\ workerPc' = "signal"
  /\ UNCHANGED <<transaction, promotion, mainVersion, backgroundPc, told, skipVersion,
                 target, skip, opened, error, woken, signalled>>

Signal ==
  /\ workerPc = "signal"
  /\ workerPc' = "idle"
  /\ signalled' = TRUE
  /\ UNCHANGED <<transaction, promotion, mainVersion, backgroundPc, told, notifier,
                 skipVersion, target, skip, opened, error, woken>>

MainThread ==
  \/ Register \/ PromoteToWrite \/ BeginWrite \/ BeginWriteReturns \/ CommitWrite
  \/ NotifyOthers \/ CancelWrite \/ Notify

BackgroundThread == BackgroundBegin \/ BackgroundCommit \/ BackgroundNotify

WorkerThread == OnChange \/ RunToSkipVersion \/ RunToTarget \/ Signal

Next == MainThread \/ BackgroundThread \/ WorkerThread

\* Threads run; the write lock is obtained once it stays free; a transaction that
\* was begun is finished; the run loop comes back to its sources.  Nobody has to
\* write.
Fairness ==
  /\ WF_vars(BeginWrite)
  /\ WF_vars(BeginWriteReturns)
  /\ WF_vars(CommitWrite \/ CancelWrite)
  /\ WF_vars(NotifyOthers)
  /\ WF_vars(Notify)
  /\ WF_vars(BackgroundCommit)
  /\ WF_vars(BackgroundNotify)
  /\ WF_vars(WorkerThread)

Spec == Init /\ [][Next]_vars
FairSpec == Spec /\ Fairness

(***************************************************************************)
(* Properties.                                                              *)
(***************************************************************************)

\* Whatever the interleaving, a delivery tells the callback exactly the changes
\* between its last call and the version the main thread then reads: none lost
\* in a discarded package, by a second run or by a write of its own, and a
\* transaction of the main thread starts with all of them told.
Feed == INSTANCE ChangeFeed
ImplementsFeed == Feed!Spec

\* No change is told twice (a table view would insert a row twice).
NoChangeTwice == callback = "called" => accumulated \intersect known = {}

\* advance_to_ready drops a package older than the version being read: it never
\* holds a change.
OutdatedPackageIsEmpty == hasRun /\ version < mainVersion => accumulated = {}

\* What waits for the callback leads from what it knows to the version of the
\* notifier, with no gap, also while the main thread is ahead or behind.
HandoverIsContiguous ==
  callback = "called" => known \union accumulated = {u \in touching : u <= version}

\* The handovers of the worker never go back to an older version, with or
\* without a skipped one (the assertion version >= skip_version).
HandoverNeverGoesBack ==
  [][registered # "none" => version' >= version]_vars

\* Every change is told to the callback in the end, unless the helper Realm
\* could not be opened.
EveryChangeIsTold ==
  \A v \in 1 .. MaxVersion :
    v \in touching /\ callback # "none" ~> v \in known \/ error

\* beginWrite on the main thread waits for the write lock, then for the worker
\* while it holds the lock: it gets through, unless the helper Realm could not be
\* opened.
BeginWriteEnds == mainPc \in {"promote", "begin"} ~> mainPc = "write" \/ error

\* A failure to open the helper Realm is told to the callback, by the run loop or
\* by the next transaction.  The only way it is not: the main thread made its
\* package before the failure and now waits for a notifier that will never run.
ErrorIsTold == error ~> callback = "removed" \/ mainPc = "begin"

\* "If an error occurs, notification blocks are called one time with a `.error`
\* result" (RealmCollection.swift).
ErrorReachesTheBlock == error ~> callback = "removed"
=============================================================================
