------------------------ MODULE RealmNotifierProofs ------------------------
(***************************************************************************)
(* Theorems about RealmNotifier, for any number of commits: its inductive   *)
(* invariant NotifierInv, the safety properties that follow from it, and    *)
(* the refinement of ChangeFeed.                                            *)
(***************************************************************************)
EXTENDS RealmNotifier, TLAPS

\* The write lock and the threads' places agree.
LockInv ==
  /\ writer = "main" <=> mainPc \in {"begin", "write"}
  /\ writer = "background" <=> backgroundPc = "write"

\* How far the registration, the runs and the errors of the notifier go together.
StageInv ==
  /\ registered = "none" <=> callback = "none"
  /\ registered = "none" => ~ error
  /\ registered # "old" => ~ hasRun
  /\ hasRun => callback \in {"first", "called"} /\ ~ error
  /\ callback = "called" => hasRun
  /\ callback = "removed" => error
  /\ hasRun \/ workerPc \in {"skip", "run"} => opened
  /\ workerPc \in {"skip", "run"} => registered = "old" /\ ~ error
  /\ mainPc = "begin" => registered # "none"
  /\ packageError => error

\* What a transaction of the main thread has made true when it may write.
WriteInv ==
  mainPc = "write" =>
    /\ mainVersion = latest
    /\ callback # "first"
    /\ callback = "called" => version = latest /\ accumulated = {}

\* What waits for the callback.
PendingInv ==
  /\ ~ hasRun => accumulated = {}
  /\ callback = "none" => known = {}
  /\ callback = "called" => known \union accumulated = {u \in touching : u <= version}
  /\ callback = "called" => accumulated \intersect known = {}
  /\ \A u \in accumulated : u <= version
  /\ hasRun /\ version < mainVersion => accumulated = {}

\* Where the worker goes.
PassInv ==
  /\ workerPc = "skip" => hasRun /\ version < skip /\ skip <= target /\ mainVersion = skip
  /\ workerPc = "run" => version <= target
  /\ workerPc = "run" /\ hasRun /\ target < mainVersion => target = version
  /\ skipVersion # 0 /\ ~ error => hasRun /\ version < skipVersion /\ mainVersion = skipVersion
  /\ skipVersion # 0 /\ workerPc \in {"skip", "run"} => target < skipVersion

NotifierInv == TypeOK /\ LockInv /\ StageInv /\ WriteInv /\ PendingInv /\ PassInv

\* The invariant holds before anything is registered.
LEMMA InitNotifierInv == Init => NotifierInv
<1> SUFFICES ASSUME Init PROVE NotifierInv
  OBVIOUS
<1>1. TypeOK
  <2>1. FlagsOK
    BY Zenon DEF Init, FlagsOK
  <2> QED
    BY <2>1 DEF Init, TypeOK
<1>2. LockInv /\ StageInv /\ WriteInv
  BY DEF Init, LockInv, StageInv, WriteInv
<1>3. PendingInv
  BY DEF Init, PendingInv
<1>4. PassInv
  BY DEF Init, PassInv
<1> QED
  BY <1>1, <1>2, <1>3, <1>4 DEF NotifierInv

\* A delivery of the package of version v, the notifier's, empties it and tells
\* all that leads to v.
LEMMA DeliverAtPending ==
  ASSUME NotifierInv, hasRun, NEW v, v = version, DeliverAt(v), UNCHANGED touching
  PROVE  PendingInv'
<1>1. /\ version \in Nat /\ callback \in {"first", "called"}
      /\ accumulated' = {} /\ callback' = "called"
      /\ version' = version /\ hasRun' = hasRun
  BY DEF NotifierInv, TypeOK, StageInv, DeliverAt
<1>2. known' = {u \in touching : u <= version}
  <2>1. CASE callback = "first"
    BY <2>1 DEF DeliverAt
  <2>2. CASE callback = "called"
    BY <2>2 DEF DeliverAt, NotifierInv, PendingInv
  <2> QED
    BY <1>1, <2>1, <2>2
<1> QED
  BY <1>1, <1>2 DEF PendingInv

\* A run to a version that is not older merges exactly what came since, and
\* nothing when the main thread is ahead.
LEMMA HandOverPending ==
  ASSUME NotifierInv, NEW v \in 0 .. latest, HandOver(v),
         callback \in {"first", "called"},
         hasRun => version <= v,
         hasRun /\ v < mainVersion => v = version,
         UNCHANGED <<latest, touching, mainPc, mainVersion, callback, known>>
  PROVE  PendingInv' /\ WriteInv'
<1> USE DEF NotifierInv, TypeOK
<1>1. CASE ~ hasRun
  BY <1>1 DEF HandOver, PendingInv, WriteInv, StageInv
<1>2. CASE hasRun
  <2>1. accumulated' = accumulated \union Between(version, v) /\ version' = v /\ hasRun'
    BY <1>2 DEF HandOver, HaveCallbacks
  <2>2. \A u \in Between(version, v) : u \in touching /\ version < u /\ u <= v
    BY DEF Between
  <2>3. version <= v /\ version \in Nat /\ v \in Nat /\ latest \in Nat /\ touching \subseteq Nat
    BY <1>2
  <2>4. callback = "called" => known' \union accumulated' = {u \in touching' : u <= version'}
    <3> SUFFICES ASSUME callback = "called"
                 PROVE  known \union accumulated' = {u \in touching : u <= v}
      BY <2>1
    <3>1. known \union accumulated = {u \in touching : u <= version}
      BY DEF PendingInv
    <3>2. {u \in touching : u <= v} = {u \in touching : u <= version} \union Between(version, v)
      <4>1. \A u \in touching : u <= v <=> u <= version \/ (version < u /\ u <= v)
        BY <2>3
      <4> QED
        BY <4>1, Zenon DEF Between
    <3> QED
      BY <2>1, <3>1, <3>2
  <2>5. callback = "called" => accumulated' \intersect known' = {}
    <3> SUFFICES ASSUME callback = "called", NEW u \in known, u \in accumulated'
                 PROVE  FALSE
      OBVIOUS
    <3>1. u \in touching /\ u <= version
      BY DEF PendingInv
    <3>2. u \notin Between(version, v)
      BY <2>2, <3>1
    <3> QED
      BY <2>1, <3>2 DEF PendingInv
  <2>6. \A u \in accumulated' : u <= version'
    BY <2>1, <2>2, <2>3 DEF PendingInv
  <2>7. version = v => accumulated' = accumulated
    <3>1. version = v => \A u \in Between(version, v) : FALSE
      <4> SUFFICES ASSUME version = v, NEW u \in Between(version, v) PROVE FALSE
        OBVIOUS
      <4>1. u \in Nat
        BY <2>2, <2>3
      <4> QED
        BY <2>2, <2>3, <4>1
    <3> QED
      BY <2>1, <3>1
  <2>8. hasRun' /\ version' < mainVersion' => accumulated' = {}
    BY <1>2, <2>1, <2>7 DEF PendingInv
  <2>9. WriteInv'
    <3> SUFFICES ASSUME mainPc = "write", callback = "called"
                 PROVE  version' = latest /\ accumulated' = {}
      BY DEF WriteInv
    <3>1. version = latest /\ accumulated = {}
      BY DEF WriteInv
    <3>2. v = version
      BY <2>3, <3>1
    <3> QED
      BY <2>1, <2>7, <3>1, <3>2
  <2> QED
    BY <2>1, <2>4, <2>5, <2>6, <2>8, <2>9 DEF PendingInv, StageInv
<1> QED
  BY <1>1, <1>2

\* Registration: the notifier starts at the main thread's version, with nothing run.
LEMMA RegisterInv == NotifierInv /\ Register => NotifierInv'
<1> SUFFICES ASSUME NotifierInv, Register PROVE NotifierInv'
  OBVIOUS
<1> USE DEF NotifierInv, Register, transaction, promotion, notifier, worker, told
<1>1. TypeOK'
  <2>1. FlagsOK'
    BY Zenon DEF TypeOK, FlagsOK
  <2> QED
    BY <2>1 DEF TypeOK
<1>2. LockInv'
  BY DEF LockInv
<1>3. StageInv'
  BY DEF StageInv
<1>4. WriteInv'
  BY DEF WriteInv
<1>5. PendingInv'
  BY DEF StageInv, PendingInv
<1>6. PassInv'
  BY DEF StageInv, PassInv
<1> QED
  BY <1>1, <1>2, <1>3, <1>4, <1>5, <1>6

\* Making the package of a transaction copies the error.
LEMMA PromoteToWriteInv == NotifierInv /\ PromoteToWrite => NotifierInv'
<1> SUFFICES ASSUME NotifierInv, PromoteToWrite PROVE NotifierInv'
  OBVIOUS
<1> USE DEF NotifierInv, PromoteToWrite, transaction, notifier, worker, told
<1>1. TypeOK'
  <2>1. FlagsOK'
    BY Zenon DEF TypeOK, FlagsOK
  <2> QED
    BY <2>1 DEF TypeOK
<1>2. LockInv'
  BY DEF LockInv
<1>3. StageInv'
  BY DEF StageInv
<1>4. WriteInv'
  BY DEF WriteInv
<1>5. PendingInv'
  BY DEF PendingInv
<1>6. PassInv'
  BY DEF PassInv
<1> QED
  BY <1>1, <1>2, <1>3, <1>4, <1>5, <1>6

\* Taking the write lock: at once, telling an error, or waiting for the notifier.
LEMMA BeginWriteInv == NotifierInv /\ BeginWrite => NotifierInv'
<1> SUFFICES ASSUME NotifierInv, BeginWrite PROVE NotifierInv'
  OBVIOUS
<1> USE DEF NotifierInv, BeginWrite, DeliverError, AdvanceSilently, NotifierIsAt,
            HaveCallbacks, transaction, promotion, notifier, worker, told
<1>1. TypeOK'
  <2>1. FlagsOK'
    BY Zenon DEF TypeOK, FlagsOK
  <2>2. mainVersion' \in 0 .. latest
    BY DEF TypeOK
  <2>3. callback' \in {callback, "removed"} /\ mainPc' \in {"begin", "write"}
    BY DEF TypeOK
  <2>4. UNCHANGED <<known, notifier>>
    BY Zenon
  <2> QED
    BY <2>1, <2>2, <2>3, <2>4 DEF TypeOK
<1>2. LockInv'
  BY DEF LockInv
<1>3. StageInv'
  BY DEF StageInv
<1>4. WriteInv'
  BY DEF StageInv, WriteInv
<1>5. PendingInv'
  BY DEF StageInv, PendingInv
<1>6. PassInv'
  BY DEF StageInv, PassInv
<1> QED
  BY <1>1, <1>2, <1>3, <1>4, <1>5, <1>6

\* The notifier is at the latest version: everything is told before writing starts.
LEMMA BeginWriteReturnsInv == NotifierInv /\ BeginWriteReturns => NotifierInv'
<1> SUFFICES ASSUME NotifierInv, BeginWriteReturns PROVE NotifierInv'
  OBVIOUS
<1> USE DEF NotifierInv, BeginWriteReturns, NotifierIsAt, HaveCallbacks, DeliverAt,
            AdvanceSilently, transaction, promotion, notifier, worker, told
<1>1. TypeOK'
  <2>1. FlagsOK'
    BY Zenon DEF TypeOK, FlagsOK
  <2>2. known' \subseteq touching /\ accumulated' \subseteq touching
    BY DEF TypeOK
  <2>3. mainVersion' = latest /\ callback' \in {callback, "called"}
    BY DEF TypeOK
  <2> QED
    BY <2>1, <2>2, <2>3 DEF TypeOK
<1>2. LockInv'
  BY DEF LockInv
<1>3. StageInv'
  BY DEF StageInv
<1>4. WriteInv'
  BY DEF TypeOK, WriteInv
<1>5. PendingInv'
  <2>1. CASE hasRun
    <3>1. version = latest
      BY <2>1 DEF TypeOK, StageInv
    <3>2. DeliverAt(latest) /\ UNCHANGED touching
      BY <2>1
    <3> QED
      BY <2>1, <3>1, <3>2, DeliverAtPending
  <2>2. CASE ~ hasRun
    BY <2>2 DEF PendingInv, StageInv
  <2> QED
    BY <2>1, <2>2
<1>6. PassInv'
  BY DEF TypeOK, StageInv, PassInv
<1> QED
  BY <1>1, <1>2, <1>3, <1>4, <1>5, <1>6

\* A commit of the main thread: the notifier is one version behind, with nothing waiting.
LEMMA CommitWriteInv == NotifierInv /\ CommitWrite => NotifierInv'
<1> SUFFICES ASSUME NotifierInv, CommitWrite PROVE NotifierInv'
  OBVIOUS
<1> USE DEF NotifierInv, CommitWrite, NewVersion, transaction, promotion, notifier, worker, told
<1>1. TypeOK'
  <2>1. FlagsOK'
    BY Zenon DEF TypeOK, FlagsOK
  <2>2. latest' \in Nat /\ latest' = latest + 1 /\ touching \subseteq touching'
    BY DEF TypeOK
  <2>3. touching' \subseteq touching \union {latest'}
    BY DEF TypeOK
  <2>4. touching' \subseteq 1 .. latest'
    BY <2>2, <2>3 DEF TypeOK
  <2> QED
    BY <2>1, <2>2, <2>4 DEF TypeOK
<1>2. LockInv'
  BY DEF LockInv
<1>3. StageInv'
  BY DEF StageInv
<1>4. WriteInv'
  BY DEF WriteInv
<1>5. PendingInv'
  BY DEF TypeOK, StageInv, WriteInv, PendingInv
<1>6. PassInv'
  BY DEF TypeOK, StageInv, WriteInv, PassInv
<1> QED
  BY <1>1, <1>2, <1>3, <1>4, <1>5, <1>6

\* Waking the worker after a commit of the main thread.
LEMMA NotifyOthersInv == NotifierInv /\ NotifyOthers => NotifierInv'
<1> SUFFICES ASSUME NotifierInv, NotifyOthers PROVE NotifierInv'
  OBVIOUS
<1> USE DEF NotifierInv, NotifyOthers, transaction, promotion, notifier, worker, told
<1>1. TypeOK'
  <2>1. FlagsOK'
    BY Zenon DEF TypeOK, FlagsOK
  <2> QED
    BY <2>1 DEF TypeOK
<1>2. LockInv'
  BY DEF LockInv
<1>3. StageInv'
  BY DEF StageInv
<1>4. WriteInv'
  BY DEF WriteInv
<1>5. PendingInv'
  BY DEF PendingInv
<1>6. PassInv'
  BY DEF PassInv
<1> QED
  BY <1>1, <1>2, <1>3, <1>4, <1>5, <1>6

\* A cancelled transaction gives the lock back.
LEMMA CancelWriteInv == NotifierInv /\ CancelWrite => NotifierInv'
<1> SUFFICES ASSUME NotifierInv, CancelWrite PROVE NotifierInv'
  OBVIOUS
<1> USE DEF NotifierInv, CancelWrite, transaction, promotion, notifier, worker, told
<1>1. TypeOK'
  <2>1. FlagsOK'
    BY Zenon DEF TypeOK, FlagsOK
  <2> QED
    BY <2>1 DEF TypeOK
<1>2. LockInv'
  BY DEF LockInv
<1>3. StageInv'
  BY DEF StageInv
<1>4. WriteInv'
  BY DEF WriteInv
<1>5. PendingInv'
  BY DEF PendingInv
<1>6. PassInv'
  BY DEF PassInv
<1> QED
  BY <1>1, <1>2, <1>3, <1>4, <1>5, <1>6

\* The run loop: a delivery, an error, a dropped package or a silent advance.
LEMMA NotifyInv == NotifierInv /\ Notify => NotifierInv'
<1> SUFFICES ASSUME NotifierInv, Notify PROVE NotifierInv'
  OBVIOUS
<1> USE DEF NotifierInv, Notify, ProcessAvailableAsync, AdvanceToReady, DeliverAt,
            DeliverError, AdvanceSilently, HaveCallbacks, transaction, promotion,
            notifier, worker, told
<1>1. TypeOK'
  <2>1. FlagsOK'
    BY Zenon DEF TypeOK, FlagsOK
  <2>2. known' \subseteq touching /\ accumulated' \subseteq touching
    BY DEF TypeOK
  <2>3. mainVersion' \in 0 .. latest
    BY DEF TypeOK
  <2>4. callback' \in {callback, "called", "removed"} /\ UNCHANGED version
    BY DEF TypeOK
  <2> QED
    BY <2>1, <2>2, <2>3, <2>4 DEF TypeOK
<1>2. LockInv'
  BY DEF LockInv
<1>3. StageInv'
  BY DEF StageInv
<1>4. WriteInv'
  BY DEF WriteInv
<1>5. PendingInv'
  <2>1. CASE hasRun /\ mainVersion = latest /\ version = mainVersion
    BY <2>1, DeliverAtPending DEF StageInv
  <2>2. CASE hasRun /\ mainVersion # latest /\ ~ (version < mainVersion)
    BY <2>2, DeliverAtPending DEF StageInv
  <2>3. CASE hasRun /\ mainVersion # latest /\ version < mainVersion
    BY <2>3 DEF StageInv, PendingInv
  <2>4. CASE hasRun /\ mainVersion = latest /\ version # mainVersion
    BY <2>4 DEF StageInv, PendingInv
  <2>5. CASE ~ hasRun
    <3>1. /\ UNCHANGED <<known, accumulated, hasRun, version, touching>>
          /\ callback' \in {callback, "removed"}
      BY <2>5
    <3> QED
      BY <2>5, <3>1 DEF StageInv, PendingInv
  <2> QED
    BY <2>1, <2>2, <2>3, <2>4, <2>5
<1>6. PassInv'
  BY DEF TypeOK, StageInv, PassInv
<1> QED
  BY <1>1, <1>2, <1>3, <1>4, <1>5, <1>6

\* The background thread takes the lock.
LEMMA BackgroundBeginInv == NotifierInv /\ BackgroundBegin => NotifierInv'
<1> SUFFICES ASSUME NotifierInv, BackgroundBegin PROVE NotifierInv'
  OBVIOUS
<1> USE DEF NotifierInv, BackgroundBegin, transaction, promotion, notifier, worker, told
<1>1. TypeOK'
  <2>1. FlagsOK'
    BY Zenon DEF TypeOK, FlagsOK
  <2> QED
    BY <2>1 DEF TypeOK
<1>2. LockInv'
  BY DEF LockInv
<1>3. StageInv'
  BY DEF StageInv
<1>4. WriteInv'
  BY DEF WriteInv
<1>5. PendingInv'
  BY DEF PendingInv
<1>6. PassInv'
  BY DEF PassInv
<1> QED
  BY <1>1, <1>2, <1>3, <1>4, <1>5, <1>6

\* A commit of the background thread moves nothing but the latest version.
LEMMA BackgroundCommitInv == NotifierInv /\ BackgroundCommit => NotifierInv'
<1> SUFFICES ASSUME NotifierInv, BackgroundCommit PROVE NotifierInv'
  OBVIOUS
<1> USE DEF NotifierInv, BackgroundCommit, NewVersion, transaction, promotion, notifier, worker, told
<1>1. TypeOK'
  <2>1. FlagsOK'
    BY Zenon DEF TypeOK, FlagsOK
  <2>2. latest' \in Nat /\ latest' = latest + 1 /\ touching \subseteq touching'
    BY DEF TypeOK
  <2>3. touching' \subseteq touching \union {latest'}
    BY DEF TypeOK
  <2>4. touching' \subseteq 1 .. latest'
    BY <2>2, <2>3 DEF TypeOK
  <2> QED
    BY <2>1, <2>2, <2>4 DEF TypeOK
<1>2. LockInv'
  BY DEF LockInv
<1>3. StageInv'
  BY DEF StageInv
<1>4. WriteInv'
  BY DEF TypeOK, LockInv, WriteInv
<1>5. PendingInv'
  BY DEF TypeOK, PendingInv
<1>6. PassInv'
  BY DEF PassInv
<1> QED
  BY <1>1, <1>2, <1>3, <1>4, <1>5, <1>6

\* Waking the worker after a commit of the background thread.
LEMMA BackgroundNotifyInv == NotifierInv /\ BackgroundNotify => NotifierInv'
<1> SUFFICES ASSUME NotifierInv, BackgroundNotify PROVE NotifierInv'
  OBVIOUS
<1> USE DEF NotifierInv, BackgroundNotify, transaction, promotion, notifier, worker, told
<1>1. TypeOK'
  <2>1. FlagsOK'
    BY Zenon DEF TypeOK, FlagsOK
  <2> QED
    BY <2>1 DEF TypeOK
<1>2. LockInv'
  BY DEF LockInv
<1>3. StageInv'
  BY DEF StageInv
<1>4. WriteInv'
  BY DEF WriteInv
<1>5. PendingInv'
  BY DEF PendingInv
<1>6. PassInv'
  BY DEF PassInv
<1> QED
  BY <1>1, <1>2, <1>3, <1>4, <1>5, <1>6

\* The worker picks its versions; the helper fails to open only before the first run.
LEMMA OnChangeInv == NotifierInv /\ OnChange => NotifierInv'
<1> SUFFICES ASSUME NotifierInv, OnChange PROVE NotifierInv'
  OBVIOUS
<1> USE DEF NotifierInv, OnChange, NothingToRun, OpenFails, PickVersion, transaction,
            promotion, notifier, worker, told
<1>1. TypeOK'
  <2>1. FlagsOK'
    BY Zenon DEF TypeOK, FlagsOK
  <2> QED
    BY <2>1 DEF TypeOK
<1>2. LockInv'
  BY DEF LockInv
<1>3. StageInv'
  <2>1. CASE NothingToRun
    BY <2>1 DEF TypeOK, StageInv, PassInv
  <2>2. CASE OpenFails
    BY <2>2 DEF TypeOK, StageInv, PassInv
  <2>3. CASE PickVersion
    BY <2>3 DEF TypeOK, StageInv, PassInv
  <2> QED
    BY <2>1, <2>2, <2>3
<1>4. WriteInv'
  BY DEF WriteInv
<1>5. PendingInv'
  BY DEF PendingInv
<1>6. PassInv'
  BY DEF TypeOK, PassInv
<1> QED
  BY <1>1, <1>2, <1>3, <1>4, <1>5, <1>6

\* The run to the version the main thread itself wrote.
LEMMA RunToSkipVersionInv == NotifierInv /\ RunToSkipVersion => NotifierInv'
<1> SUFFICES ASSUME NotifierInv, RunToSkipVersion PROVE NotifierInv'
  OBVIOUS
<1> USE DEF NotifierInv, RunToSkipVersion, HandOver, Between, HaveCallbacks, transaction,
            promotion, notifier, worker, told
<1>1. TypeOK'
  <2>1. FlagsOK'
    BY Zenon DEF TypeOK, FlagsOK
  <2> QED
    BY <2>1 DEF TypeOK
<1>2. LockInv'
  BY DEF LockInv
<1>3. StageInv'
  BY DEF TypeOK, StageInv
<1>4. WriteInv'
  BY HandOverPending DEF TypeOK, StageInv, PassInv
<1>5. PendingInv'
  BY HandOverPending DEF TypeOK, StageInv, PassInv
<1>6. PassInv'
  BY DEF TypeOK, PassInv
<1> QED
  BY <1>1, <1>2, <1>3, <1>4, <1>5, <1>6

\* The run to the version picked.
LEMMA RunToTargetInv == NotifierInv /\ RunToTarget => NotifierInv'
<1> SUFFICES ASSUME NotifierInv, RunToTarget PROVE NotifierInv'
  OBVIOUS
<1> USE DEF NotifierInv, RunToTarget, HandOver, Between, HaveCallbacks, transaction,
            promotion, notifier, worker, told
<1>1. TypeOK'
  <2>1. FlagsOK'
    BY Zenon DEF TypeOK, FlagsOK
  <2> QED
    BY <2>1 DEF TypeOK
<1>2. LockInv'
  BY DEF LockInv
<1>3. StageInv'
  BY DEF TypeOK, StageInv
<1>4. WriteInv'
  BY HandOverPending DEF TypeOK, StageInv, PassInv
<1>5. PendingInv'
  BY HandOverPending DEF TypeOK, StageInv, PassInv
<1>6. PassInv'
  BY DEF PassInv
<1> QED
  BY <1>1, <1>2, <1>3, <1>4, <1>5, <1>6

\* Signalling the run loop.
LEMMA SignalInv == NotifierInv /\ Signal => NotifierInv'
<1> SUFFICES ASSUME NotifierInv, Signal PROVE NotifierInv'
  OBVIOUS
<1> USE DEF NotifierInv, Signal, transaction, promotion, notifier, worker, told
<1>1. TypeOK'
  <2>1. FlagsOK'
    BY Zenon DEF TypeOK, FlagsOK
  <2> QED
    BY <2>1 DEF TypeOK
<1>2. LockInv'
  BY DEF LockInv
<1>3. StageInv'
  BY DEF StageInv
<1>4. WriteInv'
  BY DEF WriteInv
<1>5. PendingInv'
  BY DEF PendingInv
<1>6. PassInv'
  BY DEF PassInv
<1> QED
  BY <1>1, <1>2, <1>3, <1>4, <1>5, <1>6
\* A stuttering step.
LEMMA StutterNotifierInv == NotifierInv /\ UNCHANGED vars => NotifierInv'
BY DEF vars, NotifierInv, TypeOK, FlagsOK, LockInv, StageInv, WriteInv, PendingInv,
       PassInv, HaveCallbacks

\* Every step of any thread keeps the invariant.
LEMMA StepNotifierInv == NotifierInv /\ [Next]_vars => NotifierInv'
BY RegisterInv, PromoteToWriteInv, BeginWriteInv, BeginWriteReturnsInv, CommitWriteInv,
   NotifyOthersInv, CancelWriteInv, NotifyInv, BackgroundBeginInv, BackgroundCommitInv,
   BackgroundNotifyInv, OnChangeInv, RunToSkipVersionInv, RunToTargetInv, SignalInv,
   StutterNotifierInv DEF Next, MainThread, BackgroundThread, WorkerThread

\* The inductive invariant of coordinator, worker, notifier and main thread.
THEOREM NotifierInvariant == Spec => []NotifierInv
BY InitNotifierInv, StepNotifierInv, PTL DEF Spec

(***************************************************************************)
(* The properties.                                                          *)
(***************************************************************************)

\* The variables of the notifier and its threads keep their types, for any
\* number of commits.
THEOREM NotifierTypeCorrect == Spec => []TypeOK
<1>1. NotifierInv => TypeOK
  BY DEF NotifierInv
<1> QED
  BY <1>1, NotifierInvariant, PTL

\* A change that waits for the callback has not been told before: add_changes
\* and package_for_delivery never report one twice.
THEOREM NothingIsToldTwice == Spec => []NoChangeTwice
<1>1. NotifierInv => NoChangeTwice
  BY DEF NotifierInv, PendingInv, NoChangeTwice
<1> QED
  BY <1>1, NotifierInvariant, PTL

\* The package that advance_to_ready drops for being older than the version
\* read holds no change.
THEOREM DroppedPackageIsEmpty == Spec => []OutdatedPackageIsEmpty
<1>1. NotifierInv => OutdatedPackageIsEmpty
  BY DEF NotifierInv, PendingInv, OutdatedPackageIsEmpty
<1> QED
  BY <1>1, NotifierInvariant, PTL

\* What was told and what waits add up to all changes until the notifier's
\* version: run_async_notifiers leaves no gap.
THEOREM HandoverHasNoGap == Spec => []HandoverIsContiguous
<1>1. NotifierInv => HandoverIsContiguous
  BY DEF NotifierInv, PendingInv, HandoverIsContiguous
<1> QED
  BY <1>1, NotifierInvariant, PTL

\* run_async_notifiers never takes the notifier to an older version, skip
\* version or not.
THEOREM NotifierOnlyAdvances == Spec => HandoverNeverGoesBack
<1>1. NotifierInv /\ [Next]_vars => [registered # "none" => version' >= version]_vars
  <2> SUFFICES ASSUME NotifierInv, Next, registered # "none" PROVE version' >= version
    OBVIOUS
  <2>1. version \in Nat
    BY DEF NotifierInv, TypeOK
  <2>2. CASE version' = version
    BY <2>1, <2>2
  <2>3. CASE version' # version
    <3>1. RunToSkipVersion \/ RunToTarget
      BY <2>3 DEF Next, MainThread, BackgroundThread, WorkerThread, Register, PromoteToWrite,
         BeginWrite, BeginWriteReturns, CommitWrite, NotifyOthers, CancelWrite, Notify,
         ProcessAvailableAsync, AdvanceToReady, DeliverAt, DeliverError, AdvanceSilently,
         BackgroundBegin, BackgroundCommit, BackgroundNotify, OnChange, Signal, notifier
    <3>2. CASE RunToSkipVersion
      BY <3>2 DEF RunToSkipVersion, HandOver, NotifierInv, TypeOK, PassInv
    <3>3. CASE RunToTarget
      BY <3>3 DEF RunToTarget, HandOver, NotifierInv, TypeOK, PassInv
    <3> QED
      BY <3>1, <3>2, <3>3
  <2> QED
    BY <2>2, <2>3
<1> QED
  BY <1>1, NotifierInvariant, PTL DEF Spec, HandoverNeverGoesBack

(***************************************************************************)
(* The refinement of ChangeFeed: steps of the main thread that move it tell *)
(* all, or have nobody to tell; the worker's steps change nothing it sees.  *)
(***************************************************************************)

\* A delivery of the notifier's version is Tell.
LEMMA DeliverAtTells ==
  ASSUME NotifierInv, hasRun, NEW v \in mainVersion .. latest, v = version,
         DeliverAt(v), UNCHANGED <<latest, touching>>
  PROVE  Feed!Next
<1>1. callback \in {"first", "called"}
  BY DEF NotifierInv, StageInv
<1>2. known' = {u \in touching : u <= v}
  <2>1. CASE callback = "first"
    BY <2>1 DEF DeliverAt
  <2>2. CASE callback = "called"
    BY <2>2 DEF DeliverAt, NotifierInv, PendingInv
  <2> QED
    BY <1>1, <2>1, <2>2
<1>3. Feed!Tell(v)
  BY <1>1, <1>2 DEF Feed!Tell, Feed!UpTo, DeliverAt
<1> QED
  BY <1>3 DEF Feed!Next

\* An error is told once, then nobody listens.
LEMMA DeliverErrorFails ==
  ASSUME NotifierInv, ~ hasRun, NEW v \in mainVersion .. latest,
         DeliverError(v), UNCHANGED <<latest, touching>>
  PROVE  Feed!Next
<1>1. CASE callback \in {"first", "called"}
  BY <1>1 DEF DeliverError, HaveCallbacks, Feed!Next, Feed!Fail
<1>2. CASE callback \notin {"first", "called"}
  BY <1>2 DEF DeliverError, HaveCallbacks, Feed!Next, Feed!Advance, Feed!Listens
<1> QED
  BY <1>1, <1>2

\* Before the first run nobody is told.
LEMMA AdvanceSilentlyAdvances ==
  ASSUME NotifierInv, ~ hasRun, NEW v \in mainVersion .. latest,
         AdvanceSilently(v), UNCHANGED <<latest, touching>>
  PROVE  Feed!Next
<1>1. callback # "called"
  BY DEF NotifierInv, StageInv
<1> QED
  BY <1>1 DEF AdvanceSilently, told, Feed!Next, Feed!Advance, Feed!Listens

\* Beginning a transaction with an error in its package is Fail, without a notifier Advance, else a stutter.
LEMMA BeginWriteIsFeedStep == NotifierInv /\ BeginWrite => Feed!Next \/ UNCHANGED Feed!vars
<1> SUFFICES ASSUME NotifierInv, BeginWrite PROVE Feed!Next \/ UNCHANGED Feed!vars
  OBVIOUS
<1>1. latest \in mainVersion .. latest /\ UNCHANGED <<latest, touching>>
  BY DEF NotifierInv, TypeOK, BeginWrite
<1>2. CASE packageError
  BY <1>1, <1>2, DeliverErrorFails DEF BeginWrite, NotifierInv, StageInv
<1>3. CASE ~ packageError /\ registered = "none"
  BY <1>1, <1>3, AdvanceSilentlyAdvances DEF BeginWrite, NotifierInv, StageInv
<1>4. CASE ~ packageError /\ registered # "none"
  BY <1>1, <1>4 DEF BeginWrite, told, Feed!vars
<1> QED
  BY <1>2, <1>3, <1>4

\* The end of the wait is Tell, or Advance before the first run.
LEMMA BeginWriteReturnsIsFeedStep == NotifierInv /\ BeginWriteReturns => Feed!Next
<1> SUFFICES ASSUME NotifierInv, BeginWriteReturns PROVE Feed!Next
  OBVIOUS
<1>1. latest \in mainVersion .. latest /\ UNCHANGED <<latest, touching>>
  BY DEF NotifierInv, TypeOK, BeginWriteReturns, transaction
<1>2. CASE hasRun
  <2>1. latest = version
    BY <1>2 DEF BeginWriteReturns, NotifierIsAt, HaveCallbacks, NotifierInv, TypeOK, StageInv
  <2> QED
    BY <1>1, <1>2, <2>1, DeliverAtTells DEF BeginWriteReturns
<1>3. CASE ~ hasRun
  BY <1>1, <1>3, AdvanceSilentlyAdvances DEF BeginWriteReturns
<1> QED
  BY <1>2, <1>3

\* A commit of the main thread is CommitOnMain: all was told when it began.
LEMMA CommitWriteIsFeedStep == NotifierInv /\ CommitWrite => Feed!Next
<1> SUFFICES ASSUME NotifierInv, CommitWrite PROVE Feed!Next
  OBVIOUS
<1>1. mainVersion = latest /\ latest \in Nat
  BY DEF NotifierInv, TypeOK, WriteInv, CommitWrite
<1>2. callback = "called" => known = touching
  <2> SUFFICES ASSUME callback = "called" PROVE known = touching
    OBVIOUS
  <2>1. known \union {} = {u \in touching : u <= latest}
    BY DEF NotifierInv, WriteInv, PendingInv, CommitWrite
  <2>2. \A u \in touching : u <= latest
    BY DEF NotifierInv, TypeOK
  <2> QED
    BY <2>1, <2>2
<1>3. Feed!CommitOnMain
  BY <1>1, <1>2 DEF CommitWrite, NewVersion, told, Feed!CommitOnMain, Feed!Listens, Feed!NewVersion
<1> QED
  BY <1>3 DEF Feed!Next

\* The run loop is Tell, Fail, Advance or a stutter.
LEMMA NotifyIsFeedStep == NotifierInv /\ Notify => Feed!Next \/ UNCHANGED Feed!vars
<1> SUFFICES ASSUME NotifierInv, Notify PROVE Feed!Next \/ UNCHANGED Feed!vars
  OBVIOUS
<1>1. /\ latest \in mainVersion .. latest
      /\ mainVersion \in mainVersion .. latest
      /\ ~ (version < mainVersion) => version \in mainVersion .. latest
      /\ UNCHANGED <<latest, touching>>
  BY DEF NotifierInv, TypeOK, Notify, transaction
<1>2. hasRun => registered # "none" /\ ~ error
  BY DEF NotifierInv, StageInv
<1>3. CASE hasRun /\ mainVersion = latest
  <2>1. CASE version = mainVersion
    BY <1>1, <1>2, <1>3, <2>1, DeliverAtTells DEF Notify, ProcessAvailableAsync
  <2>2. CASE version # mainVersion
    BY <1>1, <1>2, <1>3, <2>2 DEF Notify, ProcessAvailableAsync, AdvanceSilently, told, Feed!vars
  <2> QED
    BY <2>1, <2>2
<1>4. CASE hasRun /\ mainVersion # latest
  <2>1. CASE version < mainVersion
    BY <1>1, <1>2, <1>4, <2>1 DEF Notify, AdvanceToReady, told, Feed!vars
  <2>2. CASE ~ (version < mainVersion)
    BY <1>1, <1>2, <1>4, <2>2, DeliverAtTells DEF Notify, AdvanceToReady
  <2> QED
    BY <2>1, <2>2
<1>5. CASE ~ hasRun
  <2>1. \E v \in {mainVersion, latest} : DeliverError(v) \/ AdvanceSilently(v)
    BY <1>5 DEF Notify, ProcessAvailableAsync, AdvanceToReady
  <2> QED
    BY <1>1, <1>5, <2>1, DeliverErrorFails, AdvanceSilentlyAdvances
<1> QED
  BY <1>3, <1>4, <1>5

\* Every step is one of the feed or changes nothing it shows.
LEMMA StepIsFeedStep == NotifierInv /\ [Next]_vars => [Feed!Next]_(Feed!vars)
<1> SUFFICES ASSUME NotifierInv, Next PROVE Feed!Next \/ UNCHANGED Feed!vars
  BY DEF vars, Feed!vars
<1>1. CASE Register
  <2>1. callback = "none"
    BY <1>1 DEF Register, NotifierInv, StageInv
  <2> QED
    BY <1>1, <2>1 DEF Register, transaction, Feed!Next, Feed!Observe
<1>2. CASE BeginWrite
  BY <1>2, BeginWriteIsFeedStep
<1>3. CASE BeginWriteReturns
  BY <1>3, BeginWriteReturnsIsFeedStep
<1>4. CASE CommitWrite
  BY <1>4, CommitWriteIsFeedStep
<1>5. CASE Notify
  BY <1>5, NotifyIsFeedStep
<1>6. CASE BackgroundCommit
  BY <1>6 DEF BackgroundCommit, NewVersion, told, Feed!Next, Feed!CommitElsewhere, Feed!NewVersion
<1>7. CASE PromoteToWrite \/ NotifyOthers \/ CancelWrite \/ BackgroundBegin
           \/ BackgroundNotify
  BY <1>7 DEF PromoteToWrite, NotifyOthers, CancelWrite, BackgroundBegin, BackgroundNotify, transaction, told, Feed!vars
<1>8. CASE OnChange \/ RunToSkipVersion \/ RunToTarget \/ Signal
  BY <1>8 DEF OnChange, RunToSkipVersion, RunToTarget, Signal, transaction, told, Feed!vars
<1> QED
  BY <1>1, <1>2, <1>3, <1>4, <1>5, <1>6, <1>7, <1>8
     DEF Next, MainThread, BackgroundThread, WorkerThread

\* Coordinator, worker and notifier together are the change feed: each call of
\* the callback learns exactly what led to the version then read, and a
\* transaction of the main thread starts with everything told.
THEOREM NotifierImplementsFeed == Spec => ImplementsFeed
<1>1. Init => Feed!Init
  BY DEF Init, Feed!Init
<1> QED
  BY <1>1, StepIsFeedStep, NotifierInvariant, PTL DEF Spec, ImplementsFeed, Feed!Spec

=============================================================================
