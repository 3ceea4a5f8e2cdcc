----------------------------- MODULE ChangeFeed -----------------------------
(***************************************************************************)
(* What observing a Realm collection promises to the main thread, whatever  *)
(* the threads behind it do: versions are committed; the main thread reads  *)
(* one of them; and each time the callback is called it learns exactly what *)
(* the versions between the last call and the one now read have changed.    *)
(***************************************************************************)
EXTENDS Integers

VARIABLES
  latest,       \* the latest committed version
  touching,     \* the versions that changed the collection
  mainVersion,  \* the version the main thread reads
  known,        \* the changes the callback has learnt of
  callback      \* "none", "first" (not called yet), "called", "removed" (after an error)

vars == <<latest, touching, mainVersion, known, callback>>

UpTo(v) == {u \in touching : u <= v}

Init ==
  /\ latest = 0
  /\ touching = {}
  /\ mainVersion = 0
  /\ known = {}
  /\ callback = "none"

Listens == callback = "called"

\* A version is added; it may leave the collection as it was.
NewVersion ==
  /\ latest' = latest + 1
  /\ \/ touching' = touching \union {latest + 1}
     \/ UNCHANGED touching

\* Another thread commits: the main thread keeps its version.
CommitElsewhere ==
  /\ NewVersion
  /\ UNCHANGED <<mainVersion, known, callback>>

\* The main thread commits: it started from the latest version, and its
\* callback knew all there was to know.
CommitOnMain ==
  /\ mainVersion = latest
  /\ Listens => known = touching
  /\ NewVersion
  /\ mainVersion' = latest'
  /\ UNCHANGED <<known, callback>>

Observe ==
  /\ callback = "none"
  /\ callback' = "first"
  /\ UNCHANGED <<latest, touching, mainVersion, known>>

\* The main thread moves to a version and the callback learns all that led to
\* it: on its first call it reads the whole collection.
Tell(v) ==
  /\ callback \in {"first", "called"}
  /\ mainVersion' = v
  /\ known' = UpTo(v)
  /\ callback' = "called"
  /\ UNCHANGED <<latest, touching>>

\* The main thread moves with nobody to tell.
Advance(v) ==
  /\ ~ Listens
  /\ mainVersion' = v
  /\ UNCHANGED <<latest, touching, known, callback>>

\* The observation fails: the callback is told, once, and never called again.
Fail(v) ==
  /\ callback \in {"first", "called"}
  /\ mainVersion' = v
  /\ callback' = "removed"
  /\ UNCHANGED <<latest, touching, known>>

Next ==
  \/ CommitElsewhere
  \/ CommitOnMain
  \/ Observe
  \/ \E v \in mainVersion .. latest : Tell(v) \/ Advance(v) \/ Fail(v)

Spec == Init /\ [][Next]_vars
=============================================================================
