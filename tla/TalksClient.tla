---------------------------- MODULE TalksClient ----------------------------
(***************************************************************************)
(* The core of the app (EventAppCore): TalksFetcher, TalksUpdater, Network *)
(* and the local copy of the talks in Realm.                               *)
(*                                                                         *)
(* The user acts on the main thread.  A request r of AppReqs is one data   *)
(* task of the URL session; its completion handler runs on the session's   *)
(* serial queue, so one handler ends before another begins, but the main   *)
(* thread runs between its steps.  Realm serialises the write              *)
(* transactions.  The app meets the server only in call, phase and reply.  *)
(***************************************************************************)
EXTENDS Naturals

CONSTANTS
    Ids,              \* UUIDs
    Titles,           \* titles the user types
    Seeds,            \* titles that only the server writes
    Reqs,             \* requests of all clients
    AppReqs,          \* those of the app
    MaxWriteFailures, \* bound on the write transactions that fail
    None              \* the absent value (Swift's nil)

VARIABLES
    minted, call, phase, reply, \* as in TalksServer
    local,         \* local[id]: name of the talk in the Realm file, or None
    shown,         \* the talks in the main thread's version of the file
    task,          \* task[r]: the data task of request r
    result,        \* result[r]: what r's completion was last called with
    offline,       \* offline[r]: the talks r's completion created on the device
    writeFailures  \* number of failed write transactions so far

Realm == INSTANCE RealmStore

LocalTalks == [Ids -> Titles \cup Seeds \cup {None}]

\* Router: what the app asks of the server.
allTalks          == [op |-> "index", id |-> None, title |-> None]
createTalk(title) == [op |-> "create", id |-> None, title |-> title]
updateTalk(uuid)  == [op |-> "update", id |-> uuid, title |-> None]
deleteTalk(uuid)  == [op |-> "delete", id |-> uuid, title |-> None]

\* "failed": the first of the two completions of a transport error was called.
Tasks   == {"none", "running", "failed", "done", "dropped"}
Results == {"pending", "success", "failure"}

TypeOK ==
    /\ local \in LocalTalks
    /\ shown \in SUBSET Ids
    /\ task \in [AppReqs -> Tasks]
    /\ result \in [AppReqs -> Results]
    /\ offline \in [AppReqs -> SUBSET Ids]
    /\ writeFailures \in 0..MaxWriteFailures

Init ==
    /\ local = [id \in Ids |-> None]
    /\ shown = {}
    /\ task = [r \in AppReqs |-> "none"]
    /\ result = [r \in AppReqs |-> "pending"]
    /\ offline = [r \in AppReqs |-> {}]
    /\ writeFailures = 0

\* try? realm.write: an error is dropped and the file stays as it was.
write(new) ==
    \/ local' = new /\ UNCHANGED writeFailures
    \/ /\ writeFailures < MaxWriteFailures
       /\ writeFailures' = writeFailures + 1
       /\ UNCHANGED local

-----------------------------------------------------------------------------
(* The main thread.                                                        *)

\* A request that is sent again from its own error handler.
requestAgain(r, route) ==
    /\ task[r] \in {"none", "failed"}
    /\ task' = [task EXCEPT ![r] = "running"]
    /\ call' = [call EXCEPT ![r] = route]
    /\ phase' = [phase EXCEPT ![r] = "sent"]
    /\ UNCHANGED <<minted, reply, result, offline>>

\* Network.request: the task is resumed, the completion comes later.
request(r, route) ==
    /\ task[r] = "none"
    /\ task' = [task EXCEPT ![r] = "running"]
    /\ call' = [call EXCEPT ![r] = route]
    /\ phase' = [phase EXCEPT ![r] = "sent"]
    /\ UNCHANGED <<minted, reply, result, offline>>

fetchAll(r) ==
    /\ request(r, allTalks)
    /\ UNCHANGED <<local, shown, writeFailures>>

\* TalksFetcher.create: nothing is stored before the response is in.
create(r, title) ==
    /\ request(r, createTalk(title))
    /\ UNCHANGED <<local, shown, writeFailures>>

\* The detail screen writes what is typed to the talk, in a transaction, which
\* brings the main thread to the newest version.  A talk that was deleted
\* meanwhile raises an exception instead: appDies.
editingChanged(id, name) ==
    /\ id \in shown
    /\ local[id] # None
    /\ write([local EXCEPT ![id] = name])
    /\ shown' = Realm!Stored(local')
    /\ UNCHANGED <<minted, call, phase, reply, task, result, offline>>

\* TalksUpdater.update sends the talk, as the main thread sees it; the fields
\* of its body are left out, for the server reads none of them.
update(r, id) ==
    /\ id \in shown
    /\ request(r, updateTalk(id))
    /\ UNCHANGED <<local, shown, writeFailures>>

\* The user deletes a talk on screen: TalksUpdater.delete sends the request,
\* Talk.delete removes the row, if a fetch has not done so before.
delete(r, id) ==
    /\ id \in shown
    /\ request(r, deleteTalk(id))
    /\ write([local EXCEPT ![id] = None])
    /\ shown' = Realm!Stored(local')

\* The run loop of the main thread moves to the newest version of the file.
refresh ==
    /\ shown # Realm!Stored(local)
    /\ shown' = Realm!Stored(local)
    /\ UNCHANGED <<minted, call, phase, reply, local, task, result, offline, writeFailures>>

\* The app is killed, or raises on a talk that was deleted under it: its tasks
\* are gone, the file stays.  The server may still handle the requests.
appDies ==
    /\ \E r \in AppReqs : task[r] \in {"running", "failed"}
    /\ task' = [r \in AppReqs |->
                   IF task[r] \in {"running", "failed"} THEN "dropped" ELSE task[r]]
    /\ shown' = Realm!Stored(local)
    /\ UNCHANGED <<minted, call, phase, reply, local, result, offline, writeFailures>>

-----------------------------------------------------------------------------
(* The completion handlers.                                                *)

\* Handlers that wait for the other tasks to be over.
CompletingInTurn(r) ==
    /\ task[r] = "running"
    /\ \A q \in AppReqs \ {r} : task[q] \notin {"running", "failed"}

\* The session's queue is serial: a handler that has begun is finished first.
Completing(r) ==
    /\ task[r] = "running"
    /\ \A q \in AppReqs : task[q] # "failed"

Complete(r, next, res) ==
    /\ task' = [task EXCEPT ![r] = next]
    /\ result' = [result EXCEPT ![r] = res]
    /\ UNCHANGED <<call, phase, reply, shown>>

\* Talk.add(name:): the talk gets an identifier of its own.
addOffline(r) ==
    \E id \in Ids \ minted :
        /\ minted' = minted \cup {id}
        /\ write([local EXCEPT ![id] = call[r].title])
        /\ offline' = [offline EXCEPT ![r] = @ \cup (Realm!Stored(local') \ Realm!Stored(local))]

\* A closure that only prints the error.
failurePrints(r) == UNCHANGED <<minted, local, offline, writeFailures>>

\* What the caller's closure does with a .failure: create stores the talk on
\* the device, the others print.
failure(r) ==
    IF call[r].op = "create"
      THEN addOffline(r)
      ELSE UNCHANGED <<minted, local, offline, writeFailures>>

\* The task ends with an error (no connection, timeout, lost response): the
\* completion is called with .request, and the handler goes on.
requestError(r) ==
    /\ Completing(r)
    /\ failure(r)
    /\ Complete(r, "failed", "failure")

\* ... to the missing data: the completion is called again, with .noData.
noData(r) ==
    /\ task[r] = "failed"
    /\ failure(r)
    /\ Complete(r, "done", "failure")

\* A delete looks at the response instead, which may have arrived before the
\* error: then the second completion is a .success.
responseAfterError(r) ==
    /\ task[r] = "failed"
    /\ call[r].op = "delete"
    /\ phase[r] = "answered"
    /\ Complete(r, "done", "success")
    /\ UNCHANGED <<minted, local, offline, writeFailures>>

\* The list of talks is in: the file is made to hold these talks.
fetched(r) ==
    /\ Completing(r)
    /\ phase[r] = "answered"
    /\ call[r].op = "index"
    /\ reply[r].status = "ok"
    /\ write(Realm!replace(local, reply[r].body))
    /\ Complete(r, "done", "success")
    /\ UNCHANGED <<minted, offline>>

\* The talk of a POST or a PUT is in: it is stored under its identifier.
stored(r) ==
    /\ Completing(r)
    /\ phase[r] = "answered"
    /\ call[r].op \in {"create", "update"}
    /\ reply[r].status = "ok"
    /\ write(Realm!add(local, Realm!from(reply[r].body)))
    /\ Complete(r, "done", "success")
    /\ UNCHANGED <<minted, offline>>

\* The body of an error does not decode as talks; the status is not looked at.
decoding(r) ==
    /\ Completing(r)
    /\ phase[r] = "answered"
    /\ call[r].op # "delete"
    /\ reply[r].status # "ok"
    /\ failure(r)
    /\ Complete(r, "done", "failure")

\* Any response to a DELETE is a .success, whatever its status.
deleted(r) ==
    /\ Completing(r)
    /\ phase[r] = "answered"
    /\ call[r].op = "delete"
    /\ Complete(r, "done", "success")
    /\ UNCHANGED <<minted, local, offline, writeFailures>>

Completion(r) ==
    \/ requestError(r)
    \/ noData(r)
    \/ responseAfterError(r)
    \/ fetched(r)
    \/ stored(r)
    \/ decoding(r)
    \/ deleted(r)

User ==
    \/ \E r \in AppReqs : fetchAll(r)
    \/ \E r \in AppReqs, title \in Titles : create(r, title)
    \/ \E id \in Ids, name \in Titles : editingChanged(id, name)
    \/ \E r \in AppReqs, id \in Ids : update(r, id) \/ delete(r, id)

Next ==
    \/ User
    \/ refresh
    \/ appDies
    \/ \E r \in AppReqs : Completion(r)
=============================================================================
