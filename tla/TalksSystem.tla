---------------------------- MODULE TalksSystem ----------------------------
(***************************************************************************)
(* The app and the server together: a request of the app is a request of   *)
(* the server, whose other requests come from other REST clients.          *)
(***************************************************************************)
EXTENDS TalksServer, FiniteSets

CONSTANTS
    AppReqs,          \* the requests of the app
    MaxWriteFailures  \* bound on the app's failing write transactions

ASSUME AppReqsAssumption == AppReqs \subseteq Reqs

ASSUME MaxWriteFailuresAssumption == MaxWriteFailures \in Nat

VARIABLES local, shown, task, result, offline, writeFailures \* see TalksClient

App == INSTANCE TalksClient

appVars == <<local, shown, task, result, offline, writeFailures>>

systemVars == <<vars, appVars>>

SystemTypeOK == TypeOK /\ App!TypeOK

SystemInit == Init /\ App!Init

\* A step of the server, or a request of another client.
ServerStep ==
    /\ \/ Process
       \/ \E r \in Reqs : Handle(r)
       \/ \E r \in Reqs \ AppReqs, c \in Calls : Arrive(r, c)
    /\ UNCHANGED appVars

\* A step of the app.
AppStep == App!Next /\ UNCHANGED <<db, proc, seedsLeft, crashes>>

SystemNext == ServerStep \/ AppStep

SystemSpec == SystemInit /\ [][SystemNext]_systemVars

\* A data task ends, if only by its timeout, and the queue then runs its
\* completion handler; the event loop serves each request.
SystemFairness ==
    /\ \A r \in Reqs : WF_systemVars(Serve(r) /\ UNCHANGED appVars)
    /\ \A r \in AppReqs :
          WF_systemVars(App!Completion(r) /\ UNCHANGED <<db, proc, seedsLeft, crashes>>)

FairSystemSpec == SystemSpec /\ SystemFairness

-----------------------------------------------------------------------------
(* Properties.                                                             *)

\* The server in the system behaves as TalksServer says: the app gives it
\* requests and uses up identifiers, and does nothing else to it.
ImplementsTalksServer == Spec

FetchStep(r) ==
    (/\ call[r].op = "index"
     /\ result[r] = "pending" /\ result'[r] = "success"
     /\ writeFailures' = writeFailures) => local' = reply[r].body

\* A fetch that succeeds leaves exactly the talks of its response in the file:
\* no listed talk is lost and no other survives, whatever the user and other
\* requests did since the request was sent (TalksFetcher.fetchAll).
FetchMirrorsResponse ==
    [][\A r \in AppReqs : FetchStep(r)]_systemVars

OfflineTalks == UNION {offline[r] : r \in AppReqs}

\* A talk that was created on the device stays on the device: it is never in
\* the server's table or in one of its lists, whatever is edited, sent or
\* retried (TalksFetcher.create on failure).
OfflineStaysOffline ==
    \A id \in OfflineTalks :
        /\ db[id] = None
        /\ \A r \in AppReqs :
              phase[r] = "answered" /\ call[r].op = "index" => reply[r].body[id] = None

\* How the app relates to the server in every reachable state: every talk it
\* has was named before, a request it has not sent is idle, and it creates
\* talks without an identifier.  TalksSystemProofs shows that SystemInv is
\* inductive.
AppInv ==
    /\ App!TypeOK
    /\ \A id \in Ids : local[id] # None => id \in minted
    /\ shown \subseteq minted
    /\ \A r \in AppReqs :
          /\ task[r] = "none" => phase[r] = "idle"
          /\ offline[r] \subseteq minted
          /\ call[r].op = "create" => call[r].id = None /\ call[r].title \in Titles
    /\ \A r \in Reqs, id \in Ids :
          phase[r] = "answered" /\ reply[r].body[id] # None => id \in minted
    /\ OfflineStaysOffline

SystemInv == IInv /\ AppInv

\* The server has acknowledged the deletion of id, the app shows it no more
\* and no response on its way to the app still has it.
GoneFor(id) ==
    /\ \E d \in Reqs : /\ Answered(d, "delete", {"noContent", "notFound"})
                       /\ call[d].id = id
    /\ local[id] = None
    /\ \A r \in AppReqs :
          task[r] = "running" /\ phase[r] = "answered" => reply[r].body[id] = None

\* Once it is so, it stays so: no later fetch, create, edit or restart of
\* either side brings the talk back to the app.
DeletedForGood ==
    [][\A id \in Ids : GoneFor(id) => GoneFor(id)']_systemVars

\* Every request of the app ends in a completion, unless the app dies: no task
\* waits for the server or for another task's handler forever.
EveryTaskCompletes ==
    \A r \in AppReqs : task[r] = "running" ~> task[r] \in {"done", "dropped"}

\* A talk the user creates appears in the app, as the server's or as its own,
\* unless the app dies (TalksFetcher.create stores it in both cases).
CreatedTalkAppears ==
    \A r \in AppReqs, title \in Titles :
        task[r] = "running" /\ call[r].op = "create" /\ call[r].title = title
            ~> task[r] = "dropped" \/ \E id \in Ids : local[id] = title

\* A failed creation leaves one talk on the device.
OneTalkPerFailedCreate == \A r \in AppReqs : Cardinality(offline[r]) <= 1

\* A deletion that was reported as successful has removed the talk.
ReportedDeletionIsTrue ==
    \A r \in AppReqs :
        call[r].op = "delete" /\ result[r] = "success" => db[call[r].id] = None
=============================================================================
