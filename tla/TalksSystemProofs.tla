------------------------- MODULE TalksSystemProofs -------------------------
(***************************************************************************)
(* The app and the server together, for every value of the constants: the  *)
(* server in the system is TalksServer, so that its theorems carry over,   *)
(* and the app's copy of the talks is what its properties say.             *)
(***************************************************************************)
EXTENDS TalksSystem, TalksServerProofs

\* What talks of a response do to the file: the listed ones are stored with
\* the names of the response, the others stay.
LEMMA AddIsUpsert ==
    ASSUME NEW realm \in Talks, NEW shared \in Talks
    PROVE  App!Realm!add(realm, App!Realm!from(shared))
             = [id \in Ids |-> IF shared[id] # None THEN shared[id] ELSE realm[id]]
<1> DEFINE object(id) == [managed |-> FALSE, identifier |-> id, name |-> shared[id]]
           talks == App!Realm!from(shared)
<1>1. talks = {object(id) : id \in App!Realm!Stored(shared)}
    BY DEF App!Realm!from
<1>2. \A talk \in talks : /\ shared[talk.identifier] # None
                          /\ talk.name = shared[talk.identifier]
    BY <1>1 DEF App!Realm!Stored
<1>3. ASSUME NEW id \in Ids, shared[id] # None
      PROVE  \E talk \in talks : talk.identifier = id
    <2>1. object(id) \in talks /\ object(id).identifier = id
      BY <1>1, <1>3 DEF App!Realm!Stored
    <2> QED
      BY <2>1
<1> HIDE DEF talks
<1>4. ASSUME NEW id \in Ids
      PROVE  (IF \E talk \in talks : talk.identifier = id
                THEN (CHOOSE talk \in talks : talk.identifier = id).name
                ELSE realm[id])
             = IF shared[id] # None THEN shared[id] ELSE realm[id]
    BY <1>2, <1>3
<1>5. App!Realm!add(realm, talks)
        = [id \in Ids |-> IF shared[id] # None THEN shared[id] ELSE realm[id]]
    BY <1>4 DEF App!Realm!add
<1> QED
    BY <1>5 DEF talks

\* The write of fetchAll leaves exactly the talks of the response, whatever
\* was in the file: evaluated lazily, the filter finds every listed talk.
LEMMA ReplaceIsResponse ==
    ASSUME NEW realm \in Talks, NEW shared \in Talks
    PROVE  App!Realm!replace(realm, shared) = shared
<1> DEFINE talksToUpdate == App!Realm!from(shared)
           added == App!Realm!add(realm, talksToUpdate)
           managed == App!Realm!Managed(talksToUpdate)
           talksToDelete == {talk \in App!Realm!objects(added) :
                                ~ \E update \in managed : App!Realm!AreEqual(update, talk)}
<1>1. added = [id \in Ids |-> IF shared[id] # None THEN shared[id] ELSE realm[id]]
    BY AddIsUpsert
<1>2. ASSUME NEW id \in Ids, shared[id] # None
      PROVE  [managed |-> TRUE, identifier |-> id, name |-> shared[id]] \in managed
    <2> DEFINE talk == [managed |-> FALSE, identifier |-> id, name |-> shared[id]]
    <2>1. talk \in talksToUpdate
      BY <1>2 DEF App!Realm!from, App!Realm!Stored
    <2>2. talk.identifier = id /\ talk.name = shared[id]
      OBVIOUS
    <2> HIDE DEF talk
    <2> QED
      BY <2>1, <2>2 DEF App!Realm!Managed
<1>3. \A update \in managed : /\ update.managed
                              /\ update.identifier \in Ids
                              /\ shared[update.identifier] # None
    BY DEF App!Realm!Managed, App!Realm!from, App!Realm!Stored
<1>4. \A talk \in App!Realm!objects(added) : /\ talk.managed
                                             /\ talk.identifier \in Ids
                                             /\ added[talk.identifier] # None
    BY DEF App!Realm!objects, App!Realm!Stored
<1>5. ASSUME NEW id \in Ids
      PROVE  (\E talk \in talksToDelete : talk.identifier = id)
                 <=> shared[id] = None /\ added[id] # None
    <2> DEFINE update == [managed |-> TRUE, identifier |-> id, name |-> shared[id]]
               talk == [managed |-> TRUE, identifier |-> id, name |-> added[id]]
    <2>1. CASE shared[id] # None
      <3>1. update \in managed /\ update.managed /\ update.identifier = id
        BY <1>2, <2>1
      <3> QED
        BY <1>4, <2>1, <3>1 DEF App!Realm!AreEqual
    <2>2. CASE shared[id] = None /\ added[id] # None
      <3>1. talk \in App!Realm!objects(added) /\ talk.identifier = id
        BY <2>2 DEF App!Realm!objects, App!Realm!Stored
      <3>2. ~ \E u \in managed : App!Realm!AreEqual(u, talk)
        BY <1>3, <2>2, <3>1 DEF App!Realm!AreEqual
      <3> QED
        BY <2>2, <3>1, <3>2
    <2>3. CASE added[id] = None
      BY <1>1, <1>4, <2>3
    <2> QED
      BY <2>1, <2>2, <2>3
<1>6. App!Realm!replace(realm, shared) = App!Realm!delete(added, talksToDelete)
    BY DEF App!Realm!replace
<1> HIDE DEF talksToDelete
<1>7. App!Realm!delete(added, talksToDelete) = [id \in Ids |-> shared[id]]
    BY <1>1, <1>5 DEF App!Realm!delete
<1> QED
    BY <1>6, <1>7 DEF Talks

-----------------------------------------------------------------------------
(* The app gives the server requests and uses up identifiers.              *)

\* The app's file holds values of the server's vocabulary.
LEMMA LocalIsTalks == App!LocalTalks = Talks
    BY DEF App!LocalTalks, Talks, Texts

\* A request of the app arrives at the server.
LEMMA RequestArrives ==
    ASSUME SystemInv, NEW r \in AppReqs, NEW route \in Calls, App!request(r, route),
           route.id # None => route.id \in minted,
           UNCHANGED <<db, proc, seedsLeft, crashes>>
    PROVE  Arrive(r, route)
    BY DEF SystemInv, AppInv, App!request, Arrive

\* Every step of the user is a request that arrives, or nothing to the server.
LEMMA UserIsServerStep ==
    ASSUME SystemInv, App!User, UNCHANGED <<db, proc, seedsLeft, crashes>>
    PROVE  [Next]_vars
<1> USE AppReqsAssumption
<1>1. ASSUME NEW r \in AppReqs, App!fetchAll(r) PROVE Next
  <2> DEFINE route == [op |-> "index", id |-> None, title |-> None]
  <2>1. route \in Calls /\ route.id = None
    BY DEF Calls
  <2>2. App!request(r, route)
    BY <1>1 DEF App!fetchAll, App!allTalks
  <2>3. Arrive(r, route)
    BY <2>1, <2>2, RequestArrives
  <2> QED
    BY <2>1, <2>3 DEF Next
<1>2. ASSUME NEW r \in AppReqs, NEW title \in Titles, App!create(r, title) PROVE Next
  <2> DEFINE route == [op |-> "create", id |-> None, title |-> title]
  <2>1. route \in Calls /\ route.id = None
    BY DEF Calls
  <2>2. App!request(r, route)
    BY <1>2 DEF App!create, App!createTalk
  <2>3. Arrive(r, route)
    BY <2>1, <2>2, RequestArrives
  <2> QED
    BY <2>1, <2>3 DEF Next
<1>3. ASSUME NEW id \in Ids, NEW name \in Titles, App!editingChanged(id, name)
      PROVE  UNCHANGED vars
    BY <1>3 DEF App!editingChanged, vars
<1>4. ASSUME NEW r \in AppReqs, NEW id \in Ids, App!update(r, id) PROVE Next
  <2> DEFINE route == [op |-> "update", id |-> id, title |-> None]
  <2>1. route \in Calls /\ route.id \in minted
    BY <1>4 DEF Calls, App!update, App!updateTalk, SystemInv, AppInv
  <2>2. App!request(r, route)
    BY <1>4 DEF App!update, App!updateTalk
  <2>3. Arrive(r, route)
    BY <2>1, <2>2, RequestArrives
  <2> QED
    BY <2>1, <2>3 DEF Next
<1>5. ASSUME NEW r \in AppReqs, NEW id \in Ids, App!delete(r, id) PROVE Next
  <2> DEFINE route == [op |-> "delete", id |-> id, title |-> None]
  <2>1. route \in Calls /\ route.id \in minted
    BY <1>5 DEF Calls, App!delete, App!deleteTalk, SystemInv, AppInv
  <2>2. App!request(r, route)
    BY <1>5 DEF App!delete, App!deleteTalk
  <2>3. Arrive(r, route)
    BY <2>1, <2>2, RequestArrives
  <2> QED
    BY <2>1, <2>3 DEF Next
<1> QED
    BY <1>1, <1>2, <1>3, <1>4, <1>5 DEF App!User

\* A completion is nothing to the server, but for the identifiers of the talks
\* that are created on the device.
LEMMA CompletionIsServerStep ==
    ASSUME NEW r \in AppReqs, App!Completion(r), UNCHANGED <<db, proc, seedsLeft, crashes>>
    PROVE  [Next]_vars
<1>1. UNCHANGED <<call, phase, reply>>
    BY DEF App!Completion, App!requestError, App!noData, App!responseAfterError, App!fetched,
           App!stored, App!decoding, App!deleted, App!Complete
<1>2. ASSUME App!failure(r) PROVE [Next]_vars
  <2>1. ASSUME App!addOffline(r) PROVE Next
    BY <1>1, <2>1 DEF App!addOffline, Next, elsewhere
  <2> QED
    BY <1>1, <1>2, <2>1 DEF App!failure, vars
<1>3. CASE UNCHANGED minted
    BY <1>1, <1>3 DEF vars
<1> QED
    BY <1>2, <1>3
    DEF App!Completion, App!requestError, App!noData, App!responseAfterError, App!fetched,
        App!stored, App!decoding, App!deleted

\* Every step of the system is a step of the server or nothing to it.
LEMMA SystemStepIsServerStep ==
    ASSUME SystemInv, [SystemNext]_systemVars
    PROVE  [Next]_vars
<1>1. CASE ServerStep
    BY <1>1 DEF ServerStep, Next
<1>2. CASE AppStep
  <2>1. CASE App!refresh \/ App!appDies
    BY <1>2, <2>1 DEF AppStep, App!refresh, App!appDies, vars
  <2> QED
    BY <1>2, <2>1, UserIsServerStep, CompletionIsServerStep DEF AppStep, App!Next
<1> QED
    BY <1>1, <1>2 DEF SystemNext, systemVars, vars

-----------------------------------------------------------------------------
(* The invariant of the app.                                               *)

\* A response keeps the app's invariant if it names no new identifier and
\* neither the table nor a list gets a talk that was created on the device.
LEMMA ResponseAppInv ==
    ASSUME SystemInv, NEW r \in Reqs, phase[r] # "idle",
           NEW status \in Statuses, NEW body \in Talks, Answer(r, status, body),
           minted \subseteq minted', UNCHANGED call, UNCHANGED appVars,
           \A id \in Ids : body[id] # None => id \in minted',
           \A id \in OfflineTalks : db'[id] = None,
           call[r].op = "index" => \A id \in OfflineTalks : body[id] = None
    PROVE  AppInv'
<1>1. /\ phase' = [phase EXCEPT ![r] = "answered"]
      /\ reply' = [reply EXCEPT ![r] = [status |-> status, body |-> body]]
      /\ phase \in [Reqs -> Phases]
      /\ reply \in [Reqs -> Replies \cup {None}]
    BY DEF Answer, SystemInv, IInv, TypeOK
<1>2. App!TypeOK'
    BY DEF SystemInv, AppInv, App!TypeOK, appVars
<1>3. \A q \in AppReqs : task'[q] = "none" => phase'[q] = "idle"
    BY <1>1, AppReqsAssumption DEF SystemInv, AppInv, appVars
<1>4. \A q \in Reqs, id \in Ids :
          phase'[q] = "answered" /\ reply'[q].body[id] # None => id \in minted'
    BY <1>1 DEF SystemInv, AppInv
<1>5. OfflineTalks' = OfflineTalks
    BY DEF OfflineTalks, appVars
<1>6. OfflineStaysOffline'
    BY <1>1, <1>5, AppReqsAssumption DEF OfflineStaysOffline, SystemInv, AppInv
<1> QED
    BY <1>2, <1>3, <1>4, <1>6 DEF SystemInv, AppInv, appVars

\* Talks that were created on the device have identifiers of their own.
LEMMA OfflineMinted ==
    ASSUME SystemInv
    PROVE  /\ OfflineTalks \subseteq minted
           /\ OfflineTalks \subseteq Ids
           /\ \A id \in OfflineTalks : db[id] = None
    BY DEF SystemInv, AppInv, App!TypeOK, OfflineTalks, OfflineStaysOffline

\* The steps of the server that answer nobody keep the app's invariant.
LEMMA SilentAppInv ==
    ASSUME SystemInv, minted \subseteq minted', UNCHANGED <<call, reply>>, UNCHANGED appVars,
           \A q \in Reqs : (phase'[q] = "idle" <=> phase[q] = "idle")
                           /\ (phase'[q] = "answered" => phase[q] = "answered"),
           \A id \in OfflineTalks : db'[id] = None
    PROVE  AppInv'
<1>1. App!TypeOK'
    BY DEF SystemInv, AppInv, App!TypeOK, appVars
<1>2. OfflineTalks' = OfflineTalks
    BY DEF OfflineTalks, appVars
<1>3. OfflineStaysOffline'
    BY <1>2, AppReqsAssumption DEF OfflineStaysOffline, SystemInv, AppInv
<1> QED
    BY <1>1, <1>3, AppReqsAssumption DEF SystemInv, AppInv, appVars

\* The steps of the server keep the app's invariant.
LEMMA HandleAppInv ==
    ASSUME SystemInv, NEW r \in Reqs, Handle(r), UNCHANGED appVars
    PROVE  AppInv'
<1> USE OfflineMinted
<1>1. NoTalks \in Talks /\ \A id \in Ids : NoTalks[id] = None
    BY Vocabulary DEF NoTalks
<1>2. CASE refuse(r)
    BY <1>2, SilentAppInv DEF refuse, SystemInv, IInv, TypeOK
<1>3. CASE index(r)
  <2>1. db \in Talks /\ \A id \in Ids : db[id] # None => id \in minted
    BY DEF SystemInv, IInv, TypeOK, Wellformed
  <2> QED
    BY <1>3, <2>1, ResponseAppInv DEF index, Handling, Statuses
<1>4. CASE createUndecodable(r)
    BY <1>1, <1>4, ResponseAppInv DEF createUndecodable, Handling, Statuses
<1>5. CASE stub(r)
    BY <1>1, <1>5, ResponseAppInv DEF stub, Handling, Statuses
<1>6. CASE sqlFails(r)
    BY <1>1, <1>6, ResponseAppInv DEF sqlFails, Statuses
<1>7. CASE deleteLookup(r)
  <2>1. CASE db[call[r].id] = None
    BY <1>1, <1>7, <2>1, ResponseAppInv DEF deleteLookup, Handling, Statuses
  <2>2. CASE db[call[r].id] # None
    BY <1>7, <2>2, SilentAppInv DEF deleteLookup, Handling, SystemInv, IInv, TypeOK
  <2> QED
    BY <2>1, <2>2
<1>8. CASE deleteRow(r)
  <2>1. \A id \in OfflineTalks : db'[id] = None
    BY <1>8 DEF deleteRow, SystemInv, IInv, TypeOK, Talks
  <2> QED
    BY <1>1, <1>8, <2>1, ResponseAppInv DEF deleteRow, Statuses
<1>9. CASE saveWithId(r)
  <2> DEFINE body == [NoTalks EXCEPT ![call[r].id] = call[r].title]
  <2>1. call[r] \in Calls
    BY <1>9 DEF saveWithId, Handling, SystemInv, IInv, TypeOK, NoCall
  <2>2. call[r].id \in Ids /\ call[r].id \in minted /\ call[r].title \in Texts
    BY <1>9, <2>1, Vocabulary DEF saveWithId, SystemInv, IInv, Wellformed, Texts
  <2>3. body \in Talks /\ \A id \in Ids : body[id] # None => id \in minted
    BY <2>2 DEF NoTalks, Talks
  <2>4. \A id \in OfflineTalks : db'[id] = None
    BY <1>9 DEF saveWithId, SystemInv, IInv, TypeOK, Talks
  <2>5. Answer(r, "ok", body)
    BY <1>9 DEF saveWithId
  <2> HIDE DEF body
  <2> QED
    BY <1>9, <2>3, <2>4, <2>5, ResponseAppInv DEF saveWithId, Handling, Statuses
<1>10. CASE create(r)
  <2>1. call[r] \in Calls
    BY <1>10 DEF create, Handling, SystemInv, IInv, TypeOK, NoCall
  <2>2. call[r].title \in Texts
    BY <1>10, <2>1, Vocabulary DEF create, Texts
  <2>3. PICK id \in Ids \ minted :
             /\ db' = [db EXCEPT ![id] = call[r].title]
             /\ minted' = minted \cup {id}
             /\ Answer(r, "ok", [NoTalks EXCEPT ![id] = call[r].title])
    BY <1>10 DEF create
  <2> DEFINE body == [NoTalks EXCEPT ![id] = call[r].title]
  <2>4. body \in Talks /\ \A i \in Ids : body[i] # None => i \in minted'
    BY <2>2, <2>3 DEF NoTalks, Talks
  <2>5. \A i \in OfflineTalks : db'[i] = None
    BY <2>3 DEF SystemInv, IInv, TypeOK, Talks
  <2>6. Answer(r, "ok", body)
    BY <2>3
  <2> HIDE DEF body
  <2> QED
    BY <1>10, <2>3, <2>4, <2>5, <2>6, ResponseAppInv DEF create, Handling, Statuses
<1> QED
    BY <1>2, <1>3, <1>4, <1>5, <1>6, <1>7, <1>8, <1>9, <1>10 DEF Handle, Serve

\* Every step of the server keeps the app's invariant.
LEMMA ServerStepAppInv ==
    ASSUME SystemInv, ServerStep
    PROVE  AppInv'
<1> USE OfflineMinted
<1>1. UNCHANGED appVars
    BY DEF ServerStep
<1>2. CASE Process
  <2>1. ASSUME NEW s \in Seeds, mockData(s) PROVE AppInv'
    <3>1. \A id \in OfflineTalks : db'[id] = None
      BY <2>1 DEF mockData, SystemInv, IInv, TypeOK, Talks
    <3> QED
      BY <1>1, <2>1, <3>1, SilentAppInv DEF mockData
  <2>2. CASE crash
    BY <1>1, <2>2, SilentAppInv DEF crash, SystemInv, IInv, TypeOK
  <2> QED
    BY <1>1, <1>2, <2>1, <2>2, SilentAppInv DEF Process, start, boot, bootFails, mockDataFails
<1>3. ASSUME NEW r \in Reqs \ AppReqs, NEW c \in Calls, Arrive(r, c) PROVE AppInv'
  <2>1. /\ call' = [call EXCEPT ![r] = c]
        /\ phase' = [phase EXCEPT ![r] = "sent"]
        /\ UNCHANGED <<db, minted, reply>>
    BY <1>3 DEF Arrive
  <2>2. \A q \in AppReqs : call'[q] = call[q] /\ phase'[q] = phase[q]
    BY <2>1, AppReqsAssumption DEF SystemInv, IInv, TypeOK
  <2>3. \A q \in Reqs : phase'[q] = "answered" => phase[q] = "answered"
    BY <2>1 DEF SystemInv, IInv, TypeOK
  <2>4. App!TypeOK'
    BY <1>1 DEF SystemInv, AppInv, App!TypeOK, appVars
  <2>5. OfflineTalks' = OfflineTalks
    BY <1>1 DEF OfflineTalks, appVars
  <2>6. OfflineStaysOffline'
    BY <2>1, <2>2, <2>5 DEF OfflineStaysOffline, SystemInv, AppInv
  <2> QED
    BY <1>1, <2>1, <2>2, <2>3, <2>4, <2>6 DEF SystemInv, AppInv, appVars
<1> QED
    BY <1>1, <1>2, <1>3, HandleAppInv DEF ServerStep

\* A write transaction, successful or not, keeps the file well formed.
LEMMA WriteKeepsFile ==
    ASSUME SystemInv, NEW new \in Talks, App!write(new), minted \subseteq minted',
           \A id \in Ids : new[id] # None => id \in minted'
    PROVE  /\ local' \in App!LocalTalks
           /\ writeFailures' \in 0..MaxWriteFailures
           /\ \A id \in Ids : local'[id] # None => id \in minted'
<1>1. writeFailures' \in 0..MaxWriteFailures
    BY MaxWriteFailuresAssumption DEF App!write, SystemInv, AppInv, App!TypeOK
<1> QED
    BY <1>1, LocalIsTalks DEF App!write, SystemInv, AppInv, App!TypeOK

\* A request of the app keeps its invariant.
LEMMA RequestAppInv ==
    ASSUME SystemInv, NEW r \in AppReqs, NEW route, App!request(r, route),
           route.op = "create" => route.id = None /\ route.title \in Titles,
           local' \in App!LocalTalks, writeFailures' \in 0..MaxWriteFailures,
           \A id \in Ids : local'[id] # None => id \in minted,
           shown' \subseteq minted, UNCHANGED db
    PROVE  AppInv'
<1>1. /\ r \in Reqs
      /\ call' = [call EXCEPT ![r] = route]
      /\ phase' = [phase EXCEPT ![r] = "sent"]
      /\ task' = [task EXCEPT ![r] = "running"]
      /\ UNCHANGED <<minted, reply, result, offline>>
    BY AppReqsAssumption DEF App!request
<1>2. minted \subseteq Ids
    BY DEF SystemInv, IInv, TypeOK
<1>3. App!TypeOK'
    BY <1>1, <1>2 DEF SystemInv, AppInv, App!TypeOK, App!Tasks
<1>4. \A q \in AppReqs :
         /\ task'[q] = "none" => phase'[q] = "idle"
         /\ offline'[q] \subseteq minted'
         /\ call'[q].op = "create" => call'[q].id = None /\ call'[q].title \in Titles
    BY <1>1, AppReqsAssumption DEF SystemInv, IInv, TypeOK, AppInv, App!TypeOK
<1>5. \A q \in Reqs, id \in Ids :
         phase'[q] = "answered" /\ reply'[q].body[id] # None => id \in minted'
    BY <1>1 DEF SystemInv, IInv, TypeOK, AppInv
<1>6. OfflineTalks' = OfflineTalks
    BY <1>1 DEF OfflineTalks
<1>7. OfflineStaysOffline'
    BY <1>1, <1>6, AppReqsAssumption DEF OfflineStaysOffline, SystemInv, IInv, TypeOK, AppInv
<1> QED
    BY <1>1, <1>3, <1>4, <1>5, <1>7 DEF AppInv

\* The steps of the user keep the app's invariant.
LEMMA UserAppInv ==
    ASSUME SystemInv, App!User, UNCHANGED db
    PROVE  AppInv'
<1>1. /\ local \in App!LocalTalks
      /\ writeFailures \in 0..MaxWriteFailures
      /\ \A id \in Ids : local[id] # None => id \in minted
      /\ shown \subseteq minted
    BY DEF SystemInv, AppInv, App!TypeOK
<1>2. ASSUME NEW r \in AppReqs, App!fetchAll(r) PROVE AppInv'
    BY <1>1, <1>2, RequestAppInv DEF App!fetchAll, App!allTalks
<1>3. ASSUME NEW r \in AppReqs, NEW title \in Titles, App!create(r, title) PROVE AppInv'
    BY <1>1, <1>3, RequestAppInv DEF App!create, App!createTalk
<1>4. ASSUME NEW id \in Ids, NEW name \in Titles, App!editingChanged(id, name) PROVE AppInv'
  <2> DEFINE new == [local EXCEPT ![id] = name]
  <2>1. new \in Talks /\ \A i \in Ids : new[i] # None => i \in minted
    BY <1>1, <1>4, LocalIsTalks DEF App!editingChanged, Talks, Texts
  <2>2. /\ App!write(new)
        /\ shown' = App!Realm!Stored(local')
        /\ UNCHANGED <<minted, call, phase, reply, task, result, offline>>
    BY <1>4 DEF App!editingChanged
  <2> HIDE DEF new
  <2>3. /\ local' \in App!LocalTalks
        /\ writeFailures' \in 0..MaxWriteFailures
        /\ \A i \in Ids : local'[i] # None => i \in minted'
    BY <2>1, <2>2, WriteKeepsFile
  <2>4. shown' \subseteq minted' /\ shown' \subseteq Ids
    BY <2>2, <2>3 DEF App!Realm!Stored
  <2>5. OfflineStaysOffline'
    BY <2>2 DEF OfflineStaysOffline, OfflineTalks, SystemInv, AppInv
  <2> QED
    BY <2>2, <2>3, <2>4, <2>5 DEF SystemInv, AppInv, App!TypeOK
<1>5. ASSUME NEW r \in AppReqs, NEW id \in Ids, App!update(r, id) PROVE AppInv'
    BY <1>1, <1>5, RequestAppInv DEF App!update, App!updateTalk
<1>6. ASSUME NEW r \in AppReqs, NEW id \in Ids, App!delete(r, id) PROVE AppInv'
  <2> DEFINE new == [local EXCEPT ![id] = None]
  <2>1. new \in Talks /\ \A i \in Ids : new[i] # None => i \in minted
    BY <1>1, LocalIsTalks DEF Talks
  <2>2. /\ App!write(new)
        /\ shown' = App!Realm!Stored(local')
        /\ App!request(r, [op |-> "delete", id |-> id, title |-> None])
        /\ UNCHANGED minted
    BY <1>6 DEF App!delete, App!deleteTalk, App!request
  <2> HIDE DEF new
  <2>3. /\ local' \in App!LocalTalks
        /\ writeFailures' \in 0..MaxWriteFailures
        /\ \A i \in Ids : local'[i] # None => i \in minted
    BY <2>1, <2>2, WriteKeepsFile
  <2>4. shown' \subseteq minted
    BY <2>2, <2>3 DEF App!Realm!Stored
  <2> QED
    BY <2>2, <2>3, <2>4, RequestAppInv
<1> QED
    BY <1>2, <1>3, <1>4, <1>5, <1>6 DEF App!User

\* What a completion leaves behind keeps the app's invariant, if the file is
\* well formed and only new identifiers are added to the offline talks.
LEMMA CompleteAppInv ==
    ASSUME SystemInv, NEW r \in AppReqs, NEW next \in {"failed", "done"},
           NEW res \in App!Results, App!Complete(r, next, res), task[r] # "none",
           minted \subseteq minted', minted' \subseteq Ids,
           local' \in App!LocalTalks, writeFailures' \in 0..MaxWriteFailures,
           \A id \in Ids : local'[id] # None => id \in minted',
           NEW new \in SUBSET (minted' \ minted),
           offline' = [offline EXCEPT ![r] = @ \cup new],
           UNCHANGED db
    PROVE  AppInv'
<1>1. /\ task' = [task EXCEPT ![r] = next]
      /\ result' = [result EXCEPT ![r] = res]
      /\ UNCHANGED <<call, phase, reply, shown>>
    BY DEF App!Complete
<1>2. App!TypeOK'
    BY <1>1 DEF SystemInv, AppInv, App!TypeOK, App!Tasks
<1>3. \A q \in AppReqs : /\ task'[q] = "none" => task[q] = "none"
                         /\ offline'[q] \subseteq minted'
    BY <1>1 DEF SystemInv, AppInv, App!TypeOK
<1>4. OfflineTalks' \subseteq OfflineTalks \cup new
    BY DEF OfflineTalks, SystemInv, AppInv, App!TypeOK
<1>5. \A id \in new : /\ db[id] = None
                      /\ \A q \in Reqs : phase[q] = "answered" => reply[q].body[id] = None
    BY DEF SystemInv, IInv, Wellformed, AppInv
<1>6. OfflineStaysOffline'
    BY <1>1, <1>4, <1>5, AppReqsAssumption DEF OfflineStaysOffline, SystemInv, AppInv
<1> QED
    BY <1>1, <1>2, <1>3, <1>6 DEF SystemInv, AppInv

\* What a .failure does to the file: at most one new talk, under a new
\* identifier, which is then one of the request's offline talks.
LEMMA FailureKeepsFile ==
    ASSUME SystemInv, NEW r \in AppReqs, App!failure(r)
    PROVE  /\ minted \subseteq minted' /\ minted' \subseteq Ids
           /\ local' \in App!LocalTalks
           /\ writeFailures' \in 0..MaxWriteFailures
           /\ \A id \in Ids : local'[id] # None => id \in minted'
           /\ \A id \in minted : local'[id] = local[id]
           /\ \E new \in SUBSET (minted' \ minted) :
                 offline' = [offline EXCEPT ![r] = @ \cup new]
<1>1. minted \subseteq Ids /\ local \in Talks /\ local \in App!LocalTalks
    BY LocalIsTalks DEF SystemInv, IInv, TypeOK, AppInv, App!TypeOK
<1>2. CASE call[r].op = "create"
  <2>1. call[r].title \in Titles
    BY <1>2 DEF SystemInv, AppInv
  <2>2. PICK id \in Ids \ minted :
             /\ minted' = minted \cup {id}
             /\ App!write([local EXCEPT ![id] = call[r].title])
             /\ offline' = [offline EXCEPT ![r] =
                               @ \cup (App!Realm!Stored(local') \ App!Realm!Stored(local))]
    BY <1>2 DEF App!failure, App!addOffline
  <2> DEFINE new == [local EXCEPT ![id] = call[r].title]
             added == App!Realm!Stored(local') \ App!Realm!Stored(local)
  <2>3. new \in Talks
    BY <1>1, <2>1 DEF Talks, Texts
  <2>4. \A i \in Ids : new[i] # None => i \in minted'
    BY <1>1, <2>2 DEF SystemInv, AppInv, Talks
  <2>5. \A i \in Ids \ {id} : new[i] = local[i]
    BY <1>1 DEF Talks
  <2>6. App!write(new)
    BY <2>2
  <2> HIDE DEF new
  <2>7. local' = new \/ local' = local
    BY <2>6 DEF App!write
  <2>8. added \subseteq {id}
    BY <2>5, <2>7 DEF App!Realm!Stored
  <2>9. added \in SUBSET (minted' \ minted)
    BY <2>2, <2>8
  <2>10. /\ local' \in App!LocalTalks
         /\ writeFailures' \in 0..MaxWriteFailures
         /\ \A i \in Ids : local'[i] # None => i \in minted'
    BY <2>2, <2>3, <2>4, <2>6, WriteKeepsFile
  <2>11. \A i \in minted : local'[i] = local[i]
    BY <1>1, <2>5, <2>7
  <2> QED
    BY <1>1, <2>2, <2>9, <2>10, <2>11
<1>3. CASE call[r].op # "create"
  <2>1. UNCHANGED <<minted, local, offline, writeFailures>>
    BY <1>3 DEF App!failure
  <2>2. offline' = [offline EXCEPT ![r] = @ \cup {}]
    BY <2>1 DEF SystemInv, AppInv, App!TypeOK
  <2> QED
    BY <1>1, <2>1, <2>2 DEF SystemInv, AppInv, App!TypeOK
<1> QED
    BY <1>2, <1>3

\* The body of an answered request holds talks with known identifiers.
LEMMA BodyIsTalks ==
    ASSUME SystemInv, NEW r \in AppReqs, phase[r] = "answered"
    PROVE  /\ reply[r].body \in Talks
           /\ \A id \in Ids : reply[r].body[id] # None => id \in minted
<1>1. r \in Reqs
    BY AppReqsAssumption
<1>2. reply[r] \in Replies
    BY <1>1 DEF SystemInv, IInv, TypeOK, Wellformed
<1> QED
    BY <1>1, <1>2 DEF Replies, SystemInv, AppInv

\* The completion handlers keep the app's invariant.
LEMMA CompletionAppInv ==
    ASSUME SystemInv, NEW r \in AppReqs, App!Completion(r), UNCHANGED db
    PROVE  AppInv'
<1> USE DEF App!Results
<1>1. /\ minted \subseteq Ids
      /\ local \in Talks /\ local \in App!LocalTalks
      /\ writeFailures \in 0..MaxWriteFailures
      /\ \A id \in Ids : local[id] # None => id \in minted
      /\ offline = [offline EXCEPT ![r] = @ \cup {}]
    BY LocalIsTalks DEF SystemInv, IInv, TypeOK, AppInv, App!TypeOK
<1>2. ASSUME App!failure(r), task[r] # "none",
             App!Complete(r, "failed", "failure") \/ App!Complete(r, "done", "failure")
      PROVE  AppInv'
  <2>1. PICK new \in SUBSET (minted' \ minted) :
             offline' = [offline EXCEPT ![r] = @ \cup new]
    BY <1>2, FailureKeepsFile
  <2>2. /\ minted \subseteq minted' /\ minted' \subseteq Ids
        /\ local' \in App!LocalTalks
        /\ writeFailures' \in 0..MaxWriteFailures
        /\ \A id \in Ids : local'[id] # None => id \in minted'
    BY <1>2, FailureKeepsFile
  <2> QED
    BY <1>2, <2>1, <2>2, CompleteAppInv
<1>3. ASSUME App!Complete(r, "done", "success"), task[r] # "none",
             UNCHANGED <<minted, local, offline, writeFailures>>
      PROVE  AppInv'
    BY <1>1, <1>3, CompleteAppInv
<1>4. ASSUME NEW new \in Talks, \A id \in Ids : new[id] # None => id \in minted,
             App!write(new), task[r] # "none",
             App!Complete(r, "done", "success"), UNCHANGED <<minted, offline>>
      PROVE  AppInv'
  <2>1. /\ local' \in App!LocalTalks
        /\ writeFailures' \in 0..MaxWriteFailures
        /\ \A id \in Ids : local'[id] # None => id \in minted
    BY <1>4, WriteKeepsFile
  <2> QED
    BY <1>1, <1>4, <2>1, CompleteAppInv
<1>5. CASE App!requestError(r)
    BY <1>2, <1>5 DEF App!requestError, App!Completing
<1>6. CASE App!noData(r)
    BY <1>2, <1>6 DEF App!noData
<1>7. CASE App!responseAfterError(r)
    BY <1>3, <1>7 DEF App!responseAfterError
<1>8. CASE App!fetched(r)
  <2>1. App!Realm!replace(local, reply[r].body) = reply[r].body
    BY <1>1, <1>8, BodyIsTalks, ReplaceIsResponse DEF App!fetched
  <2> QED
    BY <1>4, <1>8, <2>1, BodyIsTalks DEF App!fetched, App!Completing
<1>9. CASE App!stored(r)
  <2> DEFINE new == App!Realm!add(local, App!Realm!from(reply[r].body))
  <2>1. /\ reply[r].body \in Talks
        /\ \A id \in Ids : reply[r].body[id] # None => id \in minted
    BY <1>9, BodyIsTalks DEF App!stored
  <2>2. new = [id \in Ids |-> IF reply[r].body[id] # None THEN reply[r].body[id] ELSE local[id]]
    BY <1>1, <2>1, AddIsUpsert
  <2>3. new \in Talks /\ \A id \in Ids : new[id] # None => id \in minted
    BY <1>1, <2>1, <2>2 DEF Talks
  <2> HIDE DEF new
  <2>4. App!write(new)
    BY <1>9 DEF App!stored, new
  <2> QED
    BY <1>4, <1>9, <2>3, <2>4 DEF App!stored, App!Completing
<1>10. CASE App!decoding(r)
    BY <1>2, <1>10 DEF App!decoding, App!Completing
<1>11. CASE App!deleted(r)
    BY <1>3, <1>11 DEF App!deleted, App!Completing
<1> QED
    BY <1>5, <1>6, <1>7, <1>8, <1>9, <1>10, <1>11 DEF App!Completion

\* The steps of the main thread that only look at the file, and the death of
\* the app, keep its invariant.
LEMMA IdleAppInv ==
    ASSUME SystemInv, App!refresh \/ App!appDies, UNCHANGED db
    PROVE  AppInv'
<1>1. /\ UNCHANGED <<minted, call, phase, reply, local, result, offline, writeFailures>>
      /\ shown' = App!Realm!Stored(local)
      /\ task' \in [AppReqs -> App!Tasks]
      /\ \A r \in AppReqs : task'[r] = "none" => task[r] = "none"
    BY DEF App!refresh, App!appDies, SystemInv, AppInv, App!TypeOK, App!Tasks
<1>2. shown' \subseteq minted /\ shown' \subseteq Ids
    BY <1>1 DEF App!Realm!Stored, SystemInv, AppInv
<1>3. OfflineStaysOffline'
    BY <1>1 DEF OfflineStaysOffline, OfflineTalks, SystemInv, AppInv
<1> QED
    BY <1>1, <1>2, <1>3 DEF SystemInv, AppInv, App!TypeOK

\* The initial state of the system satisfies the invariant.
LEMMA SystemInitInv == SystemInit => SystemInv
<1> SUFFICES ASSUME SystemInit PROVE SystemInv
    OBVIOUS
<1>1. IInv
    BY InitIInv DEF SystemInit
<1>2. App!TypeOK
    BY MaxWriteFailuresAssumption
    DEF SystemInit, App!Init, App!TypeOK, App!LocalTalks, App!Tasks, App!Results
<1>3. OfflineStaysOffline
    BY DEF SystemInit, App!Init, OfflineStaysOffline, OfflineTalks
<1> QED
    BY <1>1, <1>2, <1>3, AppReqsAssumption
    DEF SystemInit, Init, App!Init, SystemInv, AppInv, NoCall

\* Every step of the system keeps the invariant.
LEMMA SystemNextInv == SystemInv /\ [SystemNext]_systemVars => SystemInv'
<1> SUFFICES ASSUME SystemInv, [SystemNext]_systemVars PROVE SystemInv'
    OBVIOUS
<1>1. IInv'
    BY SystemStepIsServerStep, NextIInv DEF SystemInv
<1>2. CASE ServerStep
    BY <1>1, <1>2, ServerStepAppInv DEF SystemInv
<1>3. CASE AppStep
    BY <1>1, <1>3, UserAppInv, IdleAppInv, CompletionAppInv DEF AppStep, App!Next, SystemInv
<1>4. CASE UNCHANGED systemVars
    BY <1>1, <1>4
    DEF systemVars, vars, appVars, SystemInv, AppInv, App!TypeOK, OfflineStaysOffline, OfflineTalks
<1> QED
    BY <1>2, <1>3, <1>4 DEF SystemNext

\* The invariant of the system holds in every state of every behaviour.
THEOREM SystemInvariance == SystemSpec => []SystemInv
    BY SystemInitInv, SystemNextInv, PTL DEF SystemSpec

\* App and server stay within their types.
THEOREM SystemTypeCorrect == SystemSpec => []SystemTypeOK
<1>1. SystemInv => SystemTypeOK
    BY DEF SystemInv, IInv, AppInv, SystemTypeOK
<1> QED
    BY <1>1, SystemInvariance, PTL

\* The server in the system is TalksServer: what is proved of the one holds of
\* the other.
THEOREM SystemImplementsServer == SystemSpec => ImplementsTalksServer
<1>1. SystemInit => Init
    BY DEF SystemInit
<1>2. SystemInv /\ [SystemNext]_systemVars => [Next]_vars
    BY SystemStepIsServerStep
<1> QED
    BY <1>1, <1>2, SystemInvariance, PTL DEF SystemSpec, Spec, ImplementsTalksServer

\* A talk created on the device never reaches the server or one of its lists.
THEOREM OfflineTalksStayOffline == SystemSpec => []OfflineStaysOffline
<1>1. SystemInv => OfflineStaysOffline
    BY DEF SystemInv, AppInv
<1> QED
    BY <1>1, SystemInvariance, PTL

\* With the app in play, a DELETE that was answered is still final.
THEOREM DeleteIsFinalInSystem == SystemSpec => []AckedDeleteIsFinal
    BY SystemImplementsServer, DeleteIsFinal, PTL DEF ImplementsTalksServer

-----------------------------------------------------------------------------
(* The action properties.                                                  *)

\* Only the handler of a fetch reports the success of a fetch.
LEMMA SuccessIsFetched ==
    ASSUME SystemInv, [SystemNext]_systemVars, NEW r \in AppReqs,
           call[r].op = "index", result[r] = "pending", result'[r] = "success"
    PROVE  App!fetched(r)
<1>1. result \in [AppReqs -> App!Results]
    BY DEF SystemInv, AppInv, App!TypeOK
<1>2. result' # result
    OBVIOUS
<1>3. AppStep
    BY <1>2 DEF SystemNext, ServerStep, systemVars, appVars
<1>4. ~ App!User /\ ~ App!refresh /\ ~ App!appDies
    BY <1>2
    DEF App!User, App!fetchAll, App!create, App!editingChanged, App!update, App!delete,
        App!request, App!refresh, App!appDies
<1>5. PICK q \in AppReqs : App!Completion(q)
    BY <1>3, <1>4 DEF AppStep, App!Next
<1>6. \E res : result' = [result EXCEPT ![q] = res]
    BY <1>5
    DEF App!Completion, App!requestError, App!noData, App!responseAfterError, App!fetched,
        App!stored, App!decoding, App!deleted, App!Complete
<1>7. q = r
    BY <1>1, <1>6
<1>8. ~ \E next : App!Complete(r, next, "failure")
    BY <1>1 DEF App!Complete
<1> QED
    BY <1>5, <1>7, <1>8
    DEF App!Completion, App!requestError, App!noData, App!responseAfterError, App!fetched,
        App!stored, App!decoding, App!deleted

\* A successful fetch makes the app's file the list of the response, whatever
\* the file held and whatever happened since the request was sent.
THEOREM FetchMirrors == SystemSpec => FetchMirrorsResponse
<1>1. ASSUME SystemInv, [SystemNext]_systemVars, NEW r \in AppReqs PROVE FetchStep(r)
  <2> SUFFICES ASSUME call[r].op = "index", result[r] = "pending", result'[r] = "success",
                      writeFailures' = writeFailures
               PROVE  local' = reply[r].body
    BY DEF FetchStep
  <2>1. App!fetched(r)
    BY <1>1, SuccessIsFetched
  <2>2. local \in Talks /\ reply[r].body \in Talks
    BY <1>1, <2>1, BodyIsTalks, LocalIsTalks DEF App!fetched, SystemInv, AppInv, App!TypeOK
  <2>3. App!write(reply[r].body)
    BY <2>1, <2>2, ReplaceIsResponse DEF App!fetched
  <2>4. writeFailures \in Nat
    BY <1>1, MaxWriteFailuresAssumption DEF SystemInv, AppInv, App!TypeOK
  <2> QED
    BY <2>3, <2>4 DEF App!write
<1>2. SystemInv /\ [SystemNext]_systemVars => \A r \in AppReqs : FetchStep(r)
    BY <1>1
<1> QED
    BY <1>2, SystemInvariance, PTL DEF SystemSpec, FetchMirrorsResponse

\* The talk of an acknowledged deletion is not in the table, and its identifier
\* is used up.
LEMMA GoneIsGone ==
    ASSUME SystemInv, NEW id \in Ids, GoneFor(id)
    PROVE  db[id] = None /\ id \in minted
    BY DeleteNamesMinted
    DEF GoneFor, SystemInv, IInv, AckedDeleteIsFinal, Answered

\* The acknowledgement of a deletion is never taken back.
LEMMA AcknowledgementStays ==
    ASSUME SystemInv, [Next]_vars, NEW d \in Reqs,
           Answered(d, "delete", {"noContent", "notFound"})
    PROVE  Answered(d, "delete", {"noContent", "notFound"})' /\ call'[d] = call[d]
<1>1. /\ phase[d] = "answered"
      /\ phase \in [Reqs -> Phases]
      /\ call \in [Reqs -> Calls \cup {NoCall}]
      /\ reply \in [Reqs -> Replies \cup {None}]
    BY DEF Answered, SystemInv, IInv, TypeOK
<1>2. ASSUME NEW r \in Reqs, NEW status, NEW body, Answer(r, status, body),
             phase[r] # "answered", UNCHANGED call
      PROVE  phase'[d] = phase[d] /\ reply'[d] = reply[d] /\ call'[d] = call[d]
    BY <1>1, <1>2 DEF Answer
<1>3. ASSUME NEW r \in Reqs, Handle(r)
      PROVE  phase'[d] = phase[d] /\ reply'[d] = reply[d] /\ call'[d] = call[d]
  <2>1. CASE refuse(r)
    BY <1>1, <2>1 DEF refuse
  <2>2. CASE deleteLookup(r) /\ db[call[r].id] # None
    BY <1>1, <2>2 DEF deleteLookup, Handling
  <2> QED
    BY <1>2, <1>3, <2>1, <2>2
    DEF Handle, Serve, index, createUndecodable, saveWithId, create, deleteLookup, deleteRow, stub,
        sqlFails, Handling
<1>4. ASSUME Process
      PROVE  phase'[d] = phase[d] /\ reply'[d] = reply[d] /\ call'[d] = call[d]
    BY <1>1, <1>4 DEF Process, start, boot, bootFails, mockData, mockDataFails, crash
<1>5. ASSUME NEW r \in Reqs, NEW c \in Calls, Arrive(r, c)
      PROVE  phase'[d] = phase[d] /\ reply'[d] = reply[d] /\ call'[d] = call[d]
    BY <1>1, <1>5 DEF Arrive
<1>6. phase'[d] = phase[d] /\ reply'[d] = reply[d] /\ call'[d] = call[d]
    BY <1>3, <1>4, <1>5 DEF Next, elsewhere, vars
<1> QED
    BY <1>6 DEF Answered

\* A response of the server to the app does not have a talk that is gone.
LEMMA ServerAnswersGone ==
    ASSUME SystemInv, ServerStep, NEW id \in Ids, GoneFor(id), NEW r \in AppReqs,
           task'[r] = "running", phase'[r] = "answered"
    PROVE  reply'[r].body[id] = None
<1>1. /\ r \in Reqs
      /\ task' = task /\ local' = local
      /\ phase \in [Reqs -> Phases]
      /\ reply \in [Reqs -> Replies \cup {None}]
    BY AppReqsAssumption DEF ServerStep, appVars, SystemInv, IInv, TypeOK
<1>2. db[id] = None /\ id \in minted
    BY GoneIsGone
<1>3. CASE phase[r] = "answered" /\ reply'[r] = reply[r]
    BY <1>1, <1>3 DEF GoneFor
<1>4. ASSUME NEW q \in Reqs, NEW status, NEW body, Answer(q, status, body),
             body[id] = None \/ q # r
      PROVE  reply'[r].body[id] = None
    BY <1>1, <1>3, <1>4 DEF Answer
<1>5. ASSUME NEW q \in Reqs, Handle(q) PROVE reply'[r].body[id] = None
  <2>1. NoTalks[id] = None
    BY DEF NoTalks
  <2>2. CASE refuse(q)
    BY <1>1, <1>3, <2>2 DEF refuse
  <2>3. CASE deleteLookup(q) /\ db[call[q].id] # None
    BY <1>1, <1>3, <2>3 DEF deleteLookup
  <2>4. CASE saveWithId(q)
    <3>1. q # r
      BY <2>4 DEF saveWithId, Handling, SystemInv, AppInv
    <3> QED
      BY <1>4, <2>4, <3>1 DEF saveWithId
  <2>5. CASE create(q)
    <3>1. PICK new \in Ids \ minted : Answer(q, "ok", [NoTalks EXCEPT ![new] = call[q].title])
      BY <2>5 DEF create
    <3>2. [NoTalks EXCEPT ![new] = call[q].title][id] = None
      BY <1>2, <3>1 DEF NoTalks
    <3> QED
      BY <1>4, <3>1, <3>2
  <2> QED
    BY <1>2, <1>4, <1>5, <2>1, <2>2, <2>3, <2>4, <2>5
    DEF Handle, Serve, index, createUndecodable, deleteLookup, deleteRow, stub, sqlFails
<1>6. CASE Process
    BY <1>1, <1>3, <1>6 DEF Process, start, boot, bootFails, mockData, mockDataFails, crash
<1>7. ASSUME NEW q \in Reqs \ AppReqs, NEW c \in Calls, Arrive(q, c)
      PROVE  reply'[r].body[id] = None
    BY <1>1, <1>3, <1>7 DEF Arrive
<1> QED
    BY <1>5, <1>6, <1>7 DEF ServerStep

\* A step of the app does not store a talk that is gone, and gets no response.
LEMMA AppKeepsGone ==
    ASSUME SystemInv, AppStep, NEW id \in Ids, GoneFor(id)
    PROVE  /\ local'[id] = None
           /\ \A r \in AppReqs : task'[r] = "running" /\ phase'[r] = "answered"
                 => reply'[r].body[id] = None
<1> DEFINE InFlight == \A r \in AppReqs : task'[r] = "running" /\ phase'[r] = "answered"
                          => reply'[r].body[id] = None
<1> SUFFICES local'[id] = None /\ InFlight
    OBVIOUS
<1>1. /\ id \in minted
      /\ local[id] = None
      /\ local \in Talks
      /\ task \in [AppReqs -> App!Tasks]
      /\ phase \in [Reqs -> Phases]
    BY GoneIsGone, LocalIsTalks DEF GoneFor, SystemInv, IInv, TypeOK, AppInv, App!TypeOK
<1>2. ASSUME NEW r \in AppReqs, NEW route, App!request(r, route) PROVE InFlight
    BY <1>1, <1>2, AppReqsAssumption DEF App!request, GoneFor
<1>3. CASE App!User
  <2>1. ASSUME NEW i \in Ids, NEW name \in Titles, App!editingChanged(i, name)
        PROVE  local'[id] = None /\ InFlight
    BY <1>1, <2>1 DEF App!editingChanged, App!write, Talks, GoneFor
  <2>2. ASSUME NEW r \in AppReqs, NEW i \in Ids, App!delete(r, i)
        PROVE  local'[id] = None /\ InFlight
    BY <1>1, <1>2, <2>2 DEF App!delete, App!deleteTalk, App!write, Talks
  <2> HIDE DEF InFlight
  <2>3. ASSUME NEW r \in AppReqs, NEW route, App!request(r, route), UNCHANGED local
        PROVE  local'[id] = None /\ InFlight
    BY <1>1, <1>2, <2>3
  <2>4. ASSUME NEW r \in AppReqs, App!fetchAll(r) PROVE local'[id] = None /\ InFlight
    BY <2>3, <2>4 DEF App!fetchAll, App!allTalks
  <2>5. ASSUME NEW r \in AppReqs, NEW title \in Titles, App!create(r, title)
        PROVE  local'[id] = None /\ InFlight
    BY <2>3, <2>5 DEF App!create, App!createTalk
  <2>6. ASSUME NEW r \in AppReqs, NEW i \in Ids, App!update(r, i)
        PROVE  local'[id] = None /\ InFlight
    BY <2>3, <2>6 DEF App!update, App!updateTalk
  <2> QED
    BY <1>3, <2>1, <2>2, <2>4, <2>5, <2>6 DEF App!User
<1>4. CASE App!refresh \/ App!appDies
    BY <1>1, <1>4 DEF App!refresh, App!appDies, GoneFor
<1>5. ASSUME NEW r \in AppReqs, App!Completion(r) PROVE local'[id] = None /\ InFlight
  <2>1. InFlight
    <3>1. UNCHANGED <<phase, reply>> /\ \E next \in {"failed", "done"} :
                                             task' = [task EXCEPT ![r] = next]
      BY <1>5
      DEF App!Completion, App!requestError, App!noData, App!responseAfterError, App!fetched,
          App!stored, App!decoding, App!deleted, App!Complete
    <3> QED
      BY <1>1, <3>1 DEF GoneFor
  <2>2. ASSUME App!failure(r) PROVE local'[id] = None
    BY <1>1, <2>2, FailureKeepsFile
  <2>3. ASSUME App!fetched(r) PROVE local'[id] = None
    <3>1. reply[r].body \in Talks /\ reply[r].body[id] = None
      BY <2>3, BodyIsTalks DEF App!fetched, App!Completing, GoneFor
    <3>2. App!write(reply[r].body)
      BY <1>1, <2>3, <3>1, ReplaceIsResponse DEF App!fetched
    <3> QED
      BY <1>1, <3>1, <3>2 DEF App!write
  <2>4. ASSUME App!stored(r) PROVE local'[id] = None
    <3> DEFINE new == App!Realm!add(local, App!Realm!from(reply[r].body))
    <3>1. reply[r].body \in Talks /\ reply[r].body[id] = None
      BY <2>4, BodyIsTalks DEF App!stored, App!Completing, GoneFor
    <3>2. new[id] = None
      BY <1>1, <3>1, AddIsUpsert
    <3>3. App!write(new)
      BY <2>4 DEF App!stored
    <3> HIDE DEF new
    <3> QED
      BY <1>1, <3>2, <3>3 DEF App!write
  <2> HIDE DEF InFlight
  <2> QED
    BY <1>1, <1>5, <2>1, <2>2, <2>3, <2>4
    DEF App!Completion, App!requestError, App!noData, App!responseAfterError, App!decoding,
        App!deleted
<1> HIDE DEF InFlight
<1> QED
    BY <1>3, <1>4, <1>5 DEF AppStep, App!Next

\* A talk whose deletion was acknowledged, which the app no longer has and
\* which no response on its way still has, never comes back to the app.
THEOREM DeletedStaysDeleted == SystemSpec => DeletedForGood
<1>1. ASSUME SystemInv, [SystemNext]_systemVars, NEW id \in Ids, GoneFor(id)
      PROVE  GoneFor(id)'
  <2>1. PICK d \in Reqs : Answered(d, "delete", {"noContent", "notFound"}) /\ call[d].id = id
    BY <1>1 DEF GoneFor
  <2>2. Answered(d, "delete", {"noContent", "notFound"})' /\ call'[d].id = id
    BY <1>1, <2>1, SystemStepIsServerStep, AcknowledgementStays
  <2>3. /\ local'[id] = None
        /\ \A r \in AppReqs : task'[r] = "running" /\ phase'[r] = "answered"
              => reply'[r].body[id] = None
    <3>1. CASE ServerStep
      <4>1. local' = local /\ local[id] = None
        BY <1>1, <3>1 DEF ServerStep, appVars, GoneFor
      <4> QED
        BY <1>1, <3>1, <4>1, ServerAnswersGone
    <3>2. CASE AppStep
      BY <1>1, <3>2, AppKeepsGone
    <3>3. CASE UNCHANGED systemVars
      BY <1>1, <3>3 DEF systemVars, vars, appVars, GoneFor
    <3> QED
      BY <1>1, <3>1, <3>2, <3>3 DEF SystemNext
  <2> QED
    BY <2>2, <2>3 DEF GoneFor
<1>2. SystemInv /\ [SystemNext]_systemVars => \A id \in Ids : GoneFor(id) => GoneFor(id)'
    BY <1>1
<1> QED
    BY <1>2, SystemInvariance, PTL DEF SystemSpec, DeletedForGood
=============================================================================
