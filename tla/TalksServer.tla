---------------------------- MODULE TalksServer ----------------------------
(***************************************************************************)
(* The Vapor server: the talks routes (TalksController), the SQLite table  *)
(* behind the Talk model, and the seeding of an empty table at boot.       *)
(*                                                                         *)
(* A request is a slot r of Reqs, used once.  Each SQL statement is one    *)
(* step; a handler that awaits between two statements is two actions, and  *)
(* steps of other requests, of the seeding and crashes come in between.    *)
(***************************************************************************)
EXTENDS Naturals

CONSTANTS
    Ids,          \* UUIDs
    Titles,       \* titles that clients write
    Seeds,        \* the mock talks of mockData, told apart by their titles
    Reqs,         \* requests
    Environments, \* the environments the process may be started in
    MaxCrashes,   \* bound on the number of crashes of the process
    None          \* the absent value (Swift's nil)

ASSUME TitlesAssumption ==
    /\ Titles \cap Seeds = {}
    /\ None \notin Titles \cup Seeds \cup Ids

ASSUME MaxCrashesAssumption == MaxCrashes \in Nat

VARIABLES
    db,        \* db[id]: the title of the row with that primary key, or None
    minted,    \* the UUIDs generated so far, by the server or elsewhere
    call,      \* call[r]: what request r asks for
    phase,     \* phase[r]: how far request r is
    reply,     \* reply[r]: the HTTP response to request r, or None
    proc,      \* the server process
    seedsLeft, \* the saves started by mockData and not yet executed
    crashes    \* number of crashes so far

vars == <<db, minted, call, phase, reply, proc, seedsLeft, crashes>>

Texts == Titles \cup Seeds
Talks == [Ids -> Texts \cup {None}]

\* The routes of TalksController.boot; an id or a title the route or the body
\* does not carry is None, and so is the body of a PUT, which nobody reads.
Calls ==
    [op : {"index"}, id : {None}, title : {None}]
    \cup [op : {"get", "update", "delete"}, id : Ids, title : {None}]
    \cup [op : {"create"}, id : Ids \cup {None}, title : Titles \cup {None}]

NoCall == [op |-> "none", id |-> None, title |-> None]

Phases   == {"idle", "sent", "located", "answered", "lost"}
Statuses == {"ok", "noContent", "badRequest", "notFound", "internalServerError"}
Replies  == [status : Statuses, body : Talks]

ASSUME ReplyAssumption == None \notin Replies

NoTalks == [id \in Ids |-> None]

TypeOK ==
    /\ db \in Talks
    /\ minted \in SUBSET Ids
    /\ call \in [Reqs -> Calls \cup {NoCall}]
    /\ phase \in [Reqs -> Phases]
    /\ reply \in [Reqs -> Replies \cup {None}]
    /\ proc \in {"down", "checking", "ready"}
    /\ seedsLeft \in SUBSET Seeds
    /\ crashes \in 0..MaxCrashes

Init ==
    /\ db = NoTalks
    /\ minted = {}
    /\ call = [r \in Reqs |-> NoCall]
    /\ phase = [r \in Reqs |-> "idle"]
    /\ reply = [r \in Reqs |-> None]
    /\ proc = "down"
    /\ seedsLeft = {}
    /\ crashes = 0

-----------------------------------------------------------------------------
(* The process: start, seeding, crash.                                     *)

\* app(_:) configures the application and calls boot(_:), which outside of
\* testing starts the query that decides on seeding and does not wait for it;
\* the process serves requests from then on.
start(env) ==
    /\ proc = "down"
    /\ proc' = IF env = "testing" THEN "ready" ELSE "checking"
    /\ UNCHANGED <<db, minted, call, phase, reply, seedsLeft, crashes>>

\* boot without its guard: the mock talks are saved at every start.
bootUnguarded ==
    /\ proc = "checking"
    /\ proc' = "ready"
    /\ seedsLeft' = Seeds
    /\ UNCHANGED <<db, minted, call, phase, reply, crashes>>

\* The query of boot(_:) is answered: mockData starts all its saves at once
\* if the table is empty.  Nothing waits for them.
boot ==
    /\ proc = "checking"
    /\ proc' = "ready"
    /\ seedsLeft' = IF db = NoTalks THEN Seeds ELSE {}
    /\ UNCHANGED <<db, minted, call, phase, reply, crashes>>

\* The query fails: its future is discarded, so nobody notices.
bootFails ==
    /\ proc = "checking"
    /\ proc' = "ready"
    /\ UNCHANGED <<db, minted, call, phase, reply, seedsLeft, crashes>>

\* One of mockData's saves is executed, in any order.
mockData(s) ==
    /\ s \in seedsLeft
    /\ seedsLeft' = seedsLeft \ {s}
    /\ \E id \in Ids \ minted :
          /\ db' = [db EXCEPT ![id] = s]
          /\ minted' = minted \cup {id}
    /\ UNCHANGED <<call, phase, reply, proc, crashes>>

\* One of them fails; its future is discarded too.
mockDataFails(s) ==
    /\ s \in seedsLeft
    /\ seedsLeft' = seedsLeft \ {s}
    /\ UNCHANGED <<db, minted, call, phase, reply, proc, crashes>>

\* A crash with the database in memory instead of in db.sqlite.
crashInMemory ==
    /\ proc # "down"
    /\ crashes < MaxCrashes
    /\ crashes' = crashes + 1
    /\ proc' = "down"
    /\ seedsLeft' = {}
    /\ db' = NoTalks
    /\ phase' = [r \in Reqs |->
                    IF phase[r] \in {"sent", "located"} THEN "lost" ELSE phase[r]]
    /\ UNCHANGED <<minted, call, reply>>

\* The process dies: pending saves and requests go with it, the file stays.
crash ==
    /\ proc # "down"
    /\ crashes < MaxCrashes
    /\ crashes' = crashes + 1
    /\ proc' = "down"
    /\ seedsLeft' = {}
    /\ phase' = [r \in Reqs |->
                    IF phase[r] \in {"sent", "located"} THEN "lost" ELSE phase[r]]
    /\ UNCHANGED <<db, minted, call, reply>>

-----------------------------------------------------------------------------
(* The requests.                                                           *)

\* A UUID is generated outside the server (the app names the talks it creates
\* on the device).
elsewhere(id) ==
    /\ id \in Ids \ minted
    /\ minted' = minted \cup {id}
    /\ UNCHANGED <<db, call, phase, reply, proc, seedsLeft, crashes>>

\* A client sends a request.  It can only name an identifier it may have seen.
Arrive(r, c) ==
    /\ phase[r] = "idle"
    /\ c.id # None => c.id \in minted
    /\ call' = [call EXCEPT ![r] = c]
    /\ phase' = [phase EXCEPT ![r] = "sent"]
    /\ UNCHANGED <<db, minted, reply, proc, seedsLeft, crashes>>

\* Nobody listens on the port.
refuse(r) ==
    /\ proc = "down"
    /\ phase[r] = "sent"
    /\ phase' = [phase EXCEPT ![r] = "lost"]
    /\ UNCHANGED <<db, minted, call, reply, proc, seedsLeft, crashes>>

Handling(r, op) ==
    /\ proc # "down"
    /\ phase[r] = "sent"
    /\ call[r].op = op

Answer(r, status, body) ==
    /\ phase' = [phase EXCEPT ![r] = "answered"]
    /\ reply' = [reply EXCEPT ![r] = [status |-> status, body |-> body]]

index(r) ==
    /\ Handling(r, "index")
    /\ Answer(r, "ok", db)
    /\ UNCHANGED <<db, minted, call, proc, seedsLeft, crashes>>

\* The body has no title, which Talk requires: it does not decode.
createUndecodable(r) ==
    /\ Handling(r, "create")
    /\ call[r].title = None
    /\ Answer(r, "badRequest", NoTalks)
    /\ UNCHANGED <<db, minted, call, proc, seedsLeft, crashes>>

\* A create that brings back the row of the identifier in the body.
saveWithIdUpsert(r) ==
    /\ Handling(r, "create")
    /\ call[r].title # None
    /\ call[r].id # None
    /\ db' = [db EXCEPT ![call[r].id] = call[r].title]
    /\ Answer(r, "ok", [NoTalks EXCEPT ![call[r].id] = call[r].title])
    /\ UNCHANGED <<minted, call, proc, seedsLeft, crashes>>

\* talk.save(on:) of a talk that has an identifier is an UPDATE of its row,
\* and is answered with the talk whether or not there was such a row.
saveWithId(r) ==
    /\ Handling(r, "create")
    /\ call[r].title # None
    /\ call[r].id # None
    /\ db' = [db EXCEPT ![call[r].id] = IF @ = None THEN None ELSE call[r].title]
    /\ Answer(r, "ok", [NoTalks EXCEPT ![call[r].id] = call[r].title])
    /\ UNCHANGED <<minted, call, proc, seedsLeft, crashes>>

\* talk.save(on:) of a talk without one is an INSERT under a new UUID.
create(r) ==
    /\ Handling(r, "create")
    /\ call[r].title # None
    /\ call[r].id = None
    /\ \E id \in Ids \ minted :
          /\ db' = [db EXCEPT ![id] = call[r].title]
          /\ minted' = minted \cup {id}
          /\ Answer(r, "ok", [NoTalks EXCEPT ![id] = call[r].title])
    /\ UNCHANGED <<call, proc, seedsLeft, crashes>>

\* A delete that answers without waiting for the row to be removed.
deleteLookupEager(r) ==
    /\ Handling(r, "delete")
    /\ IF db[call[r].id] = None
         THEN Answer(r, "notFound", NoTalks)
         ELSE Answer(r, "noContent", NoTalks)
    /\ UNCHANGED <<db, minted, call, proc, seedsLeft, crashes>>

\* delete, first half: req.parameters.next(Talk.self) looks the talk up.
deleteLookup(r) ==
    /\ Handling(r, "delete")
    /\ IF db[call[r].id] = None
         THEN Answer(r, "notFound", NoTalks)
         ELSE phase' = [phase EXCEPT ![r] = "located"] /\ UNCHANGED reply
    /\ UNCHANGED <<db, minted, call, proc, seedsLeft, crashes>>

\* A delete that waits for a row to be removed, and so for ever if another
\* request has removed it.
deleteRowAwaited(r) ==
    /\ proc # "down"
    /\ phase[r] = "located"
    /\ db[call[r].id] # None
    /\ db' = [db EXCEPT ![call[r].id] = None]
    /\ Answer(r, "noContent", NoTalks)
    /\ UNCHANGED <<minted, call, proc, seedsLeft, crashes>>

\* delete, second half: talk.delete(on:) removes the row, if it is still
\* there, and the answer is .noContent either way.
deleteRow(r) ==
    /\ proc # "down"
    /\ phase[r] = "located"
    /\ db' = [db EXCEPT ![call[r].id] = None]
    /\ Answer(r, "noContent", NoTalks)
    /\ UNCHANGED <<minted, call, proc, seedsLeft, crashes>>

\* A stub whose error response carries no body to decode.
stubNoBody(r) ==
    /\ Handling(r, "get") \/ Handling(r, "update")
    /\ Answer(r, "notFound", None)
    /\ UNCHANGED <<db, minted, call, proc, seedsLeft, crashes>>

\* get and update are stubs that throw Abort(.notFound).
stub(r) ==
    /\ Handling(r, "get") \/ Handling(r, "update")
    /\ Answer(r, "notFound", NoTalks)
    /\ UNCHANGED <<db, minted, call, proc, seedsLeft, crashes>>

\* The SQL statement of the current step fails; ErrorMiddleware answers.
sqlFails(r) ==
    /\ proc # "down"
    /\ \/ phase[r] = "located"
       \/ phase[r] = "sent" /\ call[r].op \in {"index", "delete"}
       \/ phase[r] = "sent" /\ call[r].op = "create" /\ call[r].title # None
    /\ Answer(r, "internalServerError", NoTalks)
    /\ UNCHANGED <<db, minted, call, proc, seedsLeft, crashes>>

\* What the server does of itself for a request, the database working.
Serve(r) ==
    \/ refuse(r)
    \/ index(r)
    \/ createUndecodable(r)
    \/ saveWithId(r)
    \/ create(r)
    \/ deleteLookup(r)
    \/ deleteRow(r)
    \/ stub(r)

Handle(r) == Serve(r) \/ sqlFails(r)

Process ==
    \/ \E env \in Environments : start(env)
    \/ boot
    \/ bootFails
    \/ \E s \in Seeds : mockData(s) \/ mockDataFails(s)
    \/ crash

Next ==
    \/ Process
    \/ \E r \in Reqs : Handle(r)
    \/ \E r \in Reqs, c \in Calls : Arrive(r, c)
    \/ \E id \in Ids : elsewhere(id)

Spec == Init /\ [][Next]_vars

\* The event loop gets to every request that is on it, and a connection to a
\* port nobody listens on is refused: neither waits for another request.  That
\* a statement fails is never assumed.
Fairness == \A r \in Reqs : WF_vars(Serve(r))

FairSpec == Spec /\ Fairness

-----------------------------------------------------------------------------
(* Properties.                                                             *)

Answered(r, op, statuses) ==
    /\ phase[r] = "answered"
    /\ call[r].op = op
    /\ reply[r].status \in statuses

\* A DELETE answered .noContent or .notFound is final: the talk is not in the
\* table, and no later save, seed, restart or racing request brings it back
\* (TalksController.delete, lookup and removal being two statements).
AckedDeleteIsFinal ==
    \A r \in Reqs :
        Answered(r, "delete", {"noContent", "notFound"}) => db[call[r].id] = None

\* A POST without identifier that was answered 200 is durable: its talk is in
\* the table, over crashes and restarts, unless a DELETE of that talk was sent
\* (TalksController.create, and the database file of configure).
AckedCreateIsDurable ==
    \A r \in Reqs :
        Answered(r, "create", {"ok"}) /\ call[r].id = None =>
            \A id \in Ids :
                reply[r].body[id] # None =>
                    \/ db[id] # None
                    \/ \E d \in Reqs : call[d].op = "delete" /\ call[d].id = id

\* A POST that was answered 200 has saved its talk, with or without an
\* identifier in the body, unless a DELETE of that talk was sent.
SavedTalkIsStored ==
    \A r \in Reqs :
        Answered(r, "create", {"ok"}) =>
            \A id \in Ids :
                reply[r].body[id] # None =>
                    \/ db[id] # None
                    \/ \E d \in Reqs : call[d].op = "delete" /\ call[d].id = id

\* The mock talks are never duplicated: over crashes in the middle of the
\* seeding, restarts and a table emptied by its clients, no mock talk is in
\* the table twice, or in it and still to be saved (boot and mockData).
SeededOnce ==
    \A s \in Seeds :
        /\ \A i, j \in Ids : db[i] = s /\ db[j] = s => i = j
        /\ s \in seedsLeft => \A i \in Ids : db[i] # s

\* How the requests and the table relate in every reachable state: what a row
\* or a request names has been generated before, a request that is being
\* handled or is answered has a call of its kind, and a response has content.
Wellformed ==
    /\ \A id \in Ids : db[id] # None => id \in minted
    /\ \A r \in Reqs :
          /\ call[r].id # None => call[r].id \in minted
          /\ phase[r] = "idle" <=> call[r] = NoCall
          /\ phase[r] = "located" => call[r].op = "delete"
          /\ phase[r] = "answered" <=> reply[r] # None

\* The invariant that TalksServerProofs shows to be inductive.
IInv ==
    /\ TypeOK
    /\ Wellformed
    /\ AckedDeleteIsFinal
    /\ AckedCreateIsDurable
    /\ SeededOnce

Store == INSTANCE TalkStore WITH
            talks <- db,
            used  <- minted

\* The server implements TalkStore: in particular an identifier whose talk was
\* deleted is never stored again (TalksController and the Talk model).
ImplementsTalkStore == Store!Spec

\* The bound on identifiers is reached: an INSERT has no new UUID to take.
NoIdLeft(r) == minted = Ids /\ call[r].op = "create" /\ call[r].id = None

\* Every request that reaches the server is answered, or lost with a crash:
\* no handler waits forever, not even the second of two racing DELETEs, and none
\* depends on a failing statement to get out.
EveryRequestSettles ==
    \A r \in Reqs :
        phase[r] = "sent" ~> phase[r] \in {"answered", "lost"} \/ NoIdLeft(r)
=============================================================================
