------------------------- MODULE TalksServerProofs -------------------------
(***************************************************************************)
(* The safety properties of TalksServer for every set of identifiers,      *)
(* titles, mock talks, requests and environments and any number of         *)
(* crashes: IInv is inductive, and under it every step is a step of        *)
(* TalkStore.                                                              *)
(***************************************************************************)
EXTENDS TalksServer, TLAPS

\* Facts about the vocabulary that every proof below needs: a call is a record
\* whose title is a client's title or None, and the absent values are no talks.
LEMMA Vocabulary ==
    /\ \A c \in Calls : /\ c.id \in Ids \cup {None}
                        /\ c.title \in Titles \cup {None}
                        /\ c.op = "delete" => c.id \in Ids
                        /\ c # NoCall
    /\ NoTalks \in Talks
    /\ \A text \in Texts : text # None
BY TitlesAssumption DEF Calls, NoCall, NoTalks, Talks, Texts

\* A delete names a talk whose identifier was generated before.
LEMMA DeleteNamesMinted ==
    ASSUME TypeOK, Wellformed, NEW r \in Reqs, call[r].op = "delete"
    PROVE  call[r].id \in Ids \cap minted
<1>1. call[r] \in Calls
    BY DEF TypeOK, NoCall
<1>2. call[r].id \in Ids
    BY <1>1, Vocabulary
<1> QED
    BY <1>2, TitlesAssumption DEF Wellformed

\* The initial state satisfies the inductive invariant.
LEMMA InitIInv == Init => IInv
<1> SUFFICES ASSUME Init PROVE IInv
    OBVIOUS
<1>1. TypeOK
    BY Vocabulary, MaxCrashesAssumption
    DEF Init, TypeOK, Phases
<1>2. Wellformed
    BY DEF Init, Wellformed, NoTalks, NoCall
<1>3. AckedDeleteIsFinal /\ AckedCreateIsDurable /\ SeededOnce
    BY TitlesAssumption
    DEF Init, AckedDeleteIsFinal, AckedCreateIsDurable, SeededOnce, Answered, NoTalks
<1> QED
    BY <1>1, <1>2, <1>3 DEF IInv

\* A response alone keeps the invariant, if it does not acknowledge a removal
\* that has not happened or a creation.
LEMMA ResponseIInv ==
    ASSUME IInv,
           NEW r \in Reqs, phase[r] \in {"sent", "located"},
           NEW status \in Statuses, NEW body \in Talks,
           Answer(r, status, body),
           UNCHANGED <<db, minted, call, proc, seedsLeft, crashes>>,
           call[r].op = "create" => status # "ok",
           call[r].op = "delete" /\ status \in {"noContent", "notFound"}
               => db[call[r].id] = None
    PROVE  IInv'
<1> USE DEF IInv, Answer
<1>1. /\ phase' = [phase EXCEPT ![r] = "answered"]
      /\ reply' = [reply EXCEPT ![r] = [status |-> status, body |-> body]]
      /\ [status |-> status, body |-> body] \in Replies
    BY DEF Replies
<1>2. TypeOK'
    BY <1>1 DEF TypeOK, Phases
<1>3. [status |-> status, body |-> body] # None
    BY ReplyAssumption, <1>1
<1>4. Wellformed'
    BY <1>1, <1>3 DEF Wellformed, TypeOK
<1>5. AckedDeleteIsFinal'
    BY <1>1 DEF AckedDeleteIsFinal, Answered, TypeOK
<1>6. AckedCreateIsDurable'
    BY <1>1 DEF AckedCreateIsDurable, Answered, TypeOK
<1>7. SeededOnce'
    BY DEF SeededOnce
<1> QED
    BY <1>2, <1>4, <1>5, <1>6, <1>7

\* The steps of the process keep the invariant.
LEMMA ProcessIInv == IInv /\ Process => IInv'
<1> SUFFICES ASSUME IInv, Process PROVE IInv'
    OBVIOUS
<1> USE DEF IInv
<1>1. CASE \E env \in Environments : start(env)
  <2>1. TypeOK'
    BY <1>1 DEF start, TypeOK
  <2> QED
    BY <1>1, <2>1
    DEF start, Wellformed, AckedDeleteIsFinal, AckedCreateIsDurable, SeededOnce, Answered
<1>2. CASE boot
  <2>1. TypeOK'
    BY <1>2 DEF boot, TypeOK
  <2>2. SeededOnce'
    BY <1>2, TitlesAssumption DEF boot, SeededOnce, NoTalks
  <2> QED
    BY <1>2, <2>1, <2>2
    DEF boot, Wellformed, AckedDeleteIsFinal, AckedCreateIsDurable, Answered
<1>3. CASE bootFails
  <2>1. TypeOK'
    BY <1>3 DEF bootFails, TypeOK
  <2> QED
    BY <1>3, <2>1
    DEF bootFails, Wellformed, AckedDeleteIsFinal, AckedCreateIsDurable, SeededOnce, Answered
<1>4. ASSUME NEW s \in Seeds, mockData(s) PROVE IInv'
  <2>1. PICK id \in Ids \ minted : /\ db' = [db EXCEPT ![id] = s]
                                   /\ minted' = minted \cup {id}
    BY <1>4 DEF mockData
  <2>2. s # None /\ s \in Texts
    BY TitlesAssumption DEF Texts
  <2>3. TypeOK'
    BY <1>4, <2>1, <2>2 DEF mockData, TypeOK, Talks
  <2>4. Wellformed'
    BY <1>4, <2>1 DEF mockData, Wellformed, TypeOK, Talks
  <2>5. AckedDeleteIsFinal'
    BY <1>4, <2>1, DeleteNamesMinted DEF mockData, AckedDeleteIsFinal, Answered, TypeOK, Talks
  <2>6. AckedCreateIsDurable'
    BY <1>4, <2>1, <2>2 DEF mockData, AckedCreateIsDurable, Answered, TypeOK, Talks
  <2>7. SeededOnce'
    BY <1>4, <2>1 DEF mockData, SeededOnce, TypeOK, Talks
  <2> QED
    BY <2>3, <2>4, <2>5, <2>6, <2>7
<1>5. ASSUME NEW s \in Seeds, mockDataFails(s) PROVE IInv'
  <2>1. TypeOK'
    BY <1>5 DEF mockDataFails, TypeOK
  <2> QED
    BY <1>5, <2>1
    DEF mockDataFails, Wellformed, AckedDeleteIsFinal, AckedCreateIsDurable, SeededOnce, Answered
<1>6. CASE crash
  <2>1. TypeOK'
    BY <1>6, MaxCrashesAssumption DEF crash, TypeOK, Phases
  <2>2. Wellformed'
    BY <1>6 DEF crash, Wellformed, TypeOK
  <2>3. AckedDeleteIsFinal' /\ AckedCreateIsDurable'
    BY <1>6 DEF crash, AckedDeleteIsFinal, AckedCreateIsDurable, Answered, TypeOK
  <2>4. SeededOnce'
    BY <1>6 DEF crash, SeededOnce
  <2> QED
    BY <2>1, <2>2, <2>3, <2>4
<1> QED
    BY <1>1, <1>2, <1>3, <1>4, <1>5, <1>6 DEF Process

\* The steps that only answer keep the invariant (all but the three that write
\* a row, the loss of a request and the successful lookup of a delete).
LEMMA ReadOnlyIInv ==
    ASSUME IInv, NEW r \in Reqs,
           index(r) \/ createUndecodable(r) \/ stub(r) \/ sqlFails(r)
    PROVE  IInv'
<1> USE DEF IInv
<1>1. NoTalks \in Talks
    BY Vocabulary
<1>2. CASE index(r)
    BY <1>2, ResponseIInv DEF index, Handling, TypeOK, Statuses
<1>3. CASE createUndecodable(r)
    BY <1>1, <1>3, ResponseIInv DEF createUndecodable, Handling, Statuses
<1>4. CASE stub(r)
    BY <1>1, <1>4, ResponseIInv DEF stub, Handling, Statuses
<1>5. CASE sqlFails(r)
    BY <1>1, <1>5, ResponseIInv DEF sqlFails, Statuses
<1> QED
    BY <1>2, <1>3, <1>4, <1>5

\* The steps of one request keep the invariant.
LEMMA HandleIInv ==
    ASSUME IInv, NEW r \in Reqs, Handle(r)
    PROVE  IInv'
<1> USE DEF IInv
<1>1. CASE refuse(r)
  <2>1. TypeOK' /\ Wellformed'
    BY <1>1 DEF refuse, TypeOK, Phases, Wellformed
  <2>2. AckedDeleteIsFinal' /\ AckedCreateIsDurable' /\ SeededOnce'
    BY <1>1
    DEF refuse, AckedDeleteIsFinal, AckedCreateIsDurable, SeededOnce, Answered, TypeOK
  <2> QED
    BY <2>1, <2>2
<1>2. CASE index(r) \/ createUndecodable(r) \/ stub(r) \/ sqlFails(r)
    BY <1>2, ReadOnlyIInv
<1>3. CASE deleteLookup(r)
  <2>1. CASE db[call[r].id] = None
    BY <1>3, <2>1, Vocabulary, ResponseIInv DEF deleteLookup, Handling, Statuses
  <2>2. CASE db[call[r].id] # None
    <3>1. /\ phase[r] = "sent"
          /\ call[r].op = "delete"
          /\ phase' = [phase EXCEPT ![r] = "located"]
          /\ UNCHANGED <<db, minted, call, reply, proc, seedsLeft, crashes>>
      BY <1>3, <2>2 DEF deleteLookup, Handling
    <3>2. TypeOK' /\ Wellformed'
      BY <3>1 DEF TypeOK, Phases, Wellformed
    <3>3. AckedDeleteIsFinal' /\ AckedCreateIsDurable' /\ SeededOnce'
      BY <3>1 DEF AckedDeleteIsFinal, AckedCreateIsDurable, SeededOnce, Answered, TypeOK
    <3> QED
      BY <3>2, <3>3
  <2> QED
    BY <2>1, <2>2
<1>4. CASE deleteRow(r)
  <2> DEFINE answer == [status |-> "noContent", body |-> NoTalks]
  <2>1. call[r].op = "delete" /\ call[r].id \in Ids
    BY <1>4, DeleteNamesMinted DEF deleteRow, Wellformed
  <2>2. /\ phase[r] = "located"
        /\ db' = [db EXCEPT ![call[r].id] = None]
        /\ phase' = [phase EXCEPT ![r] = "answered"]
        /\ reply' = [reply EXCEPT ![r] = answer]
        /\ UNCHANGED <<minted, call, proc, seedsLeft, crashes>>
    BY <1>4 DEF deleteRow, Answer
  <2>3. answer \in Replies /\ answer # None
    BY Vocabulary, ReplyAssumption DEF Replies, Statuses
  <2> HIDE DEF answer
  <2>4. TypeOK'
    BY <2>1, <2>2, <2>3 DEF TypeOK, Talks, Phases
  <2>5. Wellformed'
    BY <2>1, <2>2, <2>3 DEF Wellformed, TypeOK, Talks
  <2>6. AckedDeleteIsFinal'
    BY <2>1, <2>2, DeleteNamesMinted DEF AckedDeleteIsFinal, Answered, TypeOK, Talks
  <2>7. AckedCreateIsDurable'
    BY <2>1, <2>2 DEF AckedCreateIsDurable, Answered, TypeOK, Talks
  <2>8. SeededOnce'
    BY <2>1, <2>2, TitlesAssumption DEF SeededOnce, TypeOK, Talks
  <2> QED
    BY <2>4, <2>5, <2>6, <2>7, <2>8
<1>5. CASE saveWithId(r)
  <2> DEFINE body == [NoTalks EXCEPT ![call[r].id] = call[r].title]
             answer == [status |-> "ok", body |-> body]
             row == IF db[call[r].id] = None THEN None ELSE call[r].title
  <2>1. /\ phase[r] = "sent" /\ call[r].op = "create" /\ call[r].id # None
        /\ call[r].title # None
        /\ db' = [db EXCEPT ![call[r].id] = row]
        /\ phase' = [phase EXCEPT ![r] = "answered"]
        /\ reply' = [reply EXCEPT ![r] = answer]
        /\ UNCHANGED <<minted, call, proc, seedsLeft, crashes>>
    BY <1>5 DEF saveWithId, Answer, Handling
  <2>2. call[r] \in Calls
    BY <2>1 DEF TypeOK, NoCall
  <2>3. call[r].id \in Ids /\ call[r].title \in Titles /\ call[r].title \in Texts
    BY <2>1, <2>2, Vocabulary DEF Texts
  <2>4. answer \in Replies /\ answer # None
    BY <2>3, ReplyAssumption DEF Replies, Statuses, Talks, NoTalks
  <2>5. row \in Titles \cup {None} /\ row \in Texts \cup {None}
    BY <2>3
  <2>6. row = None <=> db[call[r].id] = None
    BY <2>1
  <2> HIDE DEF answer, row
  <2>7. TypeOK'
    BY <2>1, <2>3, <2>4, <2>5 DEF TypeOK, Talks, Phases
  <2>8. Wellformed'
    BY <2>1, <2>3, <2>4, <2>6 DEF Wellformed, TypeOK, Talks
  <2>9. AckedDeleteIsFinal'
    BY <2>1, <2>3, <2>6, DeleteNamesMinted DEF AckedDeleteIsFinal, Answered, TypeOK, Talks
  <2>10. AckedCreateIsDurable'
    BY <2>1, <2>3, <2>6 DEF AckedCreateIsDurable, Answered, TypeOK, Talks
  <2>11. SeededOnce'
    BY <2>1, <2>3, <2>5, TitlesAssumption DEF SeededOnce, TypeOK, Talks
  <2> QED
    BY <2>7, <2>8, <2>9, <2>10, <2>11
<1>6. CASE create(r)
  <2>1. /\ phase[r] = "sent" /\ call[r].op = "create" /\ call[r].id = None
        /\ call[r].title # None
        /\ UNCHANGED <<call, proc, seedsLeft, crashes>>
    BY <1>6 DEF create, Handling
  <2>2. call[r] \in Calls
    BY <2>1 DEF TypeOK, NoCall
  <2>3. call[r].title \in Titles /\ call[r].title \in Texts
    BY <2>1, <2>2, Vocabulary DEF Texts
  <2>4. PICK id \in Ids \ minted :
             /\ db' = [db EXCEPT ![id] = call[r].title]
             /\ minted' = minted \cup {id}
             /\ Answer(r, "ok", [NoTalks EXCEPT ![id] = call[r].title])
    BY <1>6 DEF create
  <2> DEFINE body == [NoTalks EXCEPT ![id] = call[r].title]
             answer == [status |-> "ok", body |-> body]
  <2>5. /\ phase' = [phase EXCEPT ![r] = "answered"]
        /\ reply' = [reply EXCEPT ![r] = answer]
    BY <2>4 DEF Answer
  <2>6. answer \in Replies /\ answer # None
    BY <2>3, ReplyAssumption DEF Replies, Statuses, Talks, NoTalks
  <2>7. \A i \in Ids : answer.body[i] # None => i = id
    BY DEF NoTalks
  <2> HIDE DEF answer
  <2>8. TypeOK'
    BY <2>1, <2>3, <2>4, <2>5, <2>6 DEF TypeOK, Talks, Phases
  <2>9. Wellformed'
    BY <2>1, <2>4, <2>5, <2>6 DEF Wellformed, TypeOK, Talks
  <2>10. AckedDeleteIsFinal'
    BY <2>1, <2>4, <2>5, DeleteNamesMinted DEF AckedDeleteIsFinal, Answered, TypeOK, Talks
  <2>11. AckedCreateIsDurable'
    BY <2>1, <2>4, <2>5, <2>7 DEF AckedCreateIsDurable, Answered, TypeOK, Talks
  <2>12. SeededOnce'
    BY <2>1, <2>3, <2>4, TitlesAssumption DEF SeededOnce, TypeOK, Talks
  <2> QED
    BY <2>8, <2>9, <2>10, <2>11, <2>12
<1> QED
    BY <1>1, <1>2, <1>3, <1>4, <1>5, <1>6 DEF Handle, Serve

\* A request that arrives keeps the invariant.
LEMMA ArriveIInv ==
    ASSUME IInv, NEW r \in Reqs, NEW c \in Calls, Arrive(r, c)
    PROVE  IInv'
<1> USE DEF IInv, Arrive
<1>1. TypeOK'
    BY DEF TypeOK, Phases
<1>2. Wellformed'
    BY Vocabulary DEF Wellformed, TypeOK
<1>3. AckedDeleteIsFinal'
    BY DEF AckedDeleteIsFinal, Answered, TypeOK
<1>4. AckedCreateIsDurable'
    BY DEF AckedCreateIsDurable, Answered, TypeOK, Wellformed, NoCall
<1>5. SeededOnce'
    BY DEF SeededOnce
<1> QED
    BY <1>1, <1>2, <1>3, <1>4, <1>5

\* An identifier generated elsewhere keeps the invariant.
LEMMA ElsewhereIInv ==
    ASSUME IInv, NEW id \in Ids, elsewhere(id)
    PROVE  IInv'
<1> USE DEF IInv, elsewhere
<1>1. TypeOK' /\ Wellformed'
    BY DEF TypeOK, Wellformed
<1> QED
    BY <1>1 DEF AckedDeleteIsFinal, AckedCreateIsDurable, SeededOnce, Answered

\* Every step keeps the invariant.
LEMMA NextIInv == IInv /\ [Next]_vars => IInv'
<1>1. IInv /\ UNCHANGED vars => IInv'
    BY DEF IInv, vars, TypeOK, Wellformed, AckedDeleteIsFinal, AckedCreateIsDurable,
           SeededOnce, Answered
<1> QED
    BY <1>1, ProcessIInv, HandleIInv, ArriveIInv, ElsewhereIInv DEF Next

\* IInv holds in every state of every behaviour.
THEOREM Invariance == Spec => []IInv
    BY InitIInv, NextIInv, PTL DEF Spec

\* Every behaviour of the server is well typed: TypeOK holds in every state.
THEOREM TypeCorrect == Spec => []TypeOK
<1>1. IInv => TypeOK
    BY DEF IInv
<1> QED
    BY <1>1, Invariance, PTL

\* A DELETE that was answered is final, over any number of racing requests,
\* seeds and restarts: nothing brings the talk back.
THEOREM DeleteIsFinal == Spec => []AckedDeleteIsFinal
<1>1. IInv => AckedDeleteIsFinal
    BY DEF IInv
<1> QED
    BY <1>1, Invariance, PTL

\* A POST that was answered is durable until a client asks for its deletion.
THEOREM CreateIsDurable == Spec => []AckedCreateIsDurable
<1>1. IInv => AckedCreateIsDurable
    BY DEF IInv
<1> QED
    BY <1>1, Invariance, PTL

\* No mock talk is ever stored twice, whenever the process crashes.
THEOREM NeverSeededTwice == Spec => []SeededOnce
<1>1. IInv => SeededOnce
    BY DEF IInv
<1> QED
    BY <1>1, Invariance, PTL

-----------------------------------------------------------------------------
(* The server implements TalkStore.                                        *)

\* A row stored under a new identifier is an Add of the abstract store.
LEMMA InsertIsAdd ==
    ASSUME IInv, NEW id \in Ids \ minted, NEW text \in Texts,
           db' = [db EXCEPT ![id] = text],
           minted' = minted \cup {id}
    PROVE  Store!Next
<1>1. db[id] = None
    BY DEF IInv, Wellformed
<1> QED
    BY <1>1 DEF Store!Next, Store!Add

\* A row that is overwritten is a Rewrite, a save without a row is nothing.
LEMMA SaveIsRewrite ==
    ASSUME IInv, NEW r \in Reqs, saveWithId(r)
    PROVE  [Store!Next]_(Store!vars)
<1>1. call[r] \in Calls
    BY DEF IInv, TypeOK, NoCall, saveWithId, Handling
<1>2. call[r].id \in Ids /\ call[r].title \in Texts
    BY <1>1, Vocabulary DEF saveWithId, Texts
<1>3. CASE db[call[r].id] = None
    BY <1>2, <1>3 DEF saveWithId, IInv, TypeOK, Talks, Store!vars
<1>4. CASE db[call[r].id] # None
    BY <1>2, <1>4 DEF saveWithId, Store!Next, Store!Rewrite
<1> QED
    BY <1>3, <1>4

\* A row that is deleted is a Remove, or nothing if it was gone already.
LEMMA DeleteIsRemove ==
    ASSUME IInv, NEW r \in Reqs, deleteRow(r)
    PROVE  [Store!Next]_(Store!vars)
<1>1. call[r].id \in Ids
    BY DeleteNamesMinted DEF IInv, Wellformed, deleteRow
<1>2. CASE db[call[r].id] = None
    BY <1>1, <1>2 DEF deleteRow, IInv, TypeOK, Talks, Store!vars
<1>3. CASE db[call[r].id] # None
    BY <1>1, <1>3 DEF deleteRow, Store!Next, Store!Remove
<1> QED
    BY <1>2, <1>3

\* Every step of the server is a step of TalkStore or leaves it unchanged.
LEMMA StepSimulates == IInv /\ [Next]_vars => [Store!Next]_(Store!vars)
<1> SUFFICES ASSUME IInv, [Next]_vars PROVE [Store!Next]_(Store!vars)
    OBVIOUS
<1>1. CASE UNCHANGED <<db, minted>>
    BY <1>1 DEF Store!vars
<1>2. ASSUME NEW s \in Seeds, mockData(s) PROVE [Store!Next]_(Store!vars)
    BY <1>2, InsertIsAdd DEF mockData, Texts
<1>3. ASSUME NEW r \in Reqs, create(r) PROVE [Store!Next]_(Store!vars)
  <2>1. call[r] \in Calls
    BY <1>3 DEF IInv, TypeOK, NoCall, create, Handling
  <2>2. call[r].title \in Texts
    BY <1>3, <2>1, Vocabulary DEF create, Texts
  <2> QED
    BY <1>3, <2>2, InsertIsAdd DEF create
<1>4. ASSUME NEW r \in Reqs, Handle(r) PROVE [Store!Next]_(Store!vars)
    BY <1>1, <1>3, <1>4, SaveIsRewrite, DeleteIsRemove
    DEF Handle, Serve, refuse, index, createUndecodable, deleteLookup, stub, sqlFails
<1>5. CASE Process
    BY <1>1, <1>2, <1>5 DEF Process, start, boot, bootFails, mockDataFails, crash
<1>6. CASE \E r \in Reqs, c \in Calls : Arrive(r, c)
    BY <1>1, <1>6 DEF Arrive
<1>7. CASE \E id \in Ids : elsewhere(id)
    BY <1>7 DEF elsewhere, Store!Next, Store!Reserve
<1> QED
    BY <1>1, <1>4, <1>5, <1>6, <1>7 DEF Next, vars

\* The server implements TalkStore: whatever its clients, its seeding and its
\* crashes do, an identifier that left the table never returns to it.
THEOREM Refinement == Spec => ImplementsTalkStore
<1>1. Init => Store!Init
    BY DEF Init, Store!Init, NoTalks
<1> QED
    BY <1>1, Invariance, StepSimulates, PTL DEF Spec, Store!Spec, ImplementsTalkStore
=============================================================================
