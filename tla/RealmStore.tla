----------------------------- MODULE RealmStore -----------------------------
(***************************************************************************)
(* The app's Realm file as a value: realm[id] is the title of the talk     *)
(* with that primary key, or None.  An object of class Talk is a record:   *)
(* unmanaged while it is only in memory, managed once it is an accessor of *)
(* a row.  The operators are the Realm calls the app makes.                *)
(***************************************************************************)
CONSTANTS
    Ids,    \* primary keys
    None    \* no row

Stored(realm) == {id \in Ids : realm[id] # None}

\* realm.objects(Talk.self): an accessor for every row.
objects(realm) ==
    {[managed |-> TRUE, identifier |-> id, name |-> realm[id]] : id \in Stored(realm)}

\* Talk.from(shared:) that takes the identifier for the title.
fromSwapped(shared) ==
    {[managed |-> FALSE, identifier |-> id, name |-> id] : id \in Stored(shared)}

\* Talk.from(shared:) for every talk of a response: new objects, not in Realm.
from(shared) ==
    {[managed |-> FALSE, identifier |-> id, name |-> shared[id]] : id \in Stored(shared)}

\* Equality of two Talk objects.  Talk has a primary key, yet unmanaged objects
\* are equal to nothing but themselves: only rows are compared.
AreEqual(o1, o2) ==
    /\ o1.managed
    /\ o2.managed
    /\ o1.identifier = o2.identifier

\* realm.add(_:update: .modified): inserts, or overwrites the row of the key.
add(realm, talks) ==
    [id \in Ids |->
        IF \E talk \in talks : talk.identifier = id
          THEN (CHOOSE talk \in talks : talk.identifier = id).name
          ELSE realm[id]]

\* realm.add turns the objects it is given into accessors of their rows.
Managed(talks) ==
    {[managed |-> TRUE, identifier |-> talk.identifier, name |-> talk.name] : talk \in talks}

\* realm.delete(_:)
delete(realm, talks) ==
    [id \in Ids |->
        IF \E talk \in talks : talk.identifier = id THEN None ELSE realm[id]]

\* The filter of fetchAll evaluated where it is written, before the write.
replaceEager(realm, shared) ==
    LET talksToUpdate == from(shared)
        talksToDelete == {talk \in objects(realm) :
                             ~ \E update \in talksToUpdate : AreEqual(update, talk)}
    IN  delete(add(realm, talksToUpdate), talksToDelete)

\* The write of fetchAll.  Results is a lazy collection: the filter that
\* defines talksToDelete runs when realm.delete enumerates it, inside the
\* transaction and after realm.add has made talksToUpdate managed.
replace(realm, shared) ==
    LET talksToUpdate == from(shared)
        added         == add(realm, talksToUpdate)
        talksToDelete == {talk \in objects(added) :
                             ~ \E update \in Managed(talksToUpdate) : AreEqual(update, talk)}
    IN  delete(added, talksToDelete)
=============================================================================
