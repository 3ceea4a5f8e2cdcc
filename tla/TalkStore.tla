----------------------------- MODULE TalkStore -----------------------------
(***************************************************************************)
(* What the talks service promises of its collection, whatever happens     *)
(* inside it: a talk is stored under an identifier that nobody has used    *)
(* before, its title may be rewritten while it is stored, and once removed *)
(* it never comes back.  Identifiers are also used up outside the service. *)
(* The detailed server (TalksServer) is shown to implement this.           *)
(***************************************************************************)
CONSTANTS
    Ids,     \* the identifiers (UUIDs) a talk can have
    Texts,   \* the titles a talk can have
    None     \* no title: nothing is stored under the identifier

VARIABLES
    talks,   \* talks[id]: the title stored under id, or None
    used     \* the identifiers that were generated so far

vars == <<talks, used>>

Init ==
    /\ talks = [id \in Ids |-> None]
    /\ used = {}

Add ==
    \E id \in Ids \ used, text \in Texts :
        /\ talks[id] = None
        /\ talks' = [talks EXCEPT ![id] = text]
        /\ used' = used \cup {id}

Rewrite ==
    \E id \in Ids, text \in Texts :
        /\ talks[id] # None
        /\ talks' = [talks EXCEPT ![id] = text]
        /\ UNCHANGED used

Remove ==
    \E id \in Ids :
        /\ talks[id] # None
        /\ talks' = [talks EXCEPT ![id] = None]
        /\ UNCHANGED used

Reserve ==
    \E id \in Ids \ used :
        /\ used' = used \cup {id}
        /\ UNCHANGED talks

Next == Add \/ Rewrite \/ Remove \/ Reserve

Spec == Init /\ [][Next]_vars
=============================================================================
