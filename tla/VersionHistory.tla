--------------------------- MODULE VersionHistory ---------------------------
(***************************************************************************)
(* What an employee's documents promise: a document is a history of file   *)
(* versions that only grows at its end, and only while the document is     *)
(* active; decisions fall on the last version alone, and one is verified   *)
(* only when its last scan was clean; scan results may arrive for any      *)
(* version; a deleted document stays deleted, with its history.            *)
(***************************************************************************)
EXTENDS Integers, Sequences

CONSTANTS Docs, First   \* First: the verification status a version starts with

VARIABLES
    state,     \* absent, active, archived or deleted
    history    \* each document's versions, the oldest first

historyVars == <<state, history>>

NewEntry == [verification |-> First, scan |-> "pending"]

Init ==
    /\ state = [d \in Docs |-> "absent"]
    /\ history = [d \in Docs |-> <<>>]

\* The first version comes with its document.
Add(d) ==
    /\ state[d] \in {"absent", "active"}
    /\ state' = [state EXCEPT ![d] = "active"]
    /\ history' = [history EXCEPT ![d] = Append(@, NewEntry)]

Decide(d, status) ==
    /\ history[d] # <<>>
    /\ status = "verified" => history[d][Len(history[d])].scan = "clean"
    /\ history' = [history EXCEPT ![d][Len(history[d])].verification = status]
    /\ UNCHANGED state

Record(d, n, result) ==
    /\ n \in DOMAIN history[d]
    /\ history' = [history EXCEPT ![d][n].scan = result]
    /\ UNCHANGED state

Move(d, s) ==
    /\ state[d] \in {"active", "archived"}
    /\ state' = [state EXCEPT ![d] = s]
    /\ UNCHANGED history

\* A request that is refused, fails, or has yet to commit.
Refuse == UNCHANGED historyVars

Next ==
    \/ Refuse
    \/ \E d \in Docs :
        \/ Add(d)
        \/ \E status \in {"verified", "rejected"} : Decide(d, status)
        \/ \E n \in DOMAIN history[d], result \in {"clean", "infected", "failed"} : Record(d, n, result)
        \/ \E s \in {"active", "archived", "deleted"} : Move(d, s)

Spec == Init /\ [][Next]_historyVars
=============================================================================
