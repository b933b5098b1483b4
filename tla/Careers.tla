------------------------------ MODULE Careers ------------------------------
(***************************************************************************)
(* What the employees' records promise: each employee has one career, and  *)
(* the transfers and status changes recorded are those that happened, one  *)
(* for each and in their order, as if every writer had the record to       *)
(* itself.  Only a career that was ended and is resumed may go on without  *)
(* a record of what changed when it was.                                   *)
(***************************************************************************)
EXTENDS Sequences

CONSTANTS Employees, Organizations, Statuses, None

VARIABLES
    career,      \* each employee's state, organization and status
    transfers,   \* the organizations each was moved to
    changes,     \* <<old, new>> status, for each
    head         \* the head of each organization

careerVars == <<career, transfers, changes, head>>

At(s, o, status) == [state |-> s, org |-> o, status |-> status]

\* Some employees come from a legacy import, without an organization.
Init ==
    /\ career \in [Employees -> {At("absent", None, "IN_SERVICE"), At("alive", None, "IN_SERVICE")}]
    /\ transfers = [e \in Employees |-> <<>>]
    /\ changes = [e \in Employees |-> <<>>]
    /\ head = [o \in Organizations |-> None]

Hire(e, o, s) ==
    /\ career[e].state = "absent"
    /\ career' = [career EXCEPT ![e] = At("alive", o, s)]
    /\ transfers' = [transfers EXCEPT ![e] = Append(@, o)]
    /\ UNCHANGED <<changes, head>>

\* The history of a career that goes on in organization o with status s.  The first
\* organization of an imported employee may go unrecorded.
Record(e, o, s) ==
    /\ \/ /\ o # career[e].org
          /\ transfers' = [transfers EXCEPT ![e] = Append(@, o)]
       \/ /\ career[e].org \in {o, None}
          /\ UNCHANGED transfers
    /\ changes' = IF s = career[e].status THEN changes
                  ELSE [changes EXCEPT ![e] = Append(@, <<career[e].status, s>>)]

\* A change may end the career at once.
Change(e, o, s) ==
    /\ career[e].state = "alive"
    /\ \E state \in {"alive", "deleted"} : career' = [career EXCEPT ![e] = At(state, o, s)]
    /\ Record(e, o, s)
    /\ UNCHANGED head

\* A career that was ended is resumed, or changed while it is ended.
Resume(e, o, s) ==
    /\ career[e].state = "deleted"
    /\ \E state \in {"alive", "deleted"} : career' = [career EXCEPT ![e] = At(state, o, s)]
    /\ Record(e, o, s) \/ UNCHANGED <<transfers, changes>>
    /\ UNCHANGED head

Leave(S) ==
    /\ \A e \in S : career[e].state = "alive"
    /\ career' = [e \in Employees |-> IF e \in S THEN At("deleted", career[e].org, career[e].status)
                                      ELSE career[e]]
    /\ UNCHANGED <<transfers, changes, head>>

Appoint(o, e) ==
    /\ head' = [head EXCEPT ![o] = e]
    /\ UNCHANGED <<career, transfers, changes>>

Next ==
    \/ \E S \in SUBSET Employees : Leave(S)
    \/ \E e \in Employees :
        \/ \E o \in Organizations, s \in Statuses : Hire(e, o, s)
        \/ \E o \in Organizations \cup {None}, s \in Statuses : Change(e, o, s) \/ Resume(e, o, s)
    \/ \E o \in Organizations, e \in Employees \cup {None} : Appoint(o, e)

Spec == Init /\ [][Next]_careerVars
=============================================================================
