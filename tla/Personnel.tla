----------------------------- MODULE Personnel -----------------------------
(***************************************************************************)
(* An employee's organization and status, the history both leave behind,   *)
(* deletion, and the heads of organizations.                               *)
(*                                                                         *)
(* Two ways lead to an employee's row.  The API locks it (SELECT FOR       *)
(* UPDATE), remembers the old values, saves and writes the history itself  *)
(* (employees/services/employees.py).  The admin site renders a form with  *)
(* the row's values and its row_version; when the form comes back a signal *)
(* reads the old values again, without a lock, the UPDATE applies only if  *)
(* the row still has the form's version, and another signal writes the     *)
(* history (employees/signals.py, django-concurrency).  The admin site     *)
(* also deletes: by its delete view and the form's is_deleted box, both    *)
(* under row_version, and by `delete selected', one UPDATE that leaves     *)
(* row_version as it is.                                                   *)
(*                                                                         *)
(* Foreign keys are checked at the commit: FOR KEY SHARE on the row        *)
(* referred to, which waits for a FOR UPDATE but not for an UPDATE.        *)
(***************************************************************************)
EXTENDS Integers, Sequences

CONSTANTS
    Employees, Organizations,
    Statuses,     \* Employee.Status
    Workers,      \* requests served at the same time (a bound)
    MaxVersion,   \* versions of a row after which no request begins on it (a bound)
    Serves,       \* the operations each worker is asked for (a bound)
    None

Ops == {"create", "update", "delete", "admin", "remove", "head", "activate", "unit"}

ASSUME PersonnelAssumption ==
    /\ "IN_SERVICE" \in Statuses
    /\ MaxVersion \in Nat
    /\ Serves \in [Workers -> SUBSET Ops]
    /\ None \notin Employees \cup Organizations \cup Statuses \cup Ops

VARIABLES
    row,         \* committed rows of employees
    unit,        \* committed rows of organizations
    transfers,   \* OfficeTransfer: the organizations recorded for each employee, in order
    changes,     \* EmployeeStatusHistory: <<old, new>> for each employee, in order
    txn,         \* each worker's request
    returned     \* employees whose deleted row a form has written again

vars == <<row, unit, transfers, changes, txn, returned>>

-----------------------------------------------------------------------------
Row == [state : {"absent", "alive", "deleted"}, org : Organizations \cup {None},
        status : Statuses, version : Nat]

Unit == [active : BOOLEAN, head : Employees \cup {None}]

Txn == [pc : {"idle", "form", "posted", "read", "lock", "check", "save"},
        op : Ops \cup {None},
        emp : Employees \cup {None},       \* the employee written, or named as head
        org : Organizations \cup {None},   \* the organization written, or assigned
        status : Statuses \cup {None},
        old : [org : Organizations \cup {None}, status : Statuses \cup {None}],
        version : Nat]                     \* row_version as read

Nothing == [org |-> None, status |-> None]

Idle == [pc |-> "idle", op |-> None, emp |-> None, org |-> None, status |-> None,
         old |-> Nothing, version |-> 0]

\* Some employees come from a legacy import, which may leave the organization empty.
\* They have been saved since row_version was added: at 0, the default the migration
\* gives older rows, the library compares nothing.
Init ==
    /\ row \in [Employees -> [state : {"absent"}, org : {None}, status : {"IN_SERVICE"}, version : {0}]
                              \cup [state : {"alive"}, org : {None}, status : {"IN_SERVICE"}, version : {1}]]
    /\ unit = [o \in Organizations |-> [active |-> TRUE, head |-> None]]
    /\ transfers = [e \in Employees |-> <<>>]
    /\ changes = [e \in Employees |-> <<>>]
    /\ txn = [w \in Workers |-> Idle]
    /\ returned = {}

Alive(e)  == row[e].state = "alive"
Values(e) == [org |-> row[e].org, status |-> row[e].status]

\* Employee.clean, for the fields modelled: who is in service works in an active unit.
Assignable(o, active, s) == s = "IN_SERVICE" /\ o # None => active

-----------------------------------------------------------------------------
\* Locks and waiting.

LocksRow(w, e) ==
    /\ txn[w].emp = e /\ txn[w].op \in {"update", "delete", "admin", "remove"}
    /\ txn[w].pc \in {"check", "save"}

LocksUnit(w, o) ==
    txn[w].org = o /\ txn[w].op \in {"head", "activate", "unit"} /\ txn[w].pc = "save"

RowFree(w, e)  == \A x \in Workers \ {w} : ~LocksRow(x, e)
UnitFree(w, o) == \A x \in Workers \ {w} : ~LocksUnit(x, o)

\* What the admin site writes is locked FOR NO KEY UPDATE: no foreign-key check waits.
RowKeyFree(w, e)  == \A x \in Workers \ {w} : LocksRow(x, e) => txn[x].op \in {"admin", "remove"}
UnitKeyFree(w, o) == \A x \in Workers \ {w} : LocksUnit(x, o) => txn[x].op = "unit"

\* Mutation: head_employee without a foreign-key constraint (db_constraint=False).
HeadUnchecked(w) ==
    txn[w].op \in {"create", "update", "admin"} =>
        (txn[w].org \notin {None, row[txn[w].emp].org} => UnitKeyFree(w, txn[w].org))

\* The deferred foreign-key checks of working_organization and head_employee, where the
\* key changes.
ReferencesFree(w) ==
    CASE txn[w].op \in {"create", "update", "admin"} ->
           txn[w].org \notin {None, row[txn[w].emp].org} => UnitKeyFree(w, txn[w].org)
      [] txn[w].op \in {"head", "unit"} ->
           txn[w].emp \notin {None, unit[txn[w].org].head} => RowKeyFree(w, txn[w].emp)
      [] OTHER -> TRUE

-----------------------------------------------------------------------------
Goto(w, t) == txn' = [txn EXCEPT ![w] = t]
Quiet      == UNCHANGED <<row, unit, transfers, changes, returned>>

MayBegin(w, e) == txn[w] = Idle /\ row[e].version < MaxVersion

\* EmployeeViewSet.create, whose serializer takes active organizations only, and the
\* admin site's add form, which takes those full_clean does.
BeginCreate(w, e, o, s) ==
    /\ MayBegin(w, e)
    /\ row[e].state = "absent" /\ \A x \in Workers : txn[x].op = "create" => txn[x].emp # e
    /\ Assignable(o, unit[o].active, s)
    /\ Goto(w, [Idle EXCEPT !.pc = "save", !.op = "create", !.emp = e, !.org = o, !.status = s])
    /\ Quiet

\* EmployeeViewSet.update: a body may leave out the organization or the status (None).
BeginUpdate(w, e, o, s) ==
    /\ MayBegin(w, e)
    /\ Alive(e)
    /\ o # None => unit[o].active
    /\ Goto(w, [Idle EXCEPT !.pc = "lock", !.op = "update", !.emp = e, !.org = o, !.status = s])
    /\ Quiet

BeginDelete(w, e) ==
    /\ MayBegin(w, e)
    /\ Alive(e)
    /\ Goto(w, [Idle EXCEPT !.pc = "lock", !.op = "delete", !.emp = e])
    /\ Quiet

\* The admin site renders the change form.
OpenForm(w, e) ==
    /\ MayBegin(w, e)
    /\ Alive(e)
    /\ Goto(w, [Idle EXCEPT !.pc = "form", !.op = "admin", !.emp = e, !.org = row[e].org,
                            !.status = row[e].status, !.version = row[e].version])
    /\ Quiet

\* The admin site's delete view loads the row and deletes the object: no head is looked
\* for, and its UPDATE names is_deleted and row_version only.
BeginRemove(w, e) ==
    /\ MayBegin(w, e)
    /\ Alive(e)
    /\ Goto(w, [Idle EXCEPT !.pc = "read", !.op = "remove", !.emp = e, !.version = row[e].version])
    /\ Quiet

\* OrganizationViewSet.update with a head (None clears it): the serializer's instance of
\* the head is the one the second validation looks at, so its organization is read here.
BeginHead(w, o, e) ==
    /\ txn[w] = Idle
    /\ e # None => Alive(e) /\ row[e].org = o
    /\ Goto(w, [Idle EXCEPT !.pc = "lock", !.op = "head", !.emp = e, !.org = o])
    /\ Quiet

\* OrganizationViewSet.update of is_active, to the other value.
BeginActivate(w, o) ==
    /\ txn[w] = Idle
    /\ Goto(w, [Idle EXCEPT !.pc = "lock", !.op = "activate", !.org = o])
    /\ Quiet

\* The admin site's change form of an organization, with a head and is_active.  Whether
\* it comes too late by the organization's row_version is left open: it may Fail.
BeginUnit(w, o, e) ==
    /\ txn[w] = Idle
    /\ e # None => Alive(e) /\ row[e].org = o
    /\ Goto(w, [Idle EXCEPT !.pc = "lock", !.op = "unit", !.emp = e, !.org = o])
    /\ Quiet

\* The action `delete selected': one UPDATE of living rows, which waits for each of
\* them, looks for no heads and leaves row_version as it is.
DeleteSelected(S) ==
    /\ S # {}
    /\ \A e \in S : Alive(e) /\ \A x \in Workers : ~LocksRow(x, e)
    /\ row' = [e \in Employees |-> IF e \in S THEN [row[e] EXCEPT !.state = "deleted"] ELSE row[e]]
    /\ UNCHANGED <<unit, transfers, changes, txn, returned>>

-----------------------------------------------------------------------------
\* Mutation: a form whose organization may be left empty (blank=True).
PostFormBlank(w, o, s) ==
    /\ txn[w].pc = "form"
    /\ Alive(txn[w].emp)
    /\ Goto(w, [txn[w] EXCEPT !.pc = "posted", !.org = None, !.status = s])
    /\ Quiet

\* The form comes back, edited.  The row must be alive and the organization, which the
\* form requires, assignable.
PostForm(w, o, s) ==
    /\ txn[w].pc = "form"
    /\ Alive(txn[w].emp)
    /\ Assignable(o, unit[o].active, s)
    /\ Goto(w, [txn[w] EXCEPT !.pc = "posted", !.org = o, !.status = s])
    /\ Quiet

\* The pre_save signal reads the old values, of a living row only.
ReadOld(w) ==
    /\ txn[w].pc = "posted"
    /\ Goto(w, [txn[w] EXCEPT !.pc = "read",
                              !.old = IF Alive(txn[w].emp) THEN Values(txn[w].emp) ELSE Nothing])
    /\ Quiet

\* Mutation: an UPDATE that does not filter on row_version.
UpdateAnyVersion(w) ==
    /\ txn[w].pc = "read" /\ RowFree(w, txn[w].emp)
    /\ Goto(w, [txn[w] EXCEPT !.pc = "save"])
    /\ Quiet

\* The UPDATE waits for the row; a row that has another version by then raises
\* RecordModifiedError.  It finds the row deleted or not.
UpdateVersion(w) ==
    /\ txn[w].pc = "read" /\ RowFree(w, txn[w].emp)
    /\ \/ /\ row[txn[w].emp].version = txn[w].version
          /\ Goto(w, [txn[w] EXCEPT !.pc = "save"])
       \/ /\ row[txn[w].emp].version # txn[w].version
          /\ Goto(w, Idle)
    /\ Quiet

\* Mutation: the service remembers the old values after it has assigned the new ones.
MergedTooEarly(w) ==
    LET e == txn[w].emp
        org == IF txn[w].org = None THEN row[e].org ELSE txn[w].org
        status == IF txn[w].status = None THEN row[e].status ELSE txn[w].status
    IN [txn[w] EXCEPT !.org = org, !.status = status, !.old = [org |-> org, status |-> status],
                      !.version = row[e].version, !.pc = "save"]

\* What an update writes: the fields the body left out keep their values.
Merged(w) ==
    LET e == txn[w].emp
        or(v, x) == IF v = None THEN x ELSE v
    IN [txn[w] EXCEPT !.org = or(txn[w].org, row[e].org),
                      !.status = or(txn[w].status, row[e].status),
                      !.old = Values(e), !.version = row[e].version, !.pc = "save"]

\* get_for_update of an employee, then full_clean.  An organization the body names was
\* found active by the serializer and is not fetched again.
Lock(w) ==
    LET e == txn[w].emp
    IN /\ txn[w].pc = "lock"
       /\ txn[w].op \in {"update", "delete"}
       /\ RowFree(w, e)
       /\ \/ ~Alive(e) /\ Goto(w, Idle)
          \/ Alive(e) /\ txn[w].op = "delete" /\ Goto(w, [txn[w] EXCEPT !.pc = "check"])
          \/ /\ Alive(e) /\ txn[w].op = "update"
             /\ LET t == Merged(w)
                    active == txn[w].org # None \/ (t.org # None /\ unit[t.org].active)
                IN Goto(w, IF Assignable(t.org, active, t.status) THEN t ELSE Idle)
       /\ Quiet

\* get_for_update of an organization, then full_clean: a head the body does not name
\* is fetched and must work here.  The form of the admin site has validated already and
\* its UPDATE waits for the row.
LockUnit(w) ==
    LET o == txn[w].org
    IN /\ txn[w].pc = "lock"
       /\ txn[w].op \in {"head", "activate", "unit"}
       /\ UnitFree(w, o)
       /\ Goto(w, IF txn[w].op \in {"head", "unit"} \/ unit[o].head = None \/ row[unit[o].head].org = o
                  THEN [txn[w] EXCEPT !.pc = "save"] ELSE Idle)
       /\ Quiet

\* dependencies: organizations the employee heads.
Heads(e) == {o \in Organizations : unit[o].head = e}

Check(w) ==
    /\ txn[w].pc = "check"
    /\ Goto(w, IF Heads(txn[w].emp) = {} THEN [txn[w] EXCEPT !.pc = "save"] ELSE Idle)
    /\ Quiet

-----------------------------------------------------------------------------
Write(e, r) == row' = [row EXCEPT ![e] = r]

RecordTransfer(e, o) == transfers' = [transfers EXCEPT ![e] = Append(transfers[e], o)]
RecordChange(e, old, new) == changes' = [changes EXCEPT ![e] = Append(changes[e], <<old, new>>)]

SaveCreate(w) ==
    LET e == txn[w].emp
    IN /\ txn[w].op = "create"
       /\ Write(e, [state |-> "alive", org |-> txn[w].org, status |-> txn[w].status, version |-> 1])
       /\ RecordTransfer(e, txn[w].org)
       /\ UNCHANGED <<changes, unit, returned>>

\* Mutation: a transfer for every update that names an organization.
RecordsNamed(w) == txn[w].org # None

\* The service compares with what it remembered; the signal records no transfer for
\* an employee who was in no organization.
RecordsMove(w) ==
    /\ txn[w].org # txn[w].old.org
    /\ txn[w].op = "admin" => txn[w].old.org # None

RecordsChange(w) == txn[w].status # txn[w].old.status /\ txn[w].old.status # None

\* A form writes is_deleted as its box says: it may delete the employee, and it brings
\* back one that `delete selected' has deleted since.
SaveUpdate(w) ==
    LET e == txn[w].emp
    IN /\ txn[w].op \in {"update", "admin"}
       /\ \E state \in IF txn[w].op = "admin" THEN {"alive", "deleted"} ELSE {"alive"} :
             Write(e, [state |-> state, org |-> txn[w].org, status |-> txn[w].status,
                       version |-> txn[w].version + 1])
       /\ IF RecordsMove(w) THEN RecordTransfer(e, txn[w].org) ELSE UNCHANGED transfers
       /\ IF RecordsChange(w) THEN RecordChange(e, txn[w].old.status, txn[w].status)
          ELSE UNCHANGED changes
       /\ returned' = IF Alive(e) THEN returned ELSE returned \cup {e}
       /\ UNCHANGED unit

\* Mutation: delete saves its fields without row_version.
SaveDeleteUnversioned(w) ==
    /\ txn[w].op \in {"delete", "remove"}
    /\ Write(txn[w].emp, [row[txn[w].emp] EXCEPT !.state = "deleted"])
    /\ UNCHANGED <<transfers, changes, unit, returned>>

SaveDelete(w) ==
    LET e == txn[w].emp
    IN /\ txn[w].op \in {"delete", "remove"}
       /\ Write(e, [row[e] EXCEPT !.state = "deleted", !.version = row[e].version + 1])
       /\ UNCHANGED <<transfers, changes, unit, returned>>

SaveUnit(w) ==
    LET o == txn[w].org
    IN /\ \/ txn[w].op = "head" /\ unit' = [unit EXCEPT ![o].head = txn[w].emp]
          \/ txn[w].op = "activate" /\ unit' = [unit EXCEPT ![o].active = ~unit[o].active]
          \/ /\ txn[w].op = "unit"
             /\ \E a \in BOOLEAN : unit' = [unit EXCEPT ![o] = [active |-> a, head |-> txn[w].emp]]
       /\ UNCHANGED <<row, transfers, changes, returned>>

\* The writes of the request become visible together.
Commit(w) ==
    /\ txn[w].pc = "save"
    /\ ReferencesFree(w)
    /\ SaveCreate(w) \/ SaveUpdate(w) \/ SaveDelete(w) \/ SaveUnit(w)
    /\ Goto(w, Idle)

\* A form is abandoned or refused; a statement fails, PostgreSQL ends a deadlock or the
\* process is killed: rolled back.
Fail(w) ==
    /\ txn[w] # Idle
    /\ Goto(w, Idle)
    /\ Quiet

Begin(w) ==
    /\ txn[w] = Idle
    /\ \/ \E e \in Employees : \/ BeginDelete(w, e) \/ OpenForm(w, e) \/ BeginRemove(w, e)
                               \/ \E s \in Statuses, o \in Organizations : BeginCreate(w, e, o, s)
                               \/ \E s \in Statuses \cup {None}, o \in Organizations \cup {None} :
                                       BeginUpdate(w, e, o, s)
       \/ \E o \in Organizations : \/ BeginActivate(w, o)
                                   \/ \E e \in Employees \cup {None} : BeginHead(w, o, e) \/ BeginUnit(w, o, e)
    /\ txn'[w].op \in Serves[w]

Step(w) ==
    \/ \E o \in Organizations, s \in Statuses : PostForm(w, o, s)
    \/ ReadOld(w) \/ UpdateVersion(w) \/ Lock(w) \/ LockUnit(w) \/ Check(w) \/ Commit(w)

Next ==
    \/ \E w \in Workers : Begin(w) \/ Step(w) \/ Fail(w)
    \/ \E S \in SUBSET Employees : DeleteSelected(S)

Spec == Init /\ [][Next]_vars

-----------------------------------------------------------------------------
\* Rows, organizations, histories and requests are typed.
TypeOK ==
    /\ row \in [Employees -> Row]
    /\ unit \in [Organizations -> Unit]
    /\ transfers \in [Employees -> Seq(Organizations)]
    /\ changes \in [Employees -> Seq(Statuses \X Statuses)]
    /\ txn \in [Workers -> Txn]
    /\ returned \in SUBSET Employees

\* The status history of an employee is a path that ends at the present status: each
\* entry starts where the one before it ended and none repeats a status, although the
\* admin site compares with values read without a lock, before a row another request
\* may change (cache_old_employee_data, line 16).  It ends with an employee whose row a
\* form writes again after `delete selected': the signal finds no old values then.
StatusHistoryIsPath ==
    \A e \in Employees \ returned : LET h == changes[e]
                                    IN /\ \A i \in 1..Len(h) : h[i][1] # h[i][2]
                                       /\ \A i \in 1..(Len(h) - 1) : h[i][2] = h[i + 1][1]
                                       /\ h # <<>> => h[Len(h)][2] = row[e].status

\* A living employee who leaves an organization for another gets exactly one transfer,
\* to where they now are, whoever moved them; nobody else gets one, except a new employee
\* and one who was nowhere (update, line 72; track_employee_creation_and_changes, line 48).
MovesRecorded ==
    [][\A e \in Employees :
         /\ Alive(e) /\ row[e].org # None /\ row'[e].org # row[e].org =>
                transfers'[e] = Append(transfers[e], row'[e].org)
         /\ transfers'[e] # transfers[e] => row'[e].org # row[e].org]_vars

\* A deleted row that no open form or delete view can write any more.
Sealed(e) ==
    /\ row[e].state = "deleted"
    /\ \A w \in Workers : txn[w].emp = e /\ txn[w].op \in {"admin", "remove"} =>
            txn[w].version < row[e].version

\* An employee deleted by the API, the delete view or the box of a form stays deleted
\* and as they were: no form opened before can revive them or move them, as it can after
\* `delete selected' (delete in core/models.py, line 185, which saves row_version too).
DeletedStay ==
    [][\A e \in Employees :
         /\ \A w \in Workers : txn[w].emp = e /\ txn'[w] # txn[w] /\ row'[e] # row[e]
                              /\ row'[e].state = "deleted" => Sealed(e)'
         /\ Sealed(e) => Sealed(e)' /\ row'[e] = row[e]]_vars

\* The API deletes nobody who heads an organization, though the heads are looked up
\* before the deletion commits and a request, of the API or the admin site, may be
\* about to name one (delete, line 98).
DeletedHeadNothing ==
    [][\A w \in Workers : txn[w].op = "delete" /\ row' # row /\ txn'[w] # txn[w] =>
            Heads(txn[w].emp) = {}]_vars

-----------------------------------------------------------------------------
\* The employees' rows and histories keep the promise of Careers.

Career == [e \in Employees |-> [state |-> row[e].state, org |-> row[e].org, status |-> row[e].status]]
HeadOf == [o \in Organizations |-> unit[o].head]

Records == INSTANCE Careers WITH career <- Career, head <- HeadOf

\* Whatever the API and the admin site interleave, every step hires, changes or removes
\* employees as the record stands at that moment, with the history that belongs to it,
\* or brings back one that was deleted, or appoints a head, or leaves all of them alone:
\* the old values both writers compare with are those of the living row they overwrite.
ImplementsCareers == Records!Spec

=============================================================================
