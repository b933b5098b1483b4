---------------------------- MODULE StaffRecords ----------------------------
(***************************************************************************)
(* Leave requests and attendance records (employees/views.py, models.py),  *)
(* written by the accounts of AccessControl.                               *)
(*                                                                         *)
(* Neither model has a row_version and no request takes a lock: a PATCH    *)
(* saves every column of the row as it was loaded, and inserts the row     *)
(* again if it has been deleted; approve and reject write their own        *)
(* columns.  Requests on different rows do not meet, so one row, of either *)
(* kind, shows what they can do to it.                                     *)
(***************************************************************************)
EXTENDS AccessControl

CONSTANTS
    CheckIns,     \* times of arrival, in minutes after midnight
    OnTimeUntil   \* 09:30

Kinds == {"leave", "attendance"}

RecordOps == {"create", "patch", "delete", "approve", "reject"}

ASSUME RecordsAssumption ==
    /\ CheckIns \subseteq Nat /\ OnTimeUntil \in Nat
    /\ None \notin CheckIns
    /\ None \notin RecordOps

VARIABLES
    kind,    \* what the row is
    row      \* the row of LeaveRequest or AttendanceRecord

vars == <<users, token, txn, kind, row>>

-----------------------------------------------------------------------------
\* cancelled, which no handler sets, is left out.
Leave == [status : {"pending", "approved", "rejected"}, approved_by : Users \cup {None}]

\* The marks, and none: the field may be blank.
MarkValues == {"on_time", "late", "absent", "blank"}

\* present stands for every status but absent.
Attendance == [status : {"present", "absent"}, check_in : CheckIns \cup {None},
               attendance_mark : MarkValues]

Absent == [state |-> "absent", data |-> None]
Gone   == [state |-> "gone", data |-> None]
There(d) == [state |-> "there", data |-> d]

NewLeave == [status |-> "pending", approved_by |-> None]

Init ==
    /\ InitAccess
    /\ kind \in Kinds
    /\ row = Absent

-----------------------------------------------------------------------------
\* Mutation: half past nine is late.
MarkedStrict(r) ==
    [r EXCEPT !.attendance_mark =
        CASE r.status = "absent" -> "absent"
          [] r.status # "absent" /\ r.check_in # None -> IF r.check_in < OnTimeUntil THEN "on_time" ELSE "late"
          [] OTHER -> r.attendance_mark]

\* AttendanceRecord.save: without a time of arrival the mark stays what it was.
Marked(r) ==
    [r EXCEPT !.attendance_mark =
        CASE r.status = "absent" -> "absent"
          [] r.status # "absent" /\ r.check_in # None -> IF r.check_in <= OnTimeUntil THEN "on_time" ELSE "late"
          [] OTHER -> r.attendance_mark]

\* What a POST or a PATCH can make of an attendance record: its body may name every field,
\* and any mark.  The time of arrival of who is absent is left out.
MarkedRecords ==
    {Marked([status |-> "present", check_in |-> c, attendance_mark |-> m]) :
        c \in CheckIns \cup {None}, m \in MarkValues}
    \cup {Marked([status |-> "absent", check_in |-> None, attendance_mark |-> m]) : m \in MarkValues}

\* What a PATCH makes of the row it has loaded: a leave request's decision is read-only.
Edited(r) == IF kind = "leave" THEN {r} ELSE MarkedRecords

\* The decision a loaded row holds.
Decision(r) == IF kind = "leave" THEN r ELSE None

\* What a POST makes.
New == IF kind = "leave" THEN {NewLeave} ELSE MarkedRecords

\* A request is authenticated and loads its row.
ReceiveRecord(w, u) ==
    /\ Admitted(w, "patch", u)    \* every operation on records asks for the same
    /\ \/ row = Absent /\ \E d \in New : Receive(w, "create", u, None, d)
       \/ row.state = "there" /\ \E d \in Edited(row.data) :
             Receive(w, "patch", u, None, [data |-> d, seen |-> Decision(row.data)])
       \/ row.state = "there" /\ Receive(w, "delete", u, None, None)
       \/ /\ row.state = "there" /\ kind = "leave"
          /\ Receive(w, "approve", u, None, None) \/ Receive(w, "reject", u, None, None)
    /\ UNCHANGED <<kind, row>>

\* A second row for the employee and day violates unique_attendance_per_employee_day.
SaveNew(w) ==
    /\ txn[w].op = "create"
    /\ row = Absent
    /\ row' = There(txn[w].value)

\* Model.save of a loaded instance: UPDATE, or INSERT if no row was updated.
SavePatch(w) ==
    /\ txn[w].op = "patch"
    /\ row' = There(txn[w].value.data)

Delete(w) ==
    /\ txn[w].op = "delete"
    /\ row' = Gone

\* Mutation: the approver is not among the columns written.
DecideStatusOnly(w) ==
    /\ txn[w].op \in {"approve", "reject"}
    /\ row.state = "there"
    /\ row' = There([row.data EXCEPT !.status = IF txn[w].op = "approve" THEN "approved" ELSE "rejected"])

\* approve and reject: save(update_fields=...) fails if there is no row; whether the
\* request is still pending is not asked.
Decide(w) ==
    /\ txn[w].op \in {"approve", "reject"}
    /\ row.state = "there"
    /\ row' = There([status |-> IF txn[w].op = "approve" THEN "approved" ELSE "rejected",
                     approved_by |-> txn[w].actor])

Save(w) ==
    /\ SaveNew(w) \/ SavePatch(w) \/ Delete(w) \/ Decide(w)
    /\ Goto(w, Idle)
    /\ UNCHANGED <<users, token, kind>>

Next ==
    \/ NextAccess /\ UNCHANGED <<kind, row>>
    \/ \E w \in Workers : \/ Abandon(w) /\ UNCHANGED <<kind, row>>
                          \/ Save(w)
                          \/ \E u \in Users : ReceiveRecord(w, u)

Spec == Init /\ [][Next]_vars

-----------------------------------------------------------------------------
Data == IF kind = "leave" THEN Leave ELSE Attendance

RecordTxn == [op : {"create"}, actor : {None}, target : {None}, value : Data]
             \cup [op : {"patch"}, actor : {None}, target : {None},
                   value : [data : Data, seen : Leave \cup {None}]]
             \cup [op : {"delete"}, actor : {None}, target : {None}, value : {None}]
             \cup [op : {"approve", "reject"}, actor : Users, target : {None}, value : {None}]

\* Accounts, tokens, the row and the requests are typed.
TypeOK ==
    /\ users \in [Users -> Account]
    /\ token \in [Users -> 0..Lifetime]
    /\ kind \in Kinds
    /\ row \in {Absent, Gone} \cup [state : {"there"}, data : Data]
    /\ txn \in [Workers -> {Idle} \cup AdminTxn \cup RecordTxn]

\* Whatever stale rows are saved: a leave request has an approver exactly when it has
\* been decided, and the mark of who is not absent follows the time of arrival, 09:30
\* included (AttendanceRecord.save, line 324; approve, line 221).
Coherent(r) ==
    IF kind = "leave" THEN r.status = "pending" <=> r.approved_by = None
    ELSE /\ r.status = "absent" => r.attendance_mark = "absent"
         /\ r.status # "absent" /\ r.check_in # None =>
                (r.attendance_mark = "on_time" <=> r.check_in \in 0..OnTimeUntil)
RecordsCoherent == row.state = "there" => Coherent(row.data)

\* A decision stands until someone decides again or deletes the request, except that a
\* PATCH which loaded the request before the decision takes it back with the rest of
\* the row it saves (approve and reject write while an update holds a stale row, line 217).
DecisionKept ==
    [][kind = "leave" /\ row.state = "there" /\ row.data.status # "pending" /\ row' # row =>
         \E w \in Workers : /\ txn[w] # Idle /\ txn'[w] = Idle
                            /\ \/ txn[w].op \in {"approve", "reject", "delete"}
                               \/ txn[w].op = "patch" /\ txn[w].value.seen # row.data]_vars

\* What is deleted stays deleted: what DELETE would promise if no PATCH saved a row it
\* had loaded before.
DeletionsStand == [][row = Gone => row' = Gone]_vars

\* A decision stands until someone decides again or deletes the request: what approve
\* would promise if no PATCH saved a row it had loaded before.
DecisionsFinal ==
    [][kind = "leave" /\ row.state = "there" /\ row.data.status # "pending" /\ row' # row =>
         \E w \in Workers : /\ txn[w] # Idle /\ txn'[w] = Idle
                            /\ txn[w].op \in {"approve", "reject", "delete"}]_vars

=============================================================================
