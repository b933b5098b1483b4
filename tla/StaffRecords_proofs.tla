------------------------ MODULE StaffRecords_proofs ------------------------
(***************************************************************************)
(* Proofs about StaffRecords and the accounts under it, for every number   *)
(* of accounts and requests.  The invariant says what a request in flight  *)
(* carries: no administrator's own account as the target of a change of    *)
(* status, no row that a save could make incoherent.                       *)
(***************************************************************************)
EXTENDS StaffRecords, TLAPS

Typed(t) == t \in {Idle} \cup AdminTxn \cup RecordTxn

\* What a request of each kind carries.
Sound(t) ==
    /\ t.op \in {"create_user", "update_user"} => t.value \in Roles
    /\ t.op = "set_status" => t.value \in Statuses
    /\ t.op \in {"deactivate_user", "set_status"} => t.target # t.actor
    /\ t.op = "create" => Coherent(t.value)
    /\ t.op = "patch" => Coherent(t.value.data) /\ (kind = "leave" => t.value.data = t.value.seen)
    /\ t.op \in {"approve", "reject"} => kind = "leave"

IInv ==
    /\ TypeOK
    /\ RecordsCoherent
    /\ \A w \in Workers : Sound(txn[w])

-----------------------------------------------------------------------------
LEMMA IdleSound == Typed(Idle) /\ Sound(Idle)
BY AccessAssumption, RecordsAssumption DEF Typed, Idle, Sound, AdminOps, RecordOps

\* The operation tells what kind of request it is.
LEMMA OpsTell ==
    ASSUME NEW t, Typed(t)
    PROVE  /\ t # Idle <=> t.op \in AdminOps \cup RecordOps
           /\ t.op \in AdminOps => t \in AdminTxn
           /\ t.op \in RecordOps => t \in RecordTxn
<1>1. t \in AdminTxn => t.op \in AdminOps
  BY DEF AdminTxn
<1>2. t \in RecordTxn => t.op \in RecordOps
  BY DEF RecordTxn, RecordOps
<1>3. AdminOps \cap RecordOps = {} /\ Idle.op = None /\ None \notin AdminOps \cup RecordOps
  BY AccessAssumption, RecordsAssumption DEF AdminOps, RecordOps, Idle
<1> QED
  BY <1>1, <1>2, <1>3 DEF Typed

\* A request that begins, or ends, leaves the others as they are.
LEMMA TxnStep ==
    ASSUME IInv, NEW w \in Workers, NEW t, Typed(t), Sound(t), Goto(w, t), UNCHANGED kind
    PROVE  /\ txn' \in [Workers -> {Idle} \cup AdminTxn \cup RecordTxn']
           /\ \A v \in Workers : Sound(txn[v])'
<1>1. txn \in [Workers -> {Idle} \cup AdminTxn \cup RecordTxn] /\ txn' = [txn EXCEPT ![w] = t]
  BY DEF IInv, TypeOK, Goto
<1>2. txn' \in [Workers -> {Idle} \cup AdminTxn \cup RecordTxn]
  BY <1>1 DEF Typed
<1>0. RecordTxn' = RecordTxn
  BY DEF RecordTxn, Data
<1>3. \A v \in Workers : txn'[v] = t \/ txn'[v] = txn[v]
  BY <1>1
<1>4. ASSUME NEW v \in Workers, txn'[v] = t PROVE Sound(txn[v])'
  BY <1>4 DEF Sound, Coherent
<1>5. ASSUME NEW v \in Workers, txn'[v] = txn[v] PROVE Sound(txn[v])'
  BY <1>5 DEF IInv, Sound, Coherent
<1> QED
  BY <1>0, <1>2, <1>3, <1>4, <1>5

\* A step that leaves the row and the accounts alone.
LEMMA ReceiveStep ==
    ASSUME IInv, NEW w \in Workers, NEW u \in Users, NEW op, NEW t, NEW v, Receive(w, op, u, t, v),
           Typed([op |-> op, actor |-> Who(op, u), target |-> t, value |-> v]),
           Sound([op |-> op, actor |-> Who(op, u), target |-> t, value |-> v]), UNCHANGED <<kind, row>>
    PROVE  IInv'
<1>1. /\ txn' \in [Workers -> {Idle} \cup AdminTxn \cup RecordTxn']
      /\ \A x \in Workers : Sound(txn[x])'
  BY TxnStep DEF Receive
<1>2. TypeOK'
  <2>1. users' \in [Users -> Account] /\ token' \in [Users -> 0..Lifetime]
    BY DEF IInv, TypeOK, Receive
  <2>2. kind' \in Kinds /\ row' \in {Absent, Gone} \cup [state : {"there"}, data : Data']
    BY DEF IInv, TypeOK, Data
  <2> QED
    BY <1>1, <2>1, <2>2 DEF TypeOK
<1>3. RecordsCoherent'
  BY DEF IInv, RecordsCoherent, Coherent
<1> QED
  BY <1>1, <1>2, <1>3 DEF IInv

-----------------------------------------------------------------------------
LEMMA InitInv == Init => IInv
<1> SUFFICES ASSUME Init PROVE IInv
  OBVIOUS
<1>1. users \in [Users -> Account]
  <2>1. Nobody \in Account /\ Earlier \subseteq Account
    BY DEF Nobody, Earlier, Account, Roles, Statuses
  <2> QED
    BY <2>1 DEF Init, InitAccess
<1>2. token \in [Users -> 0..Lifetime]
  BY AccessAssumption DEF Init, InitAccess
<1>3. txn \in [Workers -> {Idle}] /\ \A w \in Workers : Sound(txn[w])
  BY IdleSound DEF Init, InitAccess
<1>4. row = Absent /\ kind \in Kinds
  BY DEF Init
<1>5. RecordsCoherent
  BY <1>4 DEF RecordsCoherent, Absent
<1> QED
  BY <1>1, <1>2, <1>3, <1>4, <1>5 DEF IInv, TypeOK

\* The accounts keep their type whatever an administrator does.
LEMMA AccountsTyped ==
    ASSUME IInv, NEW w \in Workers, CreateUser(w) \/ UpdateUser(w) \/ DeactivateUser(w) \/ SetStatus(w)
    PROVE  users' \in [Users -> Account]
<1>1. users \in [Users -> Account] /\ Typed(txn[w]) /\ Sound(txn[w])
  BY DEF IInv, TypeOK, Typed
<1>2. txn[w].op \in AdminOps /\ txn[w].target \in Users /\ users[txn[w].target] \in Account
  BY <1>1, OpsTell DEF CreateUser, UpdateUser, DeactivateUser, SetStatus, AdminOps, AdminTxn
<1> DEFINE t == txn[w].target
<1>3. CASE CreateUser(w)
  <2> DEFINE r == [exists |-> TRUE, role |-> txn[w].value, status |-> "active",
                   is_active |-> TRUE, is_superuser |-> FALSE]
  <2>1. r \in Account
    BY <1>1, <1>3 DEF CreateUser, Sound, Account, Statuses
  <2>2. users' = [users EXCEPT ![t] = r]
    BY <1>3 DEF CreateUser
  <2> HIDE DEF r
  <2> QED
    BY <1>1, <2>1, <2>2
<1>4. CASE UpdateUser(w)
  <2>1. txn[w].value \in Roles
    BY <1>1, <1>4 DEF UpdateUser, Sound
  <2>2. [users[t] EXCEPT !.role = txn[w].value] \in Account
    BY <1>2, <2>1 DEF Account
  <2> QED
    BY <1>1, <1>2, <1>4, <2>2 DEF UpdateUser
<1>5. CASE DeactivateUser(w)
  <2>1. [users[t] EXCEPT !.status = "suspended", !.is_active = FALSE] \in Account
    BY <1>2 DEF Account, Statuses
  <2> QED
    BY <1>1, <1>2, <1>5, <2>1 DEF DeactivateUser
<1>6. CASE SetStatus(w)
  <2>1. txn[w].value \in Statuses
    BY <1>1, <1>6 DEF SetStatus, Sound
  <2>2. [users[t] EXCEPT !.status = txn[w].value,
                         !.is_active = txn[w].value = "active" \/ users[t].is_active] \in Account
    BY <1>2, <2>1 DEF Account
  <2> QED
    BY <1>1, <1>2, <1>6, <2>2 DEF SetStatus
<1> QED
  BY <1>3, <1>4, <1>5, <1>6

\* A step of the accounts or their tokens, the requests and the row left alone.
LEMMA AccountStep ==
    ASSUME IInv, users' \in [Users -> Account], token' \in [Users -> 0..Lifetime],
           UNCHANGED <<txn, kind, row>>
    PROVE  IInv'
<1>1. TypeOK'
  BY DEF IInv, TypeOK, RecordTxn, Data
<1>2. RecordsCoherent' /\ \A w \in Workers : Sound(txn[w])'
  BY DEF IInv, RecordsCoherent, Coherent, Sound
<1> QED
  BY <1>1, <1>2 DEF IInv

LEMMA AdministerInv ==
    ASSUME IInv, NEW w \in Workers, Administer(w), UNCHANGED <<kind, row>>
    PROVE  IInv'
<1>1. users' \in [Users -> Account] /\ token' = token /\ Goto(w, Idle)
  BY AccountsTyped DEF Administer
<1>2. /\ txn' \in [Workers -> {Idle} \cup AdminTxn \cup RecordTxn']
      /\ \A x \in Workers : Sound(txn[x])'
  BY <1>1, IdleSound, TxnStep
<1>3. row' \in {Absent, Gone} \cup [state : {"there"}, data : Data'] /\ RecordsCoherent'
  BY DEF IInv, TypeOK, RecordsCoherent, Coherent, Data
<1> QED
  BY <1>1, <1>2, <1>3 DEF IInv, TypeOK

LEMMA AbandonInv ==
    ASSUME IInv, NEW w \in Workers, Abandon(w), UNCHANGED <<kind, row>>
    PROVE  IInv'
<1>1. users' = users /\ token' = token /\ Goto(w, Idle)
  BY DEF Abandon
<1>2. /\ txn' \in [Workers -> {Idle} \cup AdminTxn \cup RecordTxn']
      /\ \A x \in Workers : Sound(txn[x])'
  BY <1>1, IdleSound, TxnStep
<1>3. row' \in {Absent, Gone} \cup [state : {"there"}, data : Data'] /\ RecordsCoherent'
  BY DEF IInv, TypeOK, RecordsCoherent, Coherent, Data
<1> QED
  BY <1>1, <1>2, <1>3 DEF IInv, TypeOK

LEMMA ReceiveAdminInv ==
    ASSUME IInv, NEW w \in Workers, NEW u \in Users, NEW t \in Users, ReceiveAdmin(w, u, t),
           UNCHANGED <<kind, row>>
    PROVE  IInv'
<1> DEFINE Values(op) == CASE op \in {"create_user", "update_user"} -> Roles
                           [] op = "set_status" -> {"active", "suspended"}
                           [] OTHER -> {None}
<1>4. PICK op \in AdminOps : NotSelf(op, u, t) /\ \E v \in Values(op) : Receive(w, op, u, t, v)
  BY DEF ReceiveAdmin
<1>5. Values(op) \subseteq Roles \cup Statuses \cup {None}
  BY DEF Statuses
<1>1. PICK v \in Roles \cup Statuses \cup {None} :
         NotSelf(op, u, t) /\ v \in Values(op) /\ Receive(w, op, u, t, v)
  BY <1>4, <1>5
<1> DEFINE q == [op |-> op, actor |-> Who(op, u), target |-> t, value |-> v]
<1>0. Who(op, u) = u
  BY DEF Who
<1>2. Typed(q)
  BY <1>0 DEF Typed, AdminTxn
<1>3. Sound(q)
  <2>1. op \in {"create_user", "update_user"} => v \in Roles
    BY <1>1
  <2>2. op = "set_status" => v \in Statuses
    BY <1>1 DEF Statuses
  <2>3. op \in {"deactivate_user", "set_status"} => t # u
    BY <1>1 DEF NotSelf
  <2>4. op \notin {"create", "patch", "approve", "reject"}
    BY DEF AdminOps
  <2> QED
    BY <1>0, <2>1, <2>2, <2>3, <2>4 DEF Sound
<1> QED
  BY <1>1, <1>2, <1>3, ReceiveStep

LEMMA AccessInv ==
    ASSUME IInv, NextAccess, UNCHANGED <<kind, row>>
    PROVE  IInv'
<1>0. users \in [Users -> Account] /\ token \in [Users -> 0..Lifetime] /\ Lifetime \in Nat
  BY AccessAssumption DEF IInv, TypeOK
<1>1. ASSUME NEW u \in Users, Issue(u) PROVE IInv'
  <2>1. token' \in [Users -> 0..Lifetime]
    BY <1>0, <1>1 DEF Issue
  <2> QED
    BY <1>0, <1>1, <2>1, AccountStep DEF Issue
<1>2. ASSUME NEW u \in Users, SignUp(u) \/ SeedSuperadmin(u) \/ CreateSuperuser(u) PROVE IInv'
  <2>1. PICK r \in Account : users' = [users EXCEPT ![u] = r]
    BY <1>2 DEF SignUp, SeedSuperadmin, CreateSuperuser, Nobody, Account, Roles, Statuses
  <2>2. users' \in [Users -> Account]
    BY <1>0, <2>1
  <2>3. token' = token /\ txn' = txn
    BY <1>2 DEF SignUp, SeedSuperadmin, CreateSuperuser
  <2> QED
    BY <1>0, <2>2, <2>3, AccountStep
<1>3. ASSUME Tick PROVE IInv'
  <2>1. \A n \in 0..Lifetime : n > 0 => n - 1 \in 0..Lifetime
    BY <1>0
  <2>2. token' \in [Users -> 0..Lifetime]
    BY <1>0, <1>3, <2>1 DEF Tick
  <2> QED
    BY <1>0, <1>3, <2>2, AccountStep DEF Tick
<1> QED
  BY <1>1, <1>2, <1>3, AdministerInv, ReceiveAdminInv DEF NextAccess

-----------------------------------------------------------------------------
\* What AttendanceRecord.save leaves is an attendance record, and coherent.
LEMMA MarkedSound ==
    ASSUME kind # "leave", NEW s \in {"present", "absent"}, NEW c \in CheckIns \cup {None},
           NEW m \in MarkValues,
           NEW d, d = Marked([status |-> s, check_in |-> c, attendance_mark |-> m])
    PROVE  d \in Attendance /\ Coherent(d)
<1> DEFINE r == [status |-> s, check_in |-> c, attendance_mark |-> m]
<1>1. r \in Attendance /\ r.status = s /\ r.check_in = c /\ r.attendance_mark = m
  BY DEF Attendance
<1>2. PICK n : d = [r EXCEPT !.attendance_mark = n]
                /\ n = CASE s = "absent" -> "absent"
                         [] s # "absent" /\ c # None -> IF c <= OnTimeUntil THEN "on_time" ELSE "late"
                         [] OTHER -> m
  BY <1>1 DEF Marked
<1>3. /\ n \in MarkValues
      /\ s = "absent" => n = "absent"
      /\ s # "absent" /\ c # None => n = IF c <= OnTimeUntil THEN "on_time" ELSE "late"
  BY <1>2 DEF MarkValues
<1> HIDE DEF r
<1>4. d \in Attendance /\ d.status = s /\ d.check_in = c /\ d.attendance_mark = n
  BY <1>1, <1>2, <1>3 DEF Attendance
<1>5. c # None => (c <= OnTimeUntil <=> c \in 0..OnTimeUntil)
  BY RecordsAssumption
<1> QED
  BY <1>3, <1>4, <1>5 DEF Coherent

\* So is what a body makes of one.
LEMMA MarksSound ==
    ASSUME kind # "leave", NEW d \in MarkedRecords
    PROVE  d \in Attendance /\ Coherent(d)
<1>1. PICK s \in {"present", "absent"}, c \in CheckIns \cup {None}, m \in MarkValues :
         d = Marked([status |-> s, check_in |-> c, attendance_mark |-> m])
  BY DEF MarkedRecords
<1> QED
  BY <1>1, MarkedSound

LEMMA NewSound ==
    ASSUME IInv, NEW d \in New
    PROVE  d \in Data /\ Coherent(d)
<1>1. CASE kind = "leave"
  BY <1>1 DEF New, NewLeave, Data, Leave, Coherent
<1>2. CASE kind # "leave"
  BY <1>2, MarksSound DEF New, Data
<1> QED
  BY <1>1, <1>2

LEMMA EditedSound ==
    ASSUME IInv, row.state = "there", NEW d \in Edited(row.data)
    PROVE  /\ d \in Data /\ Coherent(d)
           /\ Decision(row.data) \in Leave \cup {None}
           /\ kind = "leave" => d = Decision(row.data)
<1>1. row.data \in Data /\ Coherent(row.data)
  BY DEF IInv, TypeOK, RecordsCoherent, Absent, Gone
<1>2. CASE kind = "leave"
  BY <1>1, <1>2 DEF Edited, Decision, Data
<1>3. CASE kind # "leave"
  BY <1>3, MarksSound DEF Edited, Data, Decision
<1> QED
  BY <1>2, <1>3

LEMMA ReceiveRecordInv ==
    ASSUME IInv, NEW w \in Workers, NEW u \in Users, ReceiveRecord(w, u)
    PROVE  IInv'
<1>1. UNCHANGED <<kind, row>>
  BY DEF ReceiveRecord
<1>2. ASSUME NEW d \in New, Receive(w, "create", u, None, d) PROVE IInv'
  <2>1. d \in Data /\ Coherent(d)
    BY NewSound
  <2>2. Typed([op |-> "create", actor |-> None, target |-> None, value |-> d])
    BY <2>1 DEF Typed, RecordTxn
  <2>3. Sound([op |-> "create", actor |-> None, target |-> None, value |-> d])
    BY <2>1 DEF Sound
  <2>4. Who("create", u) = None
    BY DEF Who, AdminOps
  <2> QED
    BY <1>1, <1>2, <2>2, <2>3, <2>4, ReceiveStep
<1>3. ASSUME row.state = "there", NEW d \in Edited(row.data), NEW s, s = Decision(row.data),
             Receive(w, "patch", u, None, [data |-> d, seen |-> s])
      PROVE  IInv'
  <2>1. d \in Data /\ Coherent(d) /\ s \in Leave \cup {None} /\ (kind = "leave" => d = s)
    BY <1>3, EditedSound
  <2>2. Typed([op |-> "patch", actor |-> None, target |-> None, value |-> [data |-> d, seen |-> s]])
    BY <2>1 DEF Typed, RecordTxn
  <2>3. Sound([op |-> "patch", actor |-> None, target |-> None, value |-> [data |-> d, seen |-> s]])
    BY <2>1 DEF Sound
  <2>4. Who("patch", u) = None
    BY DEF Who, AdminOps
  <2> QED
    BY <1>1, <1>3, <2>2, <2>3, <2>4, ReceiveStep
<1>4. ASSUME NEW op \in {"delete", "approve", "reject"}, op # "delete" => kind = "leave",
             Receive(w, op, u, None, None)
      PROVE  IInv'
  <2>0. Who(op, u) = IF op = "delete" THEN None ELSE u
    BY DEF Who, AdminOps
  <2>1. Typed([op |-> op, actor |-> Who(op, u), target |-> None, value |-> None])
    BY <2>0 DEF Typed, RecordTxn
  <2>2. Sound([op |-> op, actor |-> Who(op, u), target |-> None, value |-> None])
    BY <1>4 DEF Sound
  <2> QED
    BY <1>1, <1>4, <2>1, <2>2, ReceiveStep
<1>5. \/ \E d \in New : Receive(w, "create", u, None, d)
      \/ /\ row.state = "there"
         /\ \E d \in Edited(row.data) :
               Receive(w, "patch", u, None, [data |-> d, seen |-> Decision(row.data)])
      \/ \E op \in {"delete", "approve", "reject"} :
            (op # "delete" => kind = "leave") /\ Receive(w, op, u, None, None)
  BY DEF ReceiveRecord
<1> QED
  BY <1>2, <1>3, <1>4, <1>5

\* What a save makes of the row.
LEMMA SavedRow ==
    ASSUME IInv, NEW w \in Workers, Save(w)
    PROVE  row' = Gone \/ \E d \in Data : Coherent(d) /\ row' = There(d)
<1>1. Typed(txn[w]) /\ Sound(txn[w])
  BY DEF IInv, TypeOK, Typed
<1>2. CASE SaveNew(w)
  <2>1. txn[w] \in RecordTxn /\ txn[w].op = "create"
    BY <1>1, <1>2, OpsTell DEF SaveNew, RecordOps
  <2>2. txn[w].value \in Data
    BY <2>1 DEF RecordTxn
  <2> QED
    BY <1>1, <1>2, <2>1, <2>2 DEF SaveNew, Sound
<1>3. CASE SavePatch(w)
  <2>1. txn[w] \in RecordTxn /\ txn[w].op = "patch"
    BY <1>1, <1>3, OpsTell DEF SavePatch, RecordOps
  <2>2. txn[w].value.data \in Data
    BY <2>1 DEF RecordTxn
  <2> QED
    BY <1>1, <1>3, <2>1, <2>2 DEF SavePatch, Sound
<1>4. CASE Delete(w)
  BY <1>4 DEF Delete
<1>5. CASE Decide(w)
  <2>1. txn[w] \in RecordTxn /\ txn[w].op \in {"approve", "reject"}
    BY <1>1, <1>5, OpsTell DEF Decide, RecordOps
  <2>2. txn[w].actor \in Users /\ kind = "leave"
    BY <1>1, <2>1 DEF RecordTxn, Sound
  <2> DEFINE d == [status |-> IF txn[w].op = "approve" THEN "approved" ELSE "rejected",
                   approved_by |-> txn[w].actor]
  <2>3. d \in Data
    BY <2>2 DEF Data, Leave
  <2>4. Coherent(d)
    BY <2>2, AccessAssumption DEF Coherent
  <2>5. row' = There(d)
    BY <1>5 DEF Decide
  <2> HIDE DEF d
  <2> QED
    BY <2>3, <2>4, <2>5
<1> QED
  BY <1>2, <1>3, <1>4, <1>5 DEF Save

LEMMA SaveInv ==
    ASSUME IInv, NEW w \in Workers, Save(w)
    PROVE  IInv'
<1>1. users' = users /\ token' = token /\ kind' = kind /\ Goto(w, Idle)
  BY DEF Save
<1>2. /\ txn' \in [Workers -> {Idle} \cup AdminTxn \cup RecordTxn']
      /\ \A x \in Workers : Sound(txn[x])'
  BY <1>1, IdleSound, TxnStep
<1>3. Data' = Data
  BY <1>1 DEF Data
<1>4. row' \in {Absent, Gone} \cup [state : {"there"}, data : Data'] /\ RecordsCoherent'
  <2>1. CASE row' = Gone
    BY <2>1 DEF Gone, RecordsCoherent
  <2>2. ASSUME NEW d \in Data, Coherent(d), row' = There(d) PROVE <1>4!1 /\ <1>4!2
    <3>1. row' \in [state : {"there"}, data : Data'] /\ row'.data = d
      BY <1>3, <2>2 DEF There
    <3> QED
      BY <1>1, <2>2, <3>1 DEF RecordsCoherent, Coherent
  <2> QED
    BY <2>1, <2>2, SavedRow
<1> QED
  BY <1>1, <1>2, <1>4 DEF IInv, TypeOK

LEMMA NextInv == IInv /\ [Next]_vars => IInv'
<1>1. ASSUME IInv, UNCHANGED vars PROVE IInv'
  BY <1>1, AccountStep DEF vars, IInv, TypeOK
<1> QED
  BY <1>1, AccessInv, AbandonInv, ReceiveRecordInv, SaveInv DEF Next

LEMMA Invariant == Spec => []IInv
BY InitInv, NextInv, PTL DEF Spec

\* Accounts, tokens, the row and the requests keep their types.
THEOREM TypeCorrect == Spec => []TypeOK
<1>1. IInv => TypeOK
  BY DEF IInv
<1> QED
  BY <1>1, Invariant, PTL

\* No save, however old the row it was computed from, parts a leave request from its
\* approver or an attendance mark from its time of arrival.
THEOREM RecordsStayCoherent == Spec => []RecordsCoherent
<1>1. IInv => RecordsCoherent
  BY DEF IInv
<1> QED
  BY <1>1, Invariant, PTL

-----------------------------------------------------------------------------
\* A request of the administration takes the rights of its target at most, and of no
\* target but by a change of role or of somebody else's status.
LEMMA OneFalls ==
    ASSUME IInv, NEW w \in Workers, Administer(w), Admins # {}, Admins' = {}
    PROVE  \/ txn[w].actor \notin Admins
           \/ txn[w].op = "update_user" /\ txn[w].target = txn[w].actor
<1> DEFINE t == txn[w].target
<1>1. users \in [Users -> Account] /\ Typed(txn[w]) /\ Sound(txn[w])
  BY DEF IInv, TypeOK, Typed
<1>2. txn[w].op \in AdminOps /\ t \in Users
  BY <1>1, OpsTell DEF Administer, CreateUser, UpdateUser, DeactivateUser, SetStatus, AdminOps, AdminTxn
<1>3. \A u \in Users : u # t => users'[u] = users[u]
  BY <1>1, <1>2 DEF Administer, CreateUser, UpdateUser, DeactivateUser, SetStatus
<1>4. Admins = {t}
  <2>1. \A u \in Admins : u # t => u \in Admins'
    BY <1>3 DEF Admins
  <2> QED
    BY <2>1
<1>5. users[t].exists
  BY <1>4 DEF Admins, Usable
<1>6. txn[w].op \in {"update_user", "deactivate_user", "set_status"}
  BY <1>5 DEF Administer, CreateUser, UpdateUser, DeactivateUser, SetStatus
<1> QED
  BY <1>1, <1>4, <1>6 DEF Sound

\* Neither the commands nor a signup take anybody's rights.
LEMMA WhoEmpties ==
    ASSUME IInv, [Next]_vars, Admins # {}, Admins' = {}
    PROVE  \E w \in Workers : Administer(w)
<1>1. users \in [Users -> Account]
  BY DEF IInv, TypeOK
<1>2. users' # users
  BY DEF Admins
<1>3. ASSUME NEW u \in Users, SeedSuperadmin(u) PROVE FALSE
  <2>1. users'[u].exists /\ users'[u].is_active /\ users'[u].status = "active" /\ users'[u].is_superuser
    BY <1>1, <1>3 DEF SeedSuperadmin
  <2> QED
    BY <2>1 DEF Admins, Usable, Permits
<1>4. ASSUME NEW u \in Users, SignUp(u) \/ CreateSuperuser(u) PROVE FALSE
  <2>1. \A a \in Admins : a # u /\ users'[a] = users[a]
    BY <1>1, <1>4 DEF SignUp, CreateSuperuser, Admins, Usable
  <2> QED
    BY <2>1 DEF Admins
<1>5. ~UNCHANGED users
  BY <1>2
<1> QED
  BY <1>3, <1>4, <1>5
     DEF vars, Next, NextAccess, ReceiveAdmin, Receive, Issue, Tick, Abandon, Save, ReceiveRecord

\* The last superadmin falls only to a request that has outlived its actor's rights, or
\* to their own change of role.
THEOREM SoleAdminStays == Spec => SoleAdminSafe
<1>1. ASSUME IInv, [Next]_vars, Admins # {}, Admins' = {}
      PROVE  \E w \in Workers : /\ txn[w] # Idle /\ txn'[w] = Idle
                                /\ \/ txn[w].actor \notin Admins
                                   \/ txn[w].op = "update_user" /\ txn[w].target = txn[w].actor
  <2>1. PICK w \in Workers : Administer(w)
    BY <1>1, WhoEmpties
  <2>2. txn'[w] = Idle
    BY <1>1, <2>1 DEF IInv, TypeOK, Administer, Goto
  <2>3. txn[w] # Idle
    BY <2>1, AccessAssumption
       DEF Administer, CreateUser, UpdateUser, DeactivateUser, SetStatus, Idle, AdminOps
  <2> QED
    BY <1>1, <2>1, <2>2, <2>3, OneFalls
<1>2. IInv /\ [Next]_vars =>
        [Admins # {} /\ Admins' = {} =>
           \E w \in Workers : /\ txn[w] # Idle /\ txn'[w] = Idle
                              /\ \/ txn[w].actor \notin Admins
                                 \/ txn[w].op = "update_user" /\ txn[w].target = txn[w].actor]_access
  BY <1>1
<1> QED
  BY <1>2, Invariant, PTL DEF Spec, SoleAdminSafe

\* What a PATCH of a leave request saves is what it has loaded.
LEMMA DecisionStep ==
    ASSUME IInv, Next, kind = "leave", row.state = "there", row' # row
    PROVE  \E w \in Workers : /\ txn[w] # Idle /\ txn'[w] = Idle
                              /\ \/ txn[w].op \in {"approve", "reject", "delete"}
                                 \/ txn[w].op = "patch" /\ txn[w].value.seen # row.data
<1>1. PICK w \in Workers : Save(w)
  BY DEF Next, ReceiveRecord
<1>2. txn[w] # Idle /\ txn'[w] = Idle
  BY <1>1, RecordsAssumption
     DEF IInv, TypeOK, Save, SaveNew, SavePatch, Delete, Decide, Goto, Idle, RecordOps
<1>3. txn[w].op \in {"approve", "reject", "delete"} \/ SavePatch(w)
  BY <1>1 DEF Save, SaveNew, Delete, Decide, Absent
<1>4. ASSUME SavePatch(w), txn[w].value.seen = row.data PROVE FALSE
  <2>1. txn[w].value.data = row.data
    BY <1>4 DEF SavePatch, IInv, Sound
  <2>2. row = There(row.data)
    BY DEF IInv, TypeOK, Absent, Gone, There
  <2> QED
    BY <1>4, <2>1, <2>2 DEF SavePatch
<1>5. SavePatch(w) => txn[w].op = "patch"
  BY DEF SavePatch
<1> QED
  BY <1>2, <1>3, <1>4, <1>5

\* A decision on a leave request yields to another, to a deletion, and to a PATCH that
\* has not seen it.
THEOREM DecisionsStand == Spec => DecisionKept
<1>1. IInv /\ [Next]_vars =>
        [kind = "leave" /\ row.state = "there" /\ row.data.status # "pending" /\ row' # row =>
           \E w \in Workers : /\ txn[w] # Idle /\ txn'[w] = Idle
                              /\ \/ txn[w].op \in {"approve", "reject", "delete"}
                                 \/ txn[w].op = "patch" /\ txn[w].value.seen # row.data]_vars
  BY DecisionStep
<1> QED
  BY <1>1, Invariant, PTL DEF Spec, DecisionKept

-----------------------------------------------------------------------------
\* Who writes an account.
LEMMA WhoWrites ==
    ASSUME IInv, [Next]_vars, NEW u \in Users
    PROVE  \/ users'[u] = users[u]
           \/ SeedSuperadmin(u) \/ CreateSuperuser(u) \/ SignUp(u)
           \/ \E w \in Workers : Administer(w) /\ txn[w].target = u
<1>1. users \in [Users -> Account] /\ \A w \in Workers : Typed(txn[w])
  BY DEF IInv, TypeOK, Typed
<1>2. ASSUME NEW v \in Users, SeedSuperadmin(v) PROVE users'[u] = users[u] \/ SeedSuperadmin(u)
  BY <1>1, <1>2 DEF SeedSuperadmin
<1>3. ASSUME NEW v \in Users, CreateSuperuser(v) PROVE users'[u] = users[u] \/ CreateSuperuser(u)
  BY <1>1, <1>3 DEF CreateSuperuser
<1>4. ASSUME NEW v \in Users, SignUp(v) PROVE users'[u] = users[u] \/ SignUp(u)
  BY <1>1, <1>4 DEF SignUp
<1>5. ASSUME NEW w \in Workers, Administer(w)
      PROVE  users'[u] = users[u] \/ txn[w].target = u
  BY <1>1, <1>5 DEF Administer, CreateUser, UpdateUser, DeactivateUser, SetStatus
<1>6. \/ UNCHANGED users
      \/ \E v \in Users : SeedSuperadmin(v) \/ CreateSuperuser(v) \/ SignUp(v)
      \/ \E w \in Workers : Administer(w)
  BY DEF vars, Next, NextAccess, ReceiveAdmin, Receive, Issue, Tick, Abandon, Save, ReceiveRecord
<1> QED
  <2>1. CASE UNCHANGED users
    BY <2>1
  <2>2. CASE \E v \in Users : SeedSuperadmin(v) \/ CreateSuperuser(v) \/ SignUp(v)
    BY <1>2, <1>3, <1>4, <2>2
  <2>3. CASE \E w \in Workers : Administer(w)
    BY <1>5, <2>3
  <2> QED
    BY <1>6, <2>1, <2>2, <2>3

\* What a request of the administration makes of its target.
LEMMA AdministeredTarget ==
    ASSUME IInv, NEW w \in Workers, Administer(w)
    PROVE  /\ txn[w] # Idle /\ txn'[w] = Idle /\ txn[w].op \in AdminOps /\ txn[w].target \in Users
           /\ users'[txn[w].target].exists
           /\ users'[txn[w].target].is_superuser =>
                 users[txn[w].target].is_superuser /\ users[txn[w].target].exists
           /\ users[txn[w].target].exists =>
                 /\ users'[txn[w].target].is_superuser = users[txn[w].target].is_superuser
                 /\ \/ txn[w].op \in {"deactivate_user", "set_status"}
                    \/ /\ users'[txn[w].target].status = users[txn[w].target].status
                       /\ users'[txn[w].target].is_active = users[txn[w].target].is_active
<1>1. users \in [Users -> Account] /\ Typed(txn[w])
      /\ txn \in [Workers -> {Idle} \cup AdminTxn \cup RecordTxn]
  BY DEF IInv, TypeOK, Typed
<1>2. txn[w].op \in AdminOps
  BY DEF Administer, CreateUser, UpdateUser, DeactivateUser, SetStatus, AdminOps
<1>3. txn[w] # Idle /\ txn[w] \in AdminTxn
  BY <1>1, <1>2, OpsTell
<1>4. txn'[w] = Idle
  BY <1>1 DEF Administer, Goto
<1>5. txn[w].target \in Users
  BY <1>3 DEF AdminTxn
<1>6. PICK t, old, new : t = txn[w].target /\ old = users[t] /\ new = users'[t]
  OBVIOUS
<1>7. old \in Account
  BY <1>1, <1>5, <1>6
<1>8. /\ new.exists
      /\ new.is_superuser => old.is_superuser /\ old.exists
      /\ old.exists => new.is_superuser = old.is_superuser
      /\ old.exists => \/ txn[w].op \in {"deactivate_user", "set_status"}
                       \/ new.status = old.status /\ new.is_active = old.is_active
  <2>1. CASE CreateUser(w)
    <3>1. ~old.exists /\ new.exists /\ ~new.is_superuser
      BY <1>1, <1>5, <1>6, <2>1 DEF CreateUser
    <3> QED
      BY <3>1
  <2>2. CASE UpdateUser(w)
    <3>1. old.exists /\ new = [old EXCEPT !.role = txn[w].value]
      BY <1>1, <1>5, <1>6, <2>2 DEF UpdateUser
    <3>2. new.exists = old.exists /\ new.is_superuser = old.is_superuser
          /\ new.status = old.status /\ new.is_active = old.is_active
      BY <1>7, <3>1 DEF Account
    <3> QED
      BY <3>1, <3>2
  <2>3. CASE DeactivateUser(w)
    <3>1. old.exists /\ new = [old EXCEPT !.status = "suspended", !.is_active = FALSE]
      BY <1>1, <1>5, <1>6, <2>3 DEF DeactivateUser
    <3>2. new.exists = old.exists /\ new.is_superuser = old.is_superuser
      BY <1>7, <3>1 DEF Account
    <3> QED
      BY <2>3, <3>1, <3>2 DEF DeactivateUser
  <2>4. CASE SetStatus(w)
    <3>1. old.exists /\ new = [old EXCEPT !.status = txn[w].value,
                                          !.is_active = txn[w].value = "active" \/ old.is_active]
      BY <1>1, <1>5, <1>6, <2>4 DEF SetStatus
    <3>2. new.exists = old.exists /\ new.is_superuser = old.is_superuser
      BY <1>7, <3>1 DEF Account
    <3> QED
      BY <2>4, <3>1, <3>2 DEF SetStatus
  <2> QED
    BY <2>1, <2>2, <2>3, <2>4 DEF Administer
<1> QED
  BY <1>2, <1>3, <1>4, <1>5, <1>6, <1>8

\* The accounts there are at first are all invited.
LEMMA StartsOut ==
    ASSUME Init, NEW u \in Users
    PROVE  users[u].status = "invited" /\ (users[u].is_superuser => users[u].exists)
<1>1. Nobody.status = "invited" /\ ~Nobody.is_superuser
  BY DEF Nobody
<1>2. \A r \in Earlier : r.status = "invited" /\ r.exists
  BY DEF Earlier
<1>3. users[u] \in {Nobody} \cup Earlier
  BY DEF Init, InitAccess
<1> QED
  BY <1>1, <1>2, <1>3

SuperusersExist == \A u \in Users : users[u].is_superuser => users[u].exists

\* What becomes of a superuser, and what makes one.
LEMMA SuperuserStep ==
    ASSUME IInv, SuperusersExist, [Next]_vars, NEW u \in Users
    PROVE  /\ users[u].is_superuser => users'[u].is_superuser
           /\ users'[u].is_superuser => users'[u].exists
           /\ users'[u].is_superuser /\ ~users[u].is_superuser => SeedSuperadmin(u) \/ CreateSuperuser(u)
<1>1. users \in [Users -> Account]
  BY DEF IInv, TypeOK
<1>2. users[u].is_superuser => users[u].exists
  BY DEF SuperusersExist
<1>3. CASE users'[u] = users[u]
  BY <1>2, <1>3
<1>4. CASE SeedSuperadmin(u)
  <2>1. users'[u].is_superuser /\ users'[u].exists
    BY <1>1, <1>4 DEF SeedSuperadmin
  <2> QED
    BY <1>4, <2>1
<1>5. CASE CreateSuperuser(u)
  <2>1. users'[u].is_superuser /\ users'[u].exists
    BY <1>1, <1>5 DEF CreateSuperuser, Nobody
  <2> QED
    BY <1>5, <2>1
<1>6. CASE SignUp(u)
  <2>1. ~users[u].exists /\ ~users'[u].is_superuser
    BY <1>1, <1>6 DEF SignUp, Nobody
  <2> QED
    BY <1>2, <2>1
<1>7. ASSUME NEW w \in Workers, Administer(w), txn[w].target = u
      PROVE  /\ users[u].is_superuser => users'[u].is_superuser
             /\ users'[u].is_superuser => users'[u].exists /\ users[u].is_superuser
  BY <1>2, <1>7, AdministeredTarget
<1> QED
  BY <1>3, <1>4, <1>5, <1>6, <1>7, WhoWrites

LEMMA SuperusersThere == Spec => []SuperusersExist
<1>1. Init => SuperusersExist
  BY StartsOut DEF SuperusersExist
<1>2. IInv /\ SuperusersExist /\ [Next]_vars => SuperusersExist'
  BY SuperuserStep DEF SuperusersExist
<1> QED
  BY <1>1, <1>2, Invariant, PTL DEF Spec

\* Whoever is a superuser stays one, and nobody becomes one by a request: only the seed
\* command and createsuperuser make superusers.
THEOREM SuperusersStand == Spec => SuperusersForGood
<1>1. IInv /\ SuperusersExist /\ [Next]_vars =>
        [\A u \in Users :
            /\ users[u].is_superuser => users'[u].is_superuser
            /\ users'[u].is_superuser /\ ~users[u].is_superuser =>
                  SeedSuperadmin(u) \/ CreateSuperuser(u)]_access
  BY SuperuserStep
<1> QED
  BY <1>1, Invariant, SuperusersThere, PTL DEF Spec, SuperusersForGood

\* A superuser who administers does so until somebody else changes their status:
\* is_superuser outlives every change of role.
THEOREM SuperusersStay == Spec => SuperusersKept
<1>1. ASSUME IInv, SuperusersExist, [Next]_vars,
             NEW u \in Admins, users[u].is_superuser, u \notin Admins'
      PROVE  \E w \in Workers : /\ txn[w] # Idle /\ txn'[w] = Idle
                                /\ txn[w].op \in {"deactivate_user", "set_status"}
                                /\ txn[w].target = u /\ txn[w].actor # u
  <2>1. u \in Users /\ users \in [Users -> Account]
    BY <1>1 DEF IInv, TypeOK, Admins
  <2>2. users[u].exists /\ users[u].is_active /\ users[u].status = "active"
    BY <1>1 DEF Admins, Usable
  <2>3. users'[u].is_superuser /\ users'[u].exists
    BY <1>1, <2>1, SuperuserStep
  <2>4. ~(users'[u].is_active /\ users'[u].status = "active")
    BY <1>1, <2>1, <2>3 DEF Admins, Usable, Permits
  <2>5. ~SignUp(u) /\ ~CreateSuperuser(u)
    BY <2>2 DEF SignUp, CreateSuperuser
  <2>6. ~SeedSuperadmin(u)
    BY <2>1, <2>4 DEF SeedSuperadmin
  <2>7. PICK w \in Workers : Administer(w) /\ txn[w].target = u
    BY <1>1, <2>1, <2>2, <2>4, <2>5, <2>6, WhoWrites
  <2>8. txn[w].op \in {"deactivate_user", "set_status"} /\ txn[w] # Idle /\ txn'[w] = Idle
    BY <1>1, <2>2, <2>4, <2>7, AdministeredTarget
  <2>9. txn[w].actor # u
    BY <1>1, <2>7, <2>8 DEF IInv, Sound
  <2> QED
    BY <2>7, <2>8, <2>9
<1>2. IInv /\ SuperusersExist /\ [Next]_vars =>
        [\A u \in Admins : users[u].is_superuser /\ u \notin Admins' =>
           \E w \in Workers : /\ txn[w] # Idle /\ txn'[w] = Idle
                              /\ txn[w].op \in {"deactivate_user", "set_status"}
                              /\ txn[w].target = u /\ txn[w].actor # u]_access
  BY <1>1
<1> QED
  BY <1>2, Invariant, SuperusersThere, PTL DEF Spec, SuperusersKept

\* Nobody gets in by a signup or by createsuperuser.
LEMMA NobodyInNext ==
    ASSUME IInv, NobodyIn, [Next]_vars, \A u \in Users : ~SeedSuperadmin(u)
    PROVE  NobodyIn'
<1>1. /\ users \in [Users -> Account] /\ token \in [Users -> 0..Lifetime]
      /\ txn \in [Workers -> {Idle} \cup AdminTxn \cup RecordTxn]
  BY DEF IInv, TypeOK
<1>2. /\ \A u \in Users : ~Usable(users[u]) /\ token[u] = 0
      /\ \A w \in Workers : txn[w] = Idle
  BY DEF NobodyIn
<1>3. \A w \in Workers : ~Administer(w)
  BY <1>2, AdministeredTarget
<1>4. ASSUME NEW u \in Users PROVE ~Usable(users'[u])
  <2>1. SignUp(u) \/ CreateSuperuser(u) => users'[u].status = "invited"
    BY <1>1 DEF SignUp, CreateSuperuser, Nobody
  <2>2. users'[u] = users[u] \/ CreateSuperuser(u) \/ SignUp(u)
    BY <1>3, WhoWrites
  <2> QED
    BY <1>2, <2>1, <2>2 DEF Usable
<1>5. \A u \in Users : \A op : ~MayAct(u, op)
  BY <1>2 DEF MayAct
<1>6. txn' = txn /\ token' = token
  <2>1. \A w \in Workers : ~Save(w) /\ ~Abandon(w)
    BY <1>2, RecordsAssumption
       DEF Save, SaveNew, SavePatch, Delete, Decide, Idle, RecordOps, Abandon
  <2>2. \A w \in Workers, u \in Users : \A op : ~Admitted(w, op, u)
    BY <1>5 DEF Admitted
  <2>3. \A w \in Workers, u, t \in Users : ~ReceiveAdmin(w, u, t)
    BY <2>2 DEF ReceiveAdmin
  <2>4. \A w \in Workers, u \in Users : ~ReceiveRecord(w, u)
    BY <2>2 DEF ReceiveRecord
  <2>5. ~Tick /\ \A u \in Users : ~Issue(u)
    BY <1>2 DEF Tick, Issue
  <2> QED
    BY <1>3, <2>1, <2>3, <2>4, <2>5 DEF Next, NextAccess, SignUp, CreateSuperuser, vars
<1> QED
  BY <1>2, <1>4, <1>6 DEF NobodyIn

\* Without the seed command nobody is ever in: no account can log in and no request that
\* writes is admitted, whoever signs up and whatever superusers createsuperuser made.
THEOREM RightsComeFromSeed ==
    Spec /\ [][\A u \in Users : ~SeedSuperadmin(u)]_vars => []NobodyIn
<1>1. Init => NobodyIn
  BY StartsOut DEF Init, InitAccess, NobodyIn, Usable
<1>2. IInv /\ NobodyIn /\ [Next]_vars /\ [\A u \in Users : ~SeedSuperadmin(u)]_vars => NobodyIn'
  <2>1. IInv /\ NobodyIn /\ UNCHANGED vars => NobodyIn'
    BY DEF vars, NobodyIn
  <2> QED
    BY <2>1, NobodyInNext
<1> QED
  BY <1>1, <1>2, Invariant, PTL DEF Spec

-----------------------------------------------------------------------------
\* Requests served one at a time.

\* The actor of a request of the administration still administers.
ActorsAdminister == \A w \in Workers : txn[w].op \in AdminOps => txn[w].actor \in Admins

\* A request on a row has loaded it as it is.
RowsFresh ==
    \A w \in Workers : txn[w].op \in {"patch", "delete", "approve", "reject"} =>
        /\ row.state = "there"
        /\ txn[w].op = "patch" /\ kind = "leave" => txn[w].value.seen = row.data

\* What an action does to the only request there is.
LEMMA OnlyRequest ==
    ASSUME IInv, NEW w, Workers = {w}, [Next]_vars
    PROVE  \/ txn'[w] = Idle
           \/ txn'[w] = txn[w] /\ (\A u \in Admins : u \in Admins') /\ UNCHANGED <<kind, row>>
           \/ /\ UNCHANGED <<users, kind, row>>
              /\ \E u, t \in Users : ReceiveAdmin(w, u, t)
           \/ /\ UNCHANGED <<users, kind, row>>
              /\ \E u \in Users : ReceiveRecord(w, u)
<1>1. users \in [Users -> Account] /\ txn \in [Workers -> {Idle} \cup AdminTxn \cup RecordTxn]
  BY DEF IInv, TypeOK
<1>2. CASE UNCHANGED vars
  BY <1>2 DEF vars, Admins
<1>3. ASSUME NEW v \in Users, SeedSuperadmin(v), UNCHANGED <<kind, row>>
      PROVE  txn'[w] = txn[w] /\ (\A u \in Admins : u \in Admins') /\ UNCHANGED <<kind, row>>
  <2>1. txn' = txn /\ \A u \in Users : u # v => users'[u] = users[u]
    BY <1>1, <1>3 DEF SeedSuperadmin
  <2>2. /\ users'[v].exists /\ users'[v].is_active
        /\ users'[v].status = "active" /\ users'[v].is_superuser
    BY <1>1, <1>3 DEF SeedSuperadmin
  <2>3. \A u \in Admins : u \in Admins'
    BY <2>1, <2>2 DEF Admins, Usable, Permits
  <2> QED
    BY <1>3, <2>1, <2>3
<1>4. ASSUME NEW v \in Users, SignUp(v) \/ CreateSuperuser(v), UNCHANGED <<kind, row>>
      PROVE  txn'[w] = txn[w] /\ (\A u \in Admins : u \in Admins') /\ UNCHANGED <<kind, row>>
  <2>1. txn' = txn /\ \A u \in Users : u # v => users'[u] = users[u]
    BY <1>1, <1>4 DEF SignUp, CreateSuperuser
  <2>2. v \notin Admins
    BY <1>4 DEF SignUp, CreateSuperuser, Admins, Usable
  <2>3. \A u \in Admins : u \in Admins'
    BY <2>1, <2>2 DEF Admins
  <2> QED
    BY <1>4, <2>1, <2>3
<1>5. ASSUME (\E v \in Users : Issue(v)) \/ Tick, UNCHANGED <<kind, row>>
      PROVE  txn'[w] = txn[w] /\ (\A u \in Admins : u \in Admins') /\ UNCHANGED <<kind, row>>
  BY <1>5 DEF Issue, Tick, Admins
<1>6. Administer(w) \/ Abandon(w) \/ Save(w) => txn'[w] = Idle
  BY <1>1 DEF Administer, Abandon, Save, Goto
<1>7. ASSUME NEW u \in Users, NEW t \in Users, ReceiveAdmin(w, u, t)
      PROVE  UNCHANGED users
  BY <1>7 DEF ReceiveAdmin, Receive
<1>8. ASSUME NEW u \in Users, ReceiveRecord(w, u)
      PROVE  UNCHANGED <<users, kind, row>>
  BY <1>8 DEF ReceiveRecord, Receive
<1>9. CASE NextAccess /\ UNCHANGED <<kind, row>>
  BY <1>3, <1>4, <1>5, <1>6, <1>7, <1>9 DEF NextAccess
<1>10. CASE Abandon(w) \/ Save(w) \/ \E u \in Users : ReceiveRecord(w, u)
  BY <1>6, <1>8, <1>10
<1> QED
  BY <1>2, <1>9, <1>10 DEF Next

\* With one request at a time, and nobody changing their own role, a system that has a
\* superadmin keeps one: the last superadmin falls by interleaving or by their own hand.
THEOREM SerialAdmins ==
    ASSUME NEW w, Workers = {w}
    PROVE  Spec /\ [][NoneStepsDown]_vars => AdminStays
<1>1. Init => ActorsAdminister
  BY AccessAssumption DEF Init, InitAccess, ActorsAdminister, Idle
<1>2. ASSUME IInv, ActorsAdminister, [Next]_vars PROVE ActorsAdminister'
  <2>1. SUFFICES ASSUME txn'[w].op \in AdminOps PROVE txn'[w].actor \in Admins'
    BY DEF ActorsAdminister
  <2>2. txn'[w] # Idle
    BY <2>1, AccessAssumption DEF Idle
  <2>3. ASSUME NEW u \in Users, NEW t \in Users, ReceiveAdmin(w, u, t)
        PROVE  txn'[w].actor \in Admins
    <3>1. PICK op \in AdminOps :
             /\ MayAct(u, op)
             /\ \E v : Goto(w, [op |-> op, actor |-> u, target |-> t, value |-> v])
      BY <2>3 DEF ReceiveAdmin, Admitted, Receive, Who
    <3>2. txn'[w].actor = u
      BY <1>2, <3>1 DEF Goto, IInv, TypeOK
    <3>3. u \in Admins
      BY <3>1 DEF MayAct, Admins, Permits, AdminOps
    <3> QED
      BY <3>2, <3>3
  <2>4. ASSUME NEW u \in Users, ReceiveRecord(w, u) PROVE FALSE
    <3>1. txn'[w].op \in RecordOps
      BY <1>2, <2>4 DEF ReceiveRecord, Receive, Goto, IInv, TypeOK, RecordOps
    <3> QED
      BY <2>1, <3>1 DEF AdminOps, RecordOps
  <2>5. CASE txn'[w] = txn[w] /\ (\A u \in Admins : u \in Admins') /\ UNCHANGED <<kind, row>>
    BY <1>2, <2>1, <2>5 DEF ActorsAdminister
  <2>6. UNCHANGED users => \A u \in Admins : u \in Admins'
    BY DEF Admins
  <2> QED
    BY <1>2, <2>2, <2>3, <2>4, <2>5, <2>6, OnlyRequest
<1>3. ASSUME IInv, ActorsAdminister, [Next]_vars, [NoneStepsDown]_vars, Admins # {}, Admins' = {}
      PROVE  FALSE
  <2>1. PICK v \in Workers : Administer(v)
    BY <1>3, WhoEmpties
  <2>2. txn[v].op \in AdminOps
    BY <2>1 DEF Administer, CreateUser, UpdateUser, DeactivateUser, SetStatus, AdminOps
  <2>3. txn[v].actor \in Admins
    BY <1>3, <2>2 DEF ActorsAdminister
  <2>4. NoneStepsDown
    <3>1. users' # users
      BY <1>3 DEF Admins
    <3> QED
      BY <1>3, <3>1 DEF vars
  <2> QED
    BY <1>3, <2>1, <2>3, <2>4, OneFalls DEF NoneStepsDown
<1>4. IInv /\ ActorsAdminister /\ [Next]_vars => ActorsAdminister'
  BY <1>2
<1>5. IInv /\ ActorsAdminister /\ [Next]_vars /\ [NoneStepsDown]_vars => [Admins # {} => Admins' # {}]_access
  BY <1>3
<1> QED
  BY <1>1, <1>4, <1>5, Invariant, PTL DEF Spec, AdminStays

\* While what requests have loaded is fresh, nothing takes a deletion or a decision back.
LEMMA FreshKeeps == Spec /\ []RowsFresh => DeletionsStand /\ DecisionsFinal
<1>1. ASSUME IInv, RowsFresh, Next, row = Gone, row' # Gone PROVE FALSE
  <2>1. PICK v \in Workers : Save(v)
    BY <1>1 DEF Next, ReceiveRecord
  <2>2. row.state = "gone"
    BY <1>1 DEF Gone
  <2> QED
    BY <1>1, <2>1, <2>2 DEF Save, SaveNew, SavePatch, Delete, Decide, RowsFresh, Absent
<1>2. ASSUME IInv, RowsFresh, Next, kind = "leave", row.state = "there", row' # row
      PROVE  \E v \in Workers : /\ txn[v] # Idle /\ txn'[v] = Idle
                                /\ txn[v].op \in {"approve", "reject", "delete"}
  <2>1. PICK v \in Workers : /\ txn[v] # Idle /\ txn'[v] = Idle
                             /\ \/ txn[v].op \in {"approve", "reject", "delete"}
                                \/ txn[v].op = "patch" /\ txn[v].value.seen # row.data
    BY <1>2, DecisionStep
  <2> QED
    BY <1>2, <2>1 DEF RowsFresh
<1>3. IInv /\ RowsFresh /\ [Next]_vars => [row = Gone => row' = Gone]_vars
  BY <1>1
<1>4. IInv /\ RowsFresh /\ [Next]_vars =>
        [kind = "leave" /\ row.state = "there" /\ row.data.status # "pending" /\ row' # row =>
           \E w \in Workers : /\ txn[w] # Idle /\ txn'[w] = Idle
                              /\ txn[w].op \in {"approve", "reject", "delete"}]_vars
  BY <1>2
<1> QED
  BY <1>3, <1>4, Invariant, PTL DEF Spec, DeletionsStand, DecisionsFinal

\* With one request at a time what is deleted stays deleted and a decision is final: only a
\* PATCH that loaded the row before takes them back.
THEOREM SerialRecords ==
    ASSUME NEW x, Workers = {x}
    PROVE  Spec => DeletionsStand /\ DecisionsFinal
<1>1. Init => RowsFresh
  BY RecordsAssumption DEF Init, InitAccess, RowsFresh, Idle, RecordOps
<1>2. ASSUME IInv, RowsFresh, [Next]_vars PROVE RowsFresh'
  <2>1. SUFFICES ASSUME txn'[x].op \in {"patch", "delete", "approve", "reject"}
                 PROVE  /\ row'.state = "there"
                        /\ txn'[x].op = "patch" /\ kind' = "leave" => txn'[x].value.seen = row'.data
    BY DEF RowsFresh
  <2>2. txn'[x] # Idle
    BY <2>1, RecordsAssumption DEF Idle, RecordOps
  <2>3. ASSUME NEW u \in Users, NEW t \in Users, ReceiveAdmin(x, u, t) PROVE FALSE
    <3>1. txn'[x].op \in AdminOps
      BY <1>2, <2>3 DEF ReceiveAdmin, Receive, Goto, IInv, TypeOK
    <3> QED
      BY <2>1, <3>1 DEF AdminOps
  <2>4. ASSUME NEW u \in Users, ReceiveRecord(x, u)
        PROVE  /\ row.state = "there"
               /\ txn'[x].op = "patch" /\ kind = "leave" => txn'[x].value.seen = row.data
    <3>1. PICK op, v :
             /\ Goto(x, [op |-> op, actor |-> Who(op, u), target |-> None, value |-> v])
             /\ \/ op = "create"
                \/ row.state = "there" /\ op # "patch"
                \/ /\ row.state = "there" /\ op = "patch"
                   /\ \E d \in Edited(row.data) : v = [data |-> d, seen |-> Decision(row.data)]
      <4>1. ASSUME NEW op, NEW v, Receive(x, op, u, None, v)
            PROVE  Goto(x, [op |-> op, actor |-> Who(op, u), target |-> None, value |-> v])
        BY <4>1 DEF Receive
      <4>2. CASE \E d \in New : Receive(x, "create", u, None, d)
        BY <4>1, <4>2
      <4>3. CASE row.state = "there" /\ \E d \in Edited(row.data) :
                    Receive(x, "patch", u, None, [data |-> d, seen |-> Decision(row.data)])
        <5>1. PICK d \in Edited(row.data) :
                 Receive(x, "patch", u, None, [data |-> d, seen |-> Decision(row.data)])
          BY <4>3
        <5>2. Goto(x, [op |-> "patch", actor |-> Who("patch", u), target |-> None,
                       value |-> [data |-> d, seen |-> Decision(row.data)]])
          BY <4>1, <5>1
        <5> QED
          BY <4>3, <5>2
      <4>4. CASE row.state = "there" /\ Receive(x, "delete", u, None, None)
        <5>1. Goto(x, [op |-> "delete", actor |-> Who("delete", u), target |-> None, value |-> None])
          BY <4>1, <4>4
        <5>2. "delete" # "patch"
          OBVIOUS
        <5> QED
          BY <4>4, <5>1, <5>2
      <4>5. CASE row.state = "there" /\ Receive(x, "approve", u, None, None)
        <5>1. Goto(x, [op |-> "approve", actor |-> Who("approve", u), target |-> None, value |-> None])
          BY <4>1, <4>5
        <5>2. "approve" # "patch"
          OBVIOUS
        <5> QED
          BY <4>5, <5>1, <5>2
      <4>6. CASE row.state = "there" /\ Receive(x, "reject", u, None, None)
        <5>1. Goto(x, [op |-> "reject", actor |-> Who("reject", u), target |-> None, value |-> None])
          BY <4>1, <4>6
        <5>2. "reject" # "patch"
          OBVIOUS
        <5> QED
          BY <4>6, <5>1, <5>2
      <4> QED
        BY <2>4, <4>2, <4>3, <4>4, <4>5, <4>6 DEF ReceiveRecord
    <3>2. txn'[x] = [op |-> op, actor |-> Who(op, u), target |-> None, value |-> v]
      BY <1>2, <3>1 DEF Goto, IInv, TypeOK
    <3>3. txn'[x].op = op /\ txn'[x].value = v
      BY <3>2
    <3> QED
      BY <2>1, <3>1, <3>3 DEF Decision
  <2>5. CASE txn'[x] = txn[x] /\ (\A u \in Admins : u \in Admins') /\ UNCHANGED <<kind, row>>
    BY <1>2, <2>1, <2>5 DEF RowsFresh
  <2> QED
    BY <1>2, <2>2, <2>3, <2>4, <2>5, OnlyRequest
<1>3. IInv /\ RowsFresh /\ [Next]_vars => RowsFresh'
  BY <1>2
<1>4. Spec => []RowsFresh
  BY <1>1, <1>3, Invariant, PTL DEF Spec
<1> QED
  BY <1>4, FreshKeeps, PTL

=============================================================================
