-------------------------- MODULE Personnel_proofs --------------------------
(***************************************************************************)
(* Proofs about Personnel, for any sets of employees, organizations and    *)
(* workers.                                                                *)
(*                                                                         *)
(* The histories rest on one fact: when a request writes a living row, the *)
(* old values it compares with are the row's.  For the API that is the     *)
(* lock; for the admin site it is row_version: every write of a row but    *)
(* `delete selected' adds one to it, so a row that still has the version   *)
(* of the form has at most been deleted since, and what the signal read    *)
(* then is what is there now, or was read of a row no longer alive.        *)
(***************************************************************************)
EXTENDS Personnel, TLAPS

\* The fields of a request belong together.
WellFormed(w) ==
    /\ txn[w].pc = "idle" <=> txn[w].op = None
    /\ txn[w].op \in {"create", "update", "delete", "admin", "remove"} => txn[w].emp \in Employees
    /\ txn[w].op \in {"create", "head", "activate", "unit"} => txn[w].org \in Organizations
    /\ txn[w].pc \in {"form", "posted"} => txn[w].op = "admin"
    /\ txn[w].pc = "read" => txn[w].op \in {"admin", "remove"}
    /\ txn[w].pc = "check" => txn[w].op = "delete"
    /\ txn[w].pc = "lock" => txn[w].op \notin {"admin", "create", "remove"}
    /\ txn[w].op = "admin" /\ txn[w].pc # "form" => txn[w].org \in Organizations
    /\ txn[w].op \in {"create", "admin"} => txn[w].status \in Statuses

\* The row of a new employee is not there yet.
Creating(w) == txn[w].op = "create" => row[txn[w].emp].state = "absent"

\* What the signal read is what the row holds, unless it found the row deleted.
ReadWell(w) ==
    \/ txn[w].old = Values(txn[w].emp)
    \/ txn[w].old = Nothing /\ ~Alive(txn[w].emp)

\* A form is never ahead of its row; while the row has the form's version, the signal
\* has read well.
FormSound(w) ==
    txn[w].pc \in {"form", "posted", "read"} =>
        /\ row[txn[w].emp].state # "absent"
        /\ txn[w].version <= row[txn[w].emp].version
        /\ /\ txn[w].op = "admin" /\ txn[w].pc = "read"
           /\ txn[w].version = row[txn[w].emp].version
           => ReadWell(w)

\* Who holds a row knows its values.
HolderKnows(w) ==
    txn[w].op \in {"update", "delete", "admin", "remove"} /\ txn[w].pc \in {"check", "save"} =>
        /\ row[txn[w].emp].state # "absent"
        /\ txn[w].op \in {"update", "delete"} => Alive(txn[w].emp)
        /\ txn[w].op # "delete" => txn[w].version = row[txn[w].emp].version
        /\ txn[w].op = "update" => txn[w].old = Values(txn[w].emp)
        /\ txn[w].op = "admin" => ReadWell(w)
        /\ txn[w].op \in {"update", "admin"} =>
               /\ txn[w].status \in Statuses
               /\ txn[w].org = row[txn[w].emp].org \/ txn[w].org \in Organizations

\* What a deletion found at its dependency check is still so.
Headless(w) == txn[w].op = "delete" /\ txn[w].pc = "save" => Heads(txn[w].emp) = {}

Sound(w) == WellFormed(w) /\ Creating(w) /\ FormSound(w) /\ HolderKnows(w) /\ Headless(w)

\* One request at most holds a row, and one at most is about to create it.
Exclusive ==
    \A v, w \in Workers : \A e \in Employees :
        \/ LocksRow(v, e) /\ LocksRow(w, e)
        \/ txn[v].op = "create" /\ txn[v].emp = e /\ txn[w].op = "create" /\ txn[w].emp = e
        => v = w

\* An employee who does not exist has no past.
NoPast ==
    \A e \in Employees : row[e].state = "absent" =>
        row[e].org = None /\ row[e].version = 0 /\ changes[e] = <<>>

IInv ==
    /\ TypeOK
    /\ StatusHistoryIsPath
    /\ NoPast
    /\ Exclusive
    /\ \A w \in Workers : Sound(w)

-----------------------------------------------------------------------------
\* Requests that do not move keep what is said of them while the data stay.
LEMMA Unmoved ==
    ASSUME NEW v \in Workers, txn'[v] = txn[v], Quiet, Sound(v)
    PROVE  Sound(v)'
BY DEF Sound, WellFormed, Creating, FormSound, ReadWell, HolderKnows, Headless, Quiet, Alive, Values, Heads

\* A worker that becomes idle.
LEMMA IdleSound ==
    ASSUME NEW w \in Workers, txn'[w] = Idle
    PROVE  /\ Sound(w)'
           /\ \A e \in Employees : ~LocksRow(w, e)'
           /\ txn'[w].op # "create"
BY PersonnelAssumption DEF Idle, Sound, WellFormed, Creating, FormSound, ReadWell, HolderKnows, Headless, LocksRow, Ops

\* A request takes only rows that nobody has.
LEMMA ExclusiveStep ==
    ASSUME TypeOK, Exclusive, NEW w \in Workers,
           \A v \in Workers \ {w} : txn'[v] = txn[v],
           \A e \in Employees : LocksRow(w, e)' => LocksRow(w, e) \/ RowFree(w, e),
           txn'[w].op = "create" =>
               \A v \in Workers \ {w} : txn[v].op = "create" => txn[v].emp # txn'[w].emp
    PROVE  Exclusive'
<1>1. \A v \in Workers \ {w} : \A e \in Employees : LocksRow(v, e)' <=> LocksRow(v, e)
  BY DEF LocksRow
<1>2. ASSUME NEW v \in Workers, NEW x \in Workers, NEW e \in Employees,
             LocksRow(v, e)', LocksRow(x, e)'
      PROVE  v = x
  <2>1. CASE v # w /\ x # w
    BY <1>1, <1>2, <2>1 DEF Exclusive
  <2>2. CASE v = w /\ x # w
    BY <1>1, <1>2, <2>2 DEF Exclusive, RowFree
  <2>3. CASE v # w /\ x = w
    BY <1>1, <1>2, <2>3 DEF Exclusive, RowFree
  <2> QED
    BY <2>1, <2>2, <2>3
<1>3. ASSUME NEW v \in Workers, NEW x \in Workers, NEW e \in Employees,
             txn'[v].op = "create", txn'[v].emp = e, txn'[x].op = "create", txn'[x].emp = e
      PROVE  v = x
  BY <1>3 DEF Exclusive
<1> QED
  BY <1>2, <1>3 DEF Exclusive

\* A step of one request that writes nothing.
LEMMA LocalStep ==
    ASSUME IInv, NEW w \in Workers, NEW t \in Txn, Goto(w, t), Quiet, Sound(w)',
           \A e \in Employees : LocksRow(w, e)' => LocksRow(w, e) \/ RowFree(w, e),
           t.op = "create" => \A v \in Workers \ {w} : txn[v].op = "create" => txn[v].emp # t.emp
    PROVE  IInv'
<1>1. txn'[w] = t /\ \A v \in Workers \ {w} : txn'[v] = txn[v]
  BY DEF IInv, TypeOK, Goto
<1>2. TypeOK' /\ StatusHistoryIsPath' /\ NoPast'
  BY DEF IInv, TypeOK, Goto, Quiet, StatusHistoryIsPath, NoPast
<1>3. Exclusive'
  BY <1>1, ExclusiveStep DEF IInv
<1>4. \A v \in Workers \ {w} : Sound(v)'
  BY <1>1, Unmoved DEF IInv
<1> QED
  BY <1>2, <1>3, <1>4 DEF IInv

\* A request that ends without writing.
LEMMA Ends ==
    ASSUME IInv, NEW w \in Workers, Goto(w, Idle), Quiet
    PROVE  IInv'
<1>1. txn'[w] = Idle
  BY DEF IInv, TypeOK, Goto
<1>2. Idle \in Txn /\ Idle.op # "create"
  BY PersonnelAssumption DEF Idle, Txn, Nothing, Ops
<1> QED
  BY <1>1, <1>2, IdleSound, LocalStep

-----------------------------------------------------------------------------
LEMMA InitInv == Init => IInv
<1> SUFFICES ASSUME Init PROVE IInv
  OBVIOUS
<1>1. TypeOK
  BY PersonnelAssumption DEF Init, TypeOK, Row, Unit, Txn, Idle, Nothing
<1>2. StatusHistoryIsPath /\ NoPast
  BY DEF Init, StatusHistoryIsPath, NoPast
<1>3. \A w \in Workers : txn[w] = Idle
  BY DEF Init
<1>4. Exclusive
  BY <1>3, PersonnelAssumption DEF Exclusive, LocksRow, Idle, Ops
<1>5. \A w \in Workers : Sound(w)
  BY <1>3, PersonnelAssumption
     DEF Sound, WellFormed, Creating, FormSound, ReadWell, HolderKnows, Headless, Idle, Ops
<1> QED
  BY <1>1, <1>2, <1>4, <1>5 DEF IInv

LEMMA BeginInv ==
    ASSUME IInv, NEW w \in Workers, Begin(w)
    PROVE  IInv'
<1>1. ASSUME NEW e \in Employees, NEW o \in Organizations, NEW s \in Statuses, BeginCreate(w, e, o, s)
      PROVE  IInv'
  <2> DEFINE t == [Idle EXCEPT !.pc = "save", !.op = "create", !.emp = e, !.org = o, !.status = s]
  <2>1. t \in Txn /\ t.op = "create" /\ t.emp = e
    BY DEF Idle, Nothing, Txn, Ops
  <2>2. txn'[w] = t
    BY <1>1 DEF IInv, TypeOK, Goto, BeginCreate
  <2>3. Sound(w)' /\ \A d \in Employees : ~LocksRow(w, d)'
    BY <1>1, <2>2, PersonnelAssumption
       DEF BeginCreate, Quiet, Idle, Sound, WellFormed, Creating, FormSound, ReadWell, HolderKnows, Headless,
           LocksRow, Ops
  <2>4. Goto(w, t) /\ Quiet /\ \A v \in Workers : txn[v].op = "create" => txn[v].emp # e
    BY <1>1 DEF BeginCreate
  <2> HIDE DEF t
  <2> QED
    BY <2>1, <2>3, <2>4, LocalStep
<1>2. ASSUME NEW e \in Employees, OpenForm(w, e)
      PROVE  IInv'
  <2> DEFINE t == [Idle EXCEPT !.pc = "form", !.op = "admin", !.emp = e, !.org = row[e].org,
                               !.status = row[e].status, !.version = row[e].version]
  <2>1. t \in Txn /\ t.op = "admin" /\ t.status \in Statuses
    BY DEF Idle, Nothing, Txn, Ops, IInv, TypeOK, Row
  <2>2. txn'[w] = t /\ Goto(w, t) /\ Quiet
    BY <1>2 DEF IInv, TypeOK, Goto, OpenForm
  <2>3. row[e].version \in Nat
    BY DEF IInv, TypeOK, Row
  <2>4. Sound(w)' /\ \A d \in Employees : ~LocksRow(w, d)'
    BY <1>2, <2>1, <2>2, <2>3, PersonnelAssumption
       DEF OpenForm, Quiet, Idle, Sound, WellFormed, Creating, FormSound, ReadWell, HolderKnows, Headless,
           LocksRow, Ops, Alive
  <2> HIDE DEF t
  <2> QED
    BY <2>1, <2>2, <2>4, LocalStep
<1>3. ASSUME NEW t \in Txn, Goto(w, t), Quiet, t.pc = "lock",
             \/ t.op \in {"update", "delete"} /\ t.emp \in Employees
             \/ t.op \in {"head", "activate", "unit"} /\ t.org \in Organizations
      PROVE  IInv'
  <2>1. txn'[w] = t
    BY <1>3 DEF IInv, TypeOK, Goto
  <2>2. Sound(w)' /\ \A d \in Employees : ~LocksRow(w, d)'
    BY <1>3, <2>1, PersonnelAssumption
       DEF Sound, WellFormed, Creating, FormSound, ReadWell, HolderKnows, Headless, LocksRow, Ops
  <2>3. t.op # "create"
    BY <1>3
  <2> QED
    BY <1>3, <2>2, <2>3, LocalStep
<1>4. ASSUME NEW e \in Employees, NEW o \in Organizations \cup {None}, NEW s \in Statuses \cup {None},
             BeginUpdate(w, e, o, s)
      PROVE  IInv'
  <2> DEFINE t == [Idle EXCEPT !.pc = "lock", !.op = "update", !.emp = e, !.org = o, !.status = s]
  <2>1. t \in Txn /\ t.pc = "lock" /\ t.op = "update" /\ t.emp \in Employees
    BY DEF Idle, Nothing, Txn, Ops
  <2>2. Goto(w, t) /\ Quiet
    BY <1>4 DEF BeginUpdate
  <2> HIDE DEF t
  <2> QED
    BY <2>1, <2>2, <1>3
<1>5. ASSUME NEW e \in Employees, BeginDelete(w, e)
      PROVE  IInv'
  <2> DEFINE t == [Idle EXCEPT !.pc = "lock", !.op = "delete", !.emp = e]
  <2>1. t \in Txn /\ t.pc = "lock" /\ t.op = "delete" /\ t.emp \in Employees
    BY DEF Idle, Nothing, Txn, Ops
  <2>2. Goto(w, t) /\ Quiet
    BY <1>5 DEF BeginDelete
  <2> HIDE DEF t
  <2> QED
    BY <2>1, <2>2, <1>3
<1>6. ASSUME NEW o \in Organizations, NEW e \in Employees \cup {None}, BeginHead(w, o, e)
      PROVE  IInv'
  <2> DEFINE t == [Idle EXCEPT !.pc = "lock", !.op = "head", !.emp = e, !.org = o]
  <2>1. t \in Txn /\ t.pc = "lock" /\ t.op = "head" /\ t.org \in Organizations
    BY DEF Idle, Nothing, Txn, Ops
  <2>2. Goto(w, t) /\ Quiet
    BY <1>6 DEF BeginHead
  <2> HIDE DEF t
  <2> QED
    BY <2>1, <2>2, <1>3
<1>7. ASSUME NEW o \in Organizations, BeginActivate(w, o)
      PROVE  IInv'
  <2> DEFINE t == [Idle EXCEPT !.pc = "lock", !.op = "activate", !.org = o]
  <2>1. t \in Txn /\ t.pc = "lock" /\ t.op = "activate" /\ t.org \in Organizations
    BY DEF Idle, Nothing, Txn, Ops
  <2>2. Goto(w, t) /\ Quiet
    BY <1>7 DEF BeginActivate
  <2> HIDE DEF t
  <2> QED
    BY <2>1, <2>2, <1>3
<1>8. ASSUME NEW o \in Organizations, NEW e \in Employees \cup {None}, BeginUnit(w, o, e)
      PROVE  IInv'
  <2> DEFINE t == [Idle EXCEPT !.pc = "lock", !.op = "unit", !.emp = e, !.org = o]
  <2>1. t \in Txn /\ t.pc = "lock" /\ t.op = "unit" /\ t.org \in Organizations
    BY DEF Idle, Nothing, Txn, Ops
  <2>2. Goto(w, t) /\ Quiet
    BY <1>8 DEF BeginUnit
  <2> HIDE DEF t
  <2> QED
    BY <2>1, <2>2, <1>3
<1>9. ASSUME NEW e \in Employees, BeginRemove(w, e)
      PROVE  IInv'
  <2> DEFINE t == [Idle EXCEPT !.pc = "read", !.op = "remove", !.emp = e, !.version = row[e].version]
  <2>1. t \in Txn /\ t.pc = "read" /\ t.op = "remove" /\ t.emp = e /\ t.version = row[e].version
    BY DEF Idle, Nothing, Txn, Ops, IInv, TypeOK, Row
  <2>2. txn'[w] = t /\ Goto(w, t) /\ Quiet
    BY <1>9 DEF IInv, TypeOK, Goto, BeginRemove
  <2>3. row[e].version \in Nat
    BY DEF IInv, TypeOK, Row
  <2> HIDE DEF t
  <2>4. Sound(w)' /\ \A d \in Employees : ~LocksRow(w, d)'
    BY <1>9, <2>1, <2>2, <2>3, PersonnelAssumption
       DEF BeginRemove, Quiet, Sound, WellFormed, Creating, FormSound, ReadWell, HolderKnows, Headless,
           LocksRow, Ops, Alive
  <2> QED
    BY <2>1, <2>2, <2>4, LocalStep
<1> QED
  BY <1>1, <1>2, <1>4, <1>5, <1>6, <1>7, <1>8, <1>9 DEF Begin

LEMMA PostFormInv ==
    ASSUME IInv, NEW w \in Workers, NEW o \in Organizations, NEW s \in Statuses, PostForm(w, o, s)
    PROVE  IInv'
<1> DEFINE t == [txn[w] EXCEPT !.pc = "posted", !.org = o, !.status = s]
<1>1. txn[w] \in Txn /\ txn[w].pc = "form" /\ txn[w].op = "admin" /\ txn[w].emp \in Employees /\ Sound(w)
  BY DEF IInv, TypeOK, PostForm, Sound, WellFormed
<1>2. t \in Txn
  BY <1>1 DEF Txn
<1>3. txn'[w] = t /\ Goto(w, t) /\ Quiet
  BY DEF IInv, TypeOK, Goto, PostForm
<1>4. /\ t.pc = "posted" /\ t.op = "admin" /\ t.emp = txn[w].emp /\ t.version = txn[w].version
      /\ t.org = o /\ t.status = s
  BY <1>1 DEF Txn
<1> HIDE DEF t
<1>5. Sound(w)' /\ \A d \in Employees : ~LocksRow(w, d)'
  BY <1>1, <1>3, <1>4, PersonnelAssumption
     DEF Sound, WellFormed, Creating, FormSound, HolderKnows, Headless, LocksRow, Ops, Quiet
<1> QED
  BY <1>2, <1>3, <1>4, <1>5, LocalStep

LEMMA ReadOldInv ==
    ASSUME IInv, NEW w \in Workers, ReadOld(w)
    PROVE  IInv'
<1> DEFINE old == IF Alive(txn[w].emp) THEN Values(txn[w].emp) ELSE Nothing
           t == [txn[w] EXCEPT !.pc = "read", !.old = old]
<1>1. txn[w] \in Txn /\ txn[w].pc = "posted" /\ txn[w].op = "admin" /\ txn[w].emp \in Employees /\ Sound(w)
  BY DEF IInv, TypeOK, ReadOld, Sound, WellFormed
<1>2. old \in [org : Organizations \cup {None}, status : Statuses \cup {None}]
  BY <1>1 DEF IInv, TypeOK, Row, Values, Nothing
<1>3. t \in Txn
  BY <1>1, <1>2 DEF Txn
<1>4. txn'[w] = t /\ Goto(w, t) /\ Quiet
  BY DEF IInv, TypeOK, Goto, ReadOld
<1>5. /\ t.pc = "read" /\ t.op = "admin" /\ t.emp = txn[w].emp /\ t.version = txn[w].version
      /\ t.org = txn[w].org /\ t.status = txn[w].status /\ t.old = old
  BY <1>1 DEF Txn
<1> HIDE DEF t
<1>6. Sound(w)' /\ \A d \in Employees : ~LocksRow(w, d)'
  BY <1>1, <1>4, <1>5, PersonnelAssumption
     DEF Sound, WellFormed, Creating, FormSound, ReadWell, HolderKnows, Headless, LocksRow, Ops,
         Quiet, Alive, Values, Nothing
<1> QED
  BY <1>3, <1>4, <1>5, <1>6, LocalStep

LEMMA UpdateVersionInv ==
    ASSUME IInv, NEW w \in Workers, UpdateVersion(w)
    PROVE  IInv'
<1>1. CASE row[txn[w].emp].version # txn[w].version
  BY <1>1, Ends DEF UpdateVersion
<1>2. CASE row[txn[w].emp].version = txn[w].version
  <2> DEFINE t == [txn[w] EXCEPT !.pc = "save"]
  <2>1. txn[w] \in Txn /\ txn[w].pc = "read" /\ txn[w].op \in {"admin", "remove"}
        /\ Sound(w) /\ RowFree(w, txn[w].emp)
    BY DEF IInv, TypeOK, UpdateVersion, Sound, WellFormed
  <2>2. t \in Txn
    BY <2>1 DEF Txn
  <2>3. txn'[w] = t /\ Goto(w, t) /\ Quiet
    BY <1>2 DEF IInv, TypeOK, Goto, UpdateVersion
  <2>4. /\ t.pc = "save" /\ t.op = txn[w].op /\ t.emp = txn[w].emp /\ t.version = txn[w].version
        /\ t.org = txn[w].org /\ t.status = txn[w].status /\ t.old = txn[w].old
    BY <2>1 DEF Txn
  <2> HIDE DEF t
  <2>5. Sound(w)'
    BY <1>2, <2>1, <2>3, <2>4, PersonnelAssumption
       DEF Sound, WellFormed, Creating, FormSound, ReadWell, HolderKnows, Headless, Ops, Quiet, Alive, Values
  <2>6. \A d \in Employees : LocksRow(w, d)' => RowFree(w, d)
    BY <2>1, <2>3, <2>4 DEF LocksRow
  <2> QED
    BY <2>1, <2>2, <2>3, <2>4, <2>5, <2>6, LocalStep
<1> QED
  BY <1>1, <1>2

LEMMA LockInv ==
    ASSUME IInv, NEW w \in Workers, Lock(w)
    PROVE  IInv'
<1> DEFINE e == txn[w].emp
<1>0. /\ txn[w] \in Txn /\ txn[w].pc = "lock" /\ txn[w].op \in {"update", "delete"}
      /\ e \in Employees /\ Sound(w) /\ RowFree(w, e) /\ row[e] \in Row
  BY DEF IInv, TypeOK, Lock, Sound, WellFormed
<1>1. ASSUME NEW t \in Txn, Goto(w, t), Quiet, Sound(w)', t.emp = e, t.op # "create"
      PROVE  IInv'
  <2>1. txn'[w] = t
    BY <1>1 DEF IInv, TypeOK, Goto
  <2>2. \A d \in Employees : LocksRow(w, d)' => RowFree(w, d)
    BY <1>0, <1>1, <2>1 DEF LocksRow
  <2> QED
    BY <1>1, <2>2, LocalStep
<1>2. CASE ~Alive(e)
  BY <1>2, Ends DEF Lock
<1>3. CASE Alive(e) /\ txn[w].op = "delete"
  <2> DEFINE t == [txn[w] EXCEPT !.pc = "check"]
  <2>1. t \in Txn /\ t.pc = "check" /\ t.op = "delete" /\ t.emp = e
    BY <1>0, <1>3 DEF Txn
  <2>2. txn'[w] = t /\ Goto(w, t) /\ Quiet
    BY <1>3 DEF IInv, TypeOK, Goto, Lock
  <2> HIDE DEF t
  <2>3. Sound(w)'
    BY <1>0, <1>3, <2>1, <2>2, PersonnelAssumption
       DEF Sound, WellFormed, Creating, FormSound, ReadWell, HolderKnows, Headless, Ops, Quiet, Alive
  <2> QED
    BY <1>1, <2>1, <2>2, <2>3
<1>4. CASE Alive(e) /\ txn[w].op = "update"
  <2> DEFINE t == Merged(w)
  <2>1. Goto(w, Idle) \/ Goto(w, t)
    BY <1>4 DEF Lock
  <2>2. Quiet
    BY DEF Lock
  <2>3. Values(e) \in [org : Organizations \cup {None}, status : Statuses \cup {None}]
        /\ row[e].org \in Organizations \cup {None} /\ row[e].status \in Statuses /\ row[e].version \in Nat
        /\ Values(e).org = row[e].org
    BY <1>0 DEF Row, Values
  <2>4. t = [txn[w] EXCEPT !.org = IF txn[w].org = None THEN row[e].org ELSE txn[w].org,
                           !.status = IF txn[w].status = None THEN row[e].status ELSE txn[w].status,
                           !.old = Values(e), !.version = row[e].version, !.pc = "save"]
    BY DEF Merged
  <2>5. t \in Txn
    BY <1>0, <2>3, <2>4 DEF Txn
  <2>6. /\ t.pc = "save" /\ t.op = "update" /\ t.emp = e /\ t.version = row[e].version
        /\ t.old = Values(e) /\ t.status \in Statuses
        /\ t.org = row[e].org \/ t.org \in Organizations
    BY <1>0, <1>4, <2>3, <2>4 DEF Txn
  <2> HIDE DEF t
  <2>7. ASSUME Goto(w, t) PROVE Sound(w)'
    <3>1. txn'[w] = t
      BY <2>7 DEF IInv, TypeOK, Goto
    <3> QED
      BY <1>0, <1>4, <2>2, <2>3, <2>6, <3>1, PersonnelAssumption
         DEF Sound, WellFormed, Creating, FormSound, ReadWell, HolderKnows, Headless, Ops, Quiet, Alive, Values
  <2> QED
    BY <1>1, <2>1, <2>2, <2>5, <2>6, <2>7, Ends
<1> QED
  BY <1>0, <1>2, <1>3, <1>4

LEMMA LockUnitInv ==
    ASSUME IInv, NEW w \in Workers, LockUnit(w)
    PROVE  IInv'
<1> DEFINE t == [txn[w] EXCEPT !.pc = "save"]
<1>1. txn[w] \in Txn /\ txn[w].op \in {"head", "activate", "unit"} /\ Sound(w)
  BY DEF IInv, TypeOK, LockUnit
<1>2. (Goto(w, t) \/ Goto(w, Idle)) /\ Quiet
  BY DEF LockUnit
<1>3. t \in Txn /\ t.pc = "save" /\ t.op = txn[w].op /\ t.org = txn[w].org
  BY <1>1 DEF Txn
<1> HIDE DEF t
<1>4. ASSUME Goto(w, t) PROVE Sound(w)' /\ \A d \in Employees : ~LocksRow(w, d)'
  <2>1. txn'[w] = t
    BY <1>4 DEF IInv, TypeOK, Goto
  <2> QED
    BY <1>1, <1>3, <2>1, PersonnelAssumption
       DEF Sound, WellFormed, Creating, FormSound, ReadWell, HolderKnows, Headless, LocksRow, Ops
<1> QED
  BY <1>1, <1>2, <1>3, <1>4, Ends, LocalStep

LEMMA CheckInv ==
    ASSUME IInv, NEW w \in Workers, Check(w)
    PROVE  IInv'
<1>1. CASE Heads(txn[w].emp) # {}
  BY <1>1, Ends DEF Check
<1>2. CASE Heads(txn[w].emp) = {}
  <2> DEFINE t == [txn[w] EXCEPT !.pc = "save"]
  <2>1. txn[w] \in Txn /\ txn[w].pc = "check" /\ txn[w].op = "delete" /\ Sound(w)
    BY DEF IInv, TypeOK, Check, Sound, WellFormed
  <2>2. t \in Txn /\ t.pc = "save" /\ t.op = "delete" /\ t.emp = txn[w].emp
    BY <2>1 DEF Txn
  <2>3. txn'[w] = t /\ Goto(w, t) /\ Quiet
    BY <1>2 DEF IInv, TypeOK, Goto, Check
  <2> HIDE DEF t
  <2>4. Sound(w)' /\ \A d \in Employees : LocksRow(w, d)' => LocksRow(w, d)
    BY <1>2, <2>1, <2>2, <2>3, PersonnelAssumption
       DEF Sound, WellFormed, Creating, FormSound, ReadWell, HolderKnows, Headless, LocksRow, Ops, Quiet, Alive, Heads
  <2> QED
    BY <2>2, <2>3, <2>4, LocalStep
<1> QED
  BY <1>1, <1>2

-----------------------------------------------------------------------------
\* A commit writes a row that no other request holds or is about to create, and gives
\* it a higher version: what other requests know stays true.
LEMMA RowWritten ==
    ASSUME IInv, NEW w \in Workers, Goto(w, Idle), NEW e \in Employees, NEW r \in Row, Write(e, r),
           UNCHANGED unit, r.state # "absent", r.version > row[e].version,
           \A v \in Workers \ {w} : ~LocksRow(v, e) /\ ~(txn[v].op = "create" /\ txn[v].emp = e)
    PROVE  /\ row' \in [Employees -> Row]
           /\ row'[e] = r /\ \A d \in Employees \ {e} : row'[d] = row[d]
           /\ txn' \in [Workers -> Txn]
           /\ Exclusive'
           /\ \A v \in Workers : Sound(v)'
<1>1. row' \in [Employees -> Row] /\ row'[e] = r /\ \A d \in Employees \ {e} : row'[d] = row[d]
  BY DEF IInv, TypeOK, Write
<1>2. txn'[w] = Idle /\ \A v \in Workers \ {w} : txn'[v] = txn[v]
  BY DEF IInv, TypeOK, Goto
<1>3. Idle \in Txn
  BY PersonnelAssumption DEF Idle, Txn, Nothing, Ops
<1>4. txn' \in [Workers -> Txn]
  BY <1>3 DEF IInv, TypeOK, Goto
<1>5. Sound(w)' /\ (\A d \in Employees : ~LocksRow(w, d)') /\ txn'[w].op # "create"
  BY <1>2, IdleSound
<1>6. Exclusive'
  BY <1>2, <1>5, ExclusiveStep DEF IInv
<1>7. ASSUME NEW v \in Workers \ {w} PROVE Sound(v)'
  <2>1. Sound(v) /\ txn'[v] = txn[v] /\ txn[v] \in Txn
    BY <1>2 DEF IInv, TypeOK
  <2>2. WellFormed(v)' /\ Headless(v)'
    BY <2>1 DEF Sound, WellFormed, Headless, Heads
  <2>3. Creating(v)'
    BY <1>1, <2>1 DEF Sound, Creating, WellFormed
  <2>4. HolderKnows(v)'
    BY <1>1, <2>1 DEF Sound, HolderKnows, WellFormed, LocksRow, ReadWell, Alive, Values
  <2>5. FormSound(v)'
    <3>1. CASE txn[v].emp = e
      <4>1. r.version \in Nat /\ row[e].version \in Nat /\ txn[v].version \in Nat
        BY <2>1 DEF Row, Txn, IInv, TypeOK
      <4> QED
        BY <1>1, <2>1, <3>1, <4>1 DEF Sound, FormSound
    <3>2. CASE txn[v].emp # e
      BY <1>1, <2>1, <3>2 DEF Sound, FormSound, ReadWell, WellFormed, Alive, Values
    <3> QED
      BY <3>1, <3>2
  <2> QED
    BY <2>2, <2>3, <2>4, <2>5 DEF Sound
<1> QED
  BY <1>1, <1>4, <1>5, <1>6, <1>7

\* The histories of other employees stay paths.
LEMMA PathKept ==
    ASSUME IInv, NEW e \in Employees, NEW h \in Seq(Statuses \X Statuses), NEW r,
           returned \subseteq returned',
           \A d \in Employees \ {e} : row'[d] = row[d],
           row'[e] = r, changes' = [changes EXCEPT ![e] = h],
           e \notin returned' =>
               /\ \A i \in 1..Len(h) : h[i][1] # h[i][2]
               /\ \A i \in 1..(Len(h) - 1) : h[i][2] = h[i + 1][1]
               /\ h # <<>> => h[Len(h)][2] = r.status
    PROVE  StatusHistoryIsPath'
<1> SUFFICES ASSUME NEW d \in Employees \ returned'
             PROVE  LET g == changes'[d]
                    IN /\ \A i \in 1..Len(g) : g[i][1] # g[i][2]
                       /\ \A i \in 1..(Len(g) - 1) : g[i][2] = g[i + 1][1]
                       /\ g # <<>> => g[Len(g)][2] = row'[d].status
  BY DEF StatusHistoryIsPath
<1>1. CASE d = e
  <2>1. changes'[d] = h
    BY <1>1 DEF IInv, TypeOK
  <2> QED
    BY <1>1, <2>1
<1>2. CASE d # e
  <2>1. changes'[d] = changes[d] /\ row'[d] = row[d]
    BY <1>2 DEF IInv, TypeOK
  <2> QED
    BY <2>1 DEF IInv, StatusHistoryIsPath
<1> QED
  BY <1>1, <1>2

\* A path grows by an entry that starts where it ends.
LEMMA PathGrows ==
    ASSUME NEW h \in Seq(Statuses \X Statuses), NEW a \in Statuses, NEW b \in Statuses, a # b,
           \A i \in 1..Len(h) : h[i][1] # h[i][2],
           \A i \in 1..(Len(h) - 1) : h[i][2] = h[i + 1][1],
           h # <<>> => h[Len(h)][2] = a,
           NEW g, g = Append(h, <<a, b>>)
    PROVE  /\ g \in Seq(Statuses \X Statuses)
           /\ \A i \in 1..Len(g) : g[i][1] # g[i][2]
           /\ \A i \in 1..(Len(g) - 1) : g[i][2] = g[i + 1][1]
           /\ g[Len(g)][2] = b
<1>1. Len(g) = Len(h) + 1 /\ g[Len(h) + 1] = <<a, b>> /\ Len(h) \in Nat
      /\ \A i \in 1..Len(h) : g[i] = h[i]
  OBVIOUS
<1>2. g \in Seq(Statuses \X Statuses)
  OBVIOUS
<1>3. \A i \in 1..Len(g) : g[i][1] # g[i][2]
  <2> SUFFICES ASSUME NEW i \in 1..Len(g) PROVE g[i][1] # g[i][2]
    OBVIOUS
  <2>1. i \in 1..Len(h) \/ i = Len(h) + 1
    BY <1>1
  <2> QED
    BY <1>1, <2>1
<1>4. \A i \in 1..(Len(g) - 1) : g[i][2] = g[i + 1][1]
  <2> SUFFICES ASSUME NEW i \in 1..(Len(g) - 1) PROVE g[i][2] = g[i + 1][1]
    OBVIOUS
  <2>1. /\ i \in 1..Len(h)
        /\ \/ i \in 1..(Len(h) - 1) /\ i + 1 \in 1..Len(h)
           \/ i = Len(h) /\ h # <<>>
    BY <1>1
  <2> QED
    BY <1>1, <2>1
<1>5. g[Len(g)][2] = b
  BY <1>1
<1> QED
  BY <1>2, <1>3, <1>4, <1>5

\* Nobody but the request that commits holds the row it writes.
LEMMA CommitterAlone ==
    ASSUME IInv, NEW w \in Workers, Commit(w), txn[w].op \in {"create", "update", "delete", "admin", "remove"},
           txn[w].op = "create" => \A v \in Workers : ~LocksRow(v, txn[w].emp)
    PROVE  \A v \in Workers \ {w} :
              ~LocksRow(v, txn[w].emp) /\ ~(txn[v].op = "create" /\ txn[v].emp = txn[w].emp)
<1>1. txn[w].emp \in Employees /\ Sound(w)
  BY DEF IInv, Sound, WellFormed
<1>2. CASE txn[w].op = "create"
  BY <1>1, <1>2 DEF IInv, Exclusive
<1>3. CASE txn[w].op # "create"
  <2>1. LocksRow(w, txn[w].emp) /\ row[txn[w].emp].state # "absent"
    BY <1>1, <1>3 DEF Commit, LocksRow, Sound, HolderKnows
  <2>2. \A v \in Workers : txn[v].op = "create" => row[txn[v].emp].state = "absent"
    BY DEF IInv, Sound, Creating
  <2> QED
    BY <1>1, <2>1, <2>2 DEF IInv, Exclusive
<1> QED
  BY <1>2, <1>3

LEMMA CreateInv ==
    ASSUME IInv, NEW w \in Workers, Commit(w), SaveCreate(w)
    PROVE  IInv'
<1> DEFINE e == txn[w].emp
           r == [state |-> "alive", org |-> txn[w].org, status |-> txn[w].status, version |-> 1]
<1>1. /\ txn[w].op = "create" /\ e \in Employees /\ txn[w].org \in Organizations
      /\ txn[w].status \in Statuses /\ row[e].state = "absent" /\ Goto(w, Idle)
  BY DEF IInv, Sound, WellFormed, Creating, SaveCreate, RecordTransfer, Commit
<1>2. r \in Row /\ r.state = "alive" /\ r.version = 1 /\ r.status \in Statuses
  BY <1>1 DEF Row
<1>3. Write(e, r) /\ UNCHANGED <<unit, changes, returned>> /\ transfers' = [transfers EXCEPT ![e] = Append(transfers[e], txn[w].org)]
  BY DEF SaveCreate, RecordTransfer
<1>4. row[e].version = 0 /\ changes[e] = <<>>
  BY <1>1 DEF IInv, NoPast
<1>5. \A v \in Workers : ~LocksRow(v, e)
  BY <1>1 DEF IInv, Sound, HolderKnows, LocksRow, Alive
<1>6. \A v \in Workers \ {w} : ~LocksRow(v, e) /\ ~(txn[v].op = "create" /\ txn[v].emp = e)
  BY <1>1, <1>5, CommitterAlone
<1> HIDE DEF r
<1>7. /\ row' \in [Employees -> Row] /\ row'[e] = r /\ \A d \in Employees \ {e} : row'[d] = row[d]
      /\ txn' \in [Workers -> Txn] /\ Exclusive' /\ \A v \in Workers : Sound(v)'
  <2>1. r.state # "absent" /\ r.version > row[e].version
    BY <1>2, <1>4
  <2> QED
    BY <1>1, <1>2, <1>3, <1>6, <2>1, RowWritten
<1>8. TypeOK'
  <2>1. Append(transfers[e], txn[w].org) \in Seq(Organizations)
    BY <1>1 DEF IInv, TypeOK
  <2>2. transfers' \in [Employees -> Seq(Organizations)]
    BY <1>3, <2>1 DEF IInv, TypeOK
  <2> QED
    BY <1>3, <1>7, <2>2 DEF IInv, TypeOK
<1>9. StatusHistoryIsPath'
  BY <1>3, <1>4, <1>7 DEF IInv, StatusHistoryIsPath
<1>10. NoPast'
  BY <1>2, <1>3, <1>7 DEF IInv, NoPast
<1> QED
  BY <1>7, <1>8, <1>9, <1>10 DEF IInv

\* What a commit of a change or of a form that got through is about to write.
LEMMA Changing ==
    ASSUME IInv, NEW w \in Workers, Commit(w), SaveUpdate(w)
    PROVE  /\ txn[w].emp \in Employees /\ row[txn[w].emp] \in Row /\ Goto(w, Idle)
           /\ txn[w].op \in {"update", "admin"} /\ row[txn[w].emp].state \in {"alive", "deleted"}
           /\ txn[w].status \in Statuses /\ txn[w].org \in Organizations \cup {None}
           /\ txn[w].old.org # txn[w].org /\ txn[w].old = Values(txn[w].emp) => txn[w].org \in Organizations
           /\ txn[w].version = row[txn[w].emp].version
           /\ \/ txn[w].old = Values(txn[w].emp)
              \/ txn[w].old = Nothing /\ txn[w].op = "admin" /\ ~Alive(txn[w].emp)
           /\ UNCHANGED unit
           /\ returned' = IF Alive(txn[w].emp) THEN returned ELSE returned \cup {txn[w].emp}
           /\ \E state \in {"alive", "deleted"} :
                 Write(txn[w].emp, [state |-> state, org |-> txn[w].org, status |-> txn[w].status,
                                    version |-> row[txn[w].emp].version + 1])
<1>1. Sound(w) /\ txn[w].pc = "save" /\ txn[w].op \in {"update", "admin"} /\ txn[w] \in Txn
  BY DEF IInv, TypeOK, Commit, SaveUpdate
<1>2. txn[w].emp \in Employees /\ row[txn[w].emp] \in Row /\ Goto(w, Idle)
  BY <1>1 DEF IInv, TypeOK, Sound, WellFormed, Commit
<1>3. /\ row[txn[w].emp].state # "absent" /\ txn[w].version = row[txn[w].emp].version
      /\ txn[w].status \in Statuses
      /\ txn[w].org = row[txn[w].emp].org \/ txn[w].org \in Organizations
      /\ \/ txn[w].old = Values(txn[w].emp)
         \/ txn[w].old = Nothing /\ txn[w].op = "admin" /\ ~Alive(txn[w].emp)
  BY <1>1 DEF Sound, HolderKnows, ReadWell
<1>4. txn[w].org \in Organizations \cup {None} /\ row[txn[w].emp].state \in {"alive", "deleted"}
  BY <1>1, <1>2, <1>3 DEF Row, Txn
<1>5. txn[w].old.org # txn[w].org /\ txn[w].old = Values(txn[w].emp) => txn[w].org \in Organizations
  BY <1>3 DEF Values
<1>6. PICK state \in {"alive", "deleted"} :
          Write(txn[w].emp, [state |-> state, org |-> txn[w].org, status |-> txn[w].status,
                             version |-> txn[w].version + 1])
  BY DEF SaveUpdate
<1>7. UNCHANGED unit /\ returned' = IF Alive(txn[w].emp) THEN returned ELSE returned \cup {txn[w].emp}
  BY DEF SaveUpdate
<1> QED
  BY <1>1, <1>2, <1>3, <1>4, <1>5, <1>6, <1>7

LEMMA UpdateInv ==
    ASSUME IInv, NEW w \in Workers, Commit(w), SaveUpdate(w)
    PROVE  IInv'
<1> DEFINE e == txn[w].emp
           a == txn[w].old.status
           b == txn[w].status
           h == IF RecordsChange(w) THEN Append(changes[e], <<a, b>>) ELSE changes[e]
<1>1. /\ e \in Employees /\ row[e] \in Row /\ Goto(w, Idle) /\ b \in Statuses
      /\ txn[w].op \in {"update", "admin"} /\ txn[w].org \in Organizations \cup {None}
      /\ row[e].state \in {"alive", "deleted"} /\ UNCHANGED unit
      /\ changes[e] \in Seq(Statuses \X Statuses)
  BY Changing DEF IInv, TypeOK
<1>2. PICK state \in {"alive", "deleted"}, n \in Nat :
          n = row[e].version + 1 /\ Write(e, [state |-> state, org |-> txn[w].org, status |-> b, version |-> n])
  BY <1>1, Changing DEF Row
<1> DEFINE r == [state |-> state, org |-> txn[w].org, status |-> b, version |-> n]
<1>3. r \in Row /\ r.state # "absent" /\ r.version > row[e].version /\ r.status = b /\ Write(e, r)
  BY <1>1, <1>2 DEF Row
<1>4. \A v \in Workers \ {w} : ~LocksRow(v, e) /\ ~(txn[v].op = "create" /\ txn[v].emp = e)
  BY <1>1, CommitterAlone
<1> HIDE DEF r
<1>5. /\ row' \in [Employees -> Row] /\ row'[e] = r /\ \A d \in Employees \ {e} : row'[d] = row[d]
      /\ txn' \in [Workers -> Txn] /\ Exclusive' /\ \A v \in Workers : Sound(v)'
  BY <1>1, <1>3, <1>4, RowWritten
<1>6. txn[w].old = Values(e) => a = row[e].status /\ a \in Statuses
  BY <1>1 DEF Values, Row
<1>7. txn[w].old = Nothing => ~RecordsChange(w) /\ (RecordsMove(w) => txn[w].op # "admin")
  BY DEF Nothing, RecordsChange, RecordsMove
<1>8. changes' = [changes EXCEPT ![e] = h]
  BY DEF SaveUpdate, RecordChange, IInv, TypeOK
<1>9. h \in Seq(Statuses \X Statuses)
  <2>1. CASE RecordsChange(w)
    <3>1. a \in Statuses
      BY <1>6, <1>7, <2>1, Changing
    <3>2. h = Append(changes[e], <<a, b>>) /\ <<a, b>> \in Statuses \X Statuses
      BY <1>1, <2>1, <3>1
    <3> QED
      BY <1>1, <3>2
  <2>2. CASE ~RecordsChange(w)
    BY <1>1, <2>2
  <2> QED
    BY <2>1, <2>2
<1>10. e \notin returned' =>
         /\ \A i \in 1..Len(h) : h[i][1] # h[i][2]
         /\ \A i \in 1..(Len(h) - 1) : h[i][2] = h[i + 1][1]
         /\ h # <<>> => h[Len(h)][2] = b
  <2> SUFFICES ASSUME e \notin returned'
               PROVE  /\ \A i \in 1..Len(h) : h[i][1] # h[i][2]
                      /\ \A i \in 1..(Len(h) - 1) : h[i][2] = h[i + 1][1]
                      /\ h # <<>> => h[Len(h)][2] = b
    OBVIOUS
  <2>1. Alive(e) /\ e \notin returned
    BY Changing
  <2>2. a = row[e].status /\ a \in Statuses
    BY <1>6, <2>1, Changing
  <2>3. /\ \A i \in 1..Len(changes[e]) : changes[e][i][1] # changes[e][i][2]
        /\ \A i \in 1..(Len(changes[e]) - 1) : changes[e][i][2] = changes[e][i + 1][1]
        /\ changes[e] # <<>> => changes[e][Len(changes[e])][2] = a
    BY <1>1, <2>1, <2>2 DEF IInv, StatusHistoryIsPath
  <2>4. CASE b = a
    BY <2>3, <2>4 DEF RecordsChange
  <2>5. CASE b # a
    <3>1. h = Append(changes[e], <<a, b>>)
      BY <2>2, <2>5, PersonnelAssumption DEF RecordsChange
    <3>2. changes[e] \in Seq(Statuses \X Statuses) /\ a \in Statuses /\ b \in Statuses /\ a # b
      BY <1>1, <2>2, <2>5
    <3> HIDE DEF h, a, b, e
    <3> QED
      BY <2>3, <3>1, <3>2, PathGrows
  <2> QED
    BY <2>4, <2>5
<1>11. \/ transfers' = transfers
       \/ /\ transfers' = [transfers EXCEPT ![e] = Append(transfers[e], txn[w].org)]
          /\ txn[w].org \in Organizations
  <2>1. RecordsMove(w) => txn[w].org \in Organizations
    BY <1>7, Changing DEF RecordsMove
  <2>2. transfers' = IF RecordsMove(w) THEN [transfers EXCEPT ![e] = Append(transfers[e], txn[w].org)]
                     ELSE transfers
    BY DEF SaveUpdate, RecordTransfer
  <2>3. CASE RecordsMove(w)
    BY <2>1, <2>2, <2>3, Zenon
  <2>4. CASE ~RecordsMove(w)
    BY <2>2, <2>4, Zenon
  <2> QED
    BY <2>3, <2>4, Zenon
<1> HIDE DEF h
<1>12. TypeOK'
  <2>1. txn[w].org \in Organizations => Append(transfers[e], txn[w].org) \in Seq(Organizations)
    BY <1>1 DEF IInv, TypeOK
  <2>2. transfers' \in [Employees -> Seq(Organizations)]
    BY <1>11, <2>1 DEF IInv, TypeOK
  <2>3. changes' \in [Employees -> Seq(Statuses \X Statuses)]
    BY <1>8, <1>9 DEF IInv, TypeOK
  <2>4. returned' \in SUBSET Employees
    BY <1>1, Changing DEF IInv, TypeOK
  <2> QED
    BY <1>1, <1>5, <2>2, <2>3, <2>4 DEF IInv, TypeOK
<1>13. StatusHistoryIsPath'
  <2>1. e \in Employees /\ returned \subseteq returned' /\ r.status = b
    BY <1>1, <1>3, Changing
  <2> HIDE DEF e, a, b
  <2> QED
    BY <1>5, <1>8, <1>9, <1>10, <2>1, PathKept
<1>14. NoPast'
  BY <1>3, <1>5, <1>8 DEF IInv, NoPast, TypeOK
<1> QED
  BY <1>5, <1>12, <1>13, <1>14 DEF IInv

\* What a commit of a deletion is about to write.
LEMMA Deleting ==
    ASSUME IInv, NEW w \in Workers, Commit(w), SaveDelete(w)
    PROVE  /\ txn[w].op \in {"delete", "remove"} /\ txn[w].emp \in Employees /\ Goto(w, Idle)
           /\ row[txn[w].emp] \in Row /\ row[txn[w].emp].state # "absent"
           /\ row[txn[w].emp].version \in Nat
           /\ txn[w].op = "remove" => txn[w].version = row[txn[w].emp].version
           /\ txn[w].op = "delete" => Alive(txn[w].emp) /\ Heads(txn[w].emp) = {}
           /\ UNCHANGED <<unit, transfers, changes, returned>>
           /\ \E r \in Row : /\ Write(txn[w].emp, r)
                             /\ r.state = "deleted" /\ r.version = row[txn[w].emp].version + 1
                             /\ r.org = row[txn[w].emp].org /\ r.status = row[txn[w].emp].status
<1> DEFINE e == txn[w].emp
           r == [row[e] EXCEPT !.state = "deleted", !.version = row[e].version + 1]
<1>1. /\ txn[w].op \in {"delete", "remove"} /\ txn[w].pc = "save" /\ Sound(w) /\ Goto(w, Idle)
      /\ UNCHANGED <<unit, transfers, changes, returned>> /\ Write(e, r)
  BY DEF IInv, Commit, SaveDelete
<1>2. /\ e \in Employees /\ row[e].state # "absent"
      /\ txn[w].op = "remove" => txn[w].version = row[e].version
      /\ txn[w].op = "delete" => Alive(e) /\ Heads(e) = {}
  BY <1>1 DEF Sound, WellFormed, HolderKnows, Headless
<1>3. row[e] \in Row /\ row[e].version \in Nat /\ row[e].version + 1 \in Nat
  BY <1>2 DEF IInv, TypeOK, Row
<1>4. PICK n \in Nat : n = row[e].version + 1
  BY <1>3
<1>5. r = [row[e] EXCEPT !.state = "deleted", !.version = n]
  BY <1>4
<1> HIDE DEF r, e
<1>6. r \in Row /\ r.state = "deleted" /\ r.version = n /\ r.org = row[e].org /\ r.status = row[e].status
  BY <1>3, <1>5 DEF Row
<1> USE DEF e
<1> QED
  BY <1>1, <1>2, <1>3, <1>4, <1>6

LEMMA DeleteInv ==
    ASSUME IInv, NEW w \in Workers, Commit(w), SaveDelete(w)
    PROVE  IInv'
<1> DEFINE e == txn[w].emp
<1>1. /\ txn[w].op \in {"delete", "remove"} /\ e \in Employees /\ Goto(w, Idle) /\ row[e].version \in Nat
      /\ UNCHANGED <<unit, transfers, changes, returned>>
  BY Deleting
<1>2. PICK r \in Row : /\ Write(e, r)
                       /\ r.state = "deleted" /\ r.version = row[e].version + 1
                       /\ r.org = row[e].org /\ r.status = row[e].status
  BY Deleting
<1>3. \A v \in Workers \ {w} : ~LocksRow(v, e) /\ ~(txn[v].op = "create" /\ txn[v].emp = e)
  BY <1>1, CommitterAlone
<1>4. /\ row' \in [Employees -> Row] /\ row'[e] = r /\ \A d \in Employees \ {e} : row'[d] = row[d]
      /\ txn' \in [Workers -> Txn] /\ Exclusive' /\ \A v \in Workers : Sound(v)'
  <2>1. r.state # "absent" /\ r.version > row[e].version
    BY <1>1, <1>2
  <2> QED
    BY <1>1, <1>2, <1>3, <2>1, RowWritten
<1>5. TypeOK' /\ NoPast' /\ StatusHistoryIsPath'
  <2>1. TypeOK'
    BY <1>1, <1>4 DEF IInv, TypeOK
  <2>2. NoPast'
    BY <1>1, <1>2, <1>4 DEF IInv, NoPast
  <2>3. \A d \in Employees : row'[d].status = row[d].status
    BY <1>2, <1>4
  <2>4. StatusHistoryIsPath'
    BY <1>1, <2>3 DEF IInv, StatusHistoryIsPath
  <2> QED
    BY <2>1, <2>2, <2>4
<1> QED
  BY <1>4, <1>5 DEF IInv

\* What `delete selected' does to a row.
LEMMA Selected ==
    ASSUME IInv, NEW S \in SUBSET Employees, DeleteSelected(S), NEW e \in Employees
    PROVE  /\ row'[e] \in Row
           /\ row'[e].org = row[e].org /\ row'[e].status = row[e].status /\ row'[e].version = row[e].version
           /\ e \in S => row[e].state = "alive" /\ row'[e].state = "deleted"
           /\ e \notin S => row'[e] = row[e]
<1>1. row[e] \in Row
  BY DEF IInv, TypeOK
<1>2. CASE e \in S
  <2>1. row'[e] = [row[e] EXCEPT !.state = "deleted"] /\ row[e].state = "alive"
    BY <1>2 DEF DeleteSelected, Alive
  <2> QED
    BY <1>1, <1>2, <2>1 DEF Row
<1>3. CASE e \notin S
  BY <1>1, <1>3 DEF DeleteSelected
<1> QED
  BY <1>2, <1>3

LEMMA SelectedInv ==
    ASSUME IInv, NEW S \in SUBSET Employees, DeleteSelected(S)
    PROVE  IInv'
<1>1. UNCHANGED <<unit, transfers, changes, txn, returned>> /\ DOMAIN row' = Employees
      /\ row' = [e \in Employees |-> row'[e]]
  BY DEF DeleteSelected
<1>2. TypeOK' /\ NoPast' /\ StatusHistoryIsPath'
  <2>1. row' \in [Employees -> Row]
    BY <1>1, Selected
  <2>2. \A e \in Employees : /\ row'[e].status = row[e].status /\ row'[e].org = row[e].org
                             /\ row'[e].version = row[e].version
                             /\ row'[e].state = "absent" => row[e].state = "absent"
    BY Selected
  <2>3. TypeOK'
    BY <1>1, <2>1 DEF IInv, TypeOK
  <2>4. NoPast'
    BY <1>1, <2>2 DEF IInv, NoPast
  <2>5. StatusHistoryIsPath'
    BY <1>1, <2>2 DEF IInv, StatusHistoryIsPath
  <2> QED
    BY <2>3, <2>4, <2>5
<1>3. Exclusive'
  BY <1>1 DEF IInv, Exclusive, LocksRow
<1>4. ASSUME NEW w \in Workers PROVE Sound(w)'
  <2>1. Sound(w) /\ txn'[w] = txn[w]
    BY <1>1 DEF IInv
  <2>2. WellFormed(w)' /\ Headless(w)'
    BY <1>1, <2>1 DEF Sound, WellFormed, Headless, Heads
  <2>3. CASE txn[w].emp \in Employees
    <3>1. /\ row'[txn[w].emp].org = row[txn[w].emp].org
          /\ row'[txn[w].emp].status = row[txn[w].emp].status
          /\ row'[txn[w].emp].version = row[txn[w].emp].version
          /\ row'[txn[w].emp].state # row[txn[w].emp].state =>
                 /\ row[txn[w].emp].state = "alive" /\ row'[txn[w].emp].state = "deleted"
                 /\ ~LocksRow(w, txn[w].emp)
      BY <2>3, Selected DEF DeleteSelected
    <3>2. Creating(w)'
      BY <2>1, <3>1 DEF Sound, Creating
    <3>3. FormSound(w)'
      BY <2>1, <3>1 DEF Sound, FormSound, ReadWell, Alive, Values
    <3>4. HolderKnows(w)'
      BY <2>1, <3>1 DEF Sound, HolderKnows, ReadWell, Alive, Values, LocksRow
    <3> QED
      BY <2>2, <3>2, <3>3, <3>4 DEF Sound
  <2>4. CASE txn[w].emp \notin Employees
    BY <2>1, <2>2, <2>4 DEF Sound, WellFormed, Creating, FormSound, HolderKnows
  <2> QED
    BY <2>3, <2>4
<1> QED
  BY <1>2, <1>3, <1>4 DEF IInv

\* What a commit of an organization's update or form is about to write.
LEMMA UnitWritten ==
    ASSUME IInv, NEW w \in Workers, SaveUnit(w)
    PROVE  /\ txn[w].op \in {"head", "activate", "unit"} /\ txn[w].org \in Organizations
           /\ UNCHANGED <<row, transfers, changes, returned>>
           /\ \E u \in Unit : /\ unit' = [unit EXCEPT ![txn[w].org] = u]
                              /\ \/ u.head = unit[txn[w].org].head
                                 \/ u.head = txn[w].emp /\ txn[w].op \in {"head", "unit"}
<1> DEFINE o == txn[w].org
<1>1. /\ txn[w].op \in {"head", "activate", "unit"} /\ o \in Organizations
      /\ UNCHANGED <<row, transfers, changes, returned>>
  BY DEF IInv, Sound, WellFormed, SaveUnit
<1>2. unit[o] \in Unit /\ txn[w].emp \in Employees \cup {None}
  BY <1>1 DEF IInv, TypeOK, Txn
<1>3. CASE txn[w].op = "head"
  <2>1. PICK u : u = [unit[o] EXCEPT !.head = txn[w].emp] /\ unit' = [unit EXCEPT ![o] = u]
    BY <1>3 DEF SaveUnit
  <2>2. u \in Unit /\ u.head = txn[w].emp
    BY <1>2, <2>1 DEF Unit
  <2> QED
    BY <1>1, <1>3, <2>1, <2>2
<1>4. CASE txn[w].op = "activate"
  <2>1. PICK u : u = [unit[o] EXCEPT !.active = ~unit[o].active] /\ unit' = [unit EXCEPT ![o] = u]
    BY <1>4 DEF SaveUnit
  <2>2. u \in Unit /\ u.head = unit[o].head
    BY <1>2, <2>1 DEF Unit
  <2> QED
    BY <1>1, <2>1, <2>2
<1>5. CASE txn[w].op = "unit"
  <2>1. PICK a \in BOOLEAN : unit' = [unit EXCEPT ![o] = [active |-> a, head |-> txn[w].emp]]
    BY <1>5 DEF SaveUnit
  <2>2. PICK u : u = [active |-> a, head |-> txn[w].emp]
    OBVIOUS
  <2>3. u \in Unit /\ u.head = txn[w].emp
    BY <1>2, <2>2 DEF Unit
  <2> QED
    BY <1>1, <1>5, <2>1, <2>2, <2>3
<1> QED
  BY <1>1, <1>3, <1>4, <1>5

LEMMA UnitInv ==
    ASSUME IInv, NEW w \in Workers, Commit(w), SaveUnit(w)
    PROVE  IInv'
<1> DEFINE o == txn[w].org
<1>1. /\ txn[w].op \in {"head", "activate", "unit"} /\ o \in Organizations /\ txn[w] \in Txn /\ Goto(w, Idle)
      /\ UNCHANGED <<row, transfers, changes, returned>> /\ unit[o] \in Unit
  BY DEF IInv, TypeOK, Sound, WellFormed, SaveUnit, Commit
<1>2. txn'[w] = Idle /\ \A v \in Workers \ {w} : txn'[v] = txn[v]
  BY <1>1 DEF IInv, TypeOK, Goto
<1>3. Idle \in Txn
  BY PersonnelAssumption DEF Idle, Txn, Nothing, Ops
<1>4. unit' \in [Organizations -> Unit]
  BY <1>1, UnitWritten DEF IInv, TypeOK
<1>5. TypeOK'
  BY <1>1, <1>3, <1>4 DEF IInv, TypeOK, Goto
<1>6. Sound(w)' /\ (\A d \in Employees : ~LocksRow(w, d)') /\ txn'[w].op # "create"
  BY <1>2, IdleSound
<1>7. Exclusive'
  BY <1>2, <1>6, ExclusiveStep DEF IInv
<1>8. ASSUME NEW v \in Workers \ {w} PROVE Sound(v)'
  <2>1. Sound(v) /\ txn'[v] = txn[v]
    BY <1>2 DEF IInv
  <2>2. Headless(v)'
    <3> SUFFICES ASSUME txn[v].op = "delete", txn[v].pc = "save" PROVE Heads(txn[v].emp)' = {}
      BY <2>1 DEF Headless
    <3>1. Heads(txn[v].emp) = {} /\ txn[v].emp \in Employees /\ LocksRow(v, txn[v].emp)
      BY <2>1 DEF Sound, Headless, WellFormed, LocksRow
    <3>2. \A u \in Organizations : unit'[u].head # unit[u].head =>
              u = o /\ unit'[u].head = txn[w].emp /\ txn[w].op \in {"head", "unit"}
      BY <1>1, UnitWritten DEF IInv, TypeOK
    <3>3. txn[w].op \in {"head", "unit"} => txn[w].emp # txn[v].emp \/ txn[w].emp = unit[o].head
      BY <3>1, PersonnelAssumption DEF Commit, ReferencesFree, RowKeyFree
    <3> QED
      BY <2>1, <3>1, <3>2, <3>3 DEF Heads
  <2> QED
    BY <1>1, <2>1, <2>2 DEF Sound, WellFormed, Creating, FormSound, ReadWell, HolderKnows, Alive, Values
<1>9. StatusHistoryIsPath' /\ NoPast'
  BY <1>1 DEF IInv, StatusHistoryIsPath, NoPast
<1> QED
  BY <1>5, <1>6, <1>7, <1>8, <1>9 DEF IInv

LEMMA NextInv == IInv /\ [Next]_vars => IInv'
<1>1. ASSUME IInv, UNCHANGED vars PROVE IInv'
  <2>1. Quiet /\ UNCHANGED txn
    BY <1>1 DEF vars, Quiet
  <2>2. TypeOK' /\ StatusHistoryIsPath' /\ NoPast'
    BY <1>1, <2>1 DEF IInv, TypeOK, Quiet, StatusHistoryIsPath, NoPast
  <2>3. Exclusive'
    BY <1>1, <2>1 DEF IInv, Exclusive, LocksRow
  <2>4. \A w \in Workers : Sound(w)'
    BY <1>1, <2>1, Unmoved DEF IInv
  <2> QED
    BY <2>2, <2>3, <2>4 DEF IInv
<1>2. ASSUME IInv, NEW w \in Workers, Step(w) PROVE IInv'
  <2>1. CASE \E o \in Organizations, s \in Statuses : PostForm(w, o, s)
    BY <1>2, <2>1, PostFormInv
  <2>2. CASE Commit(w)
    BY <1>2, <2>2, CreateInv, UpdateInv, DeleteInv, UnitInv DEF Commit
  <2> QED
    BY <1>2, <2>1, <2>2, ReadOldInv, UpdateVersionInv, LockInv, LockUnitInv, CheckInv DEF Step
<1>3. ASSUME IInv, NEW w \in Workers, Fail(w) PROVE IInv'
  BY <1>3, Ends DEF Fail
<1> QED
  BY <1>1, <1>2, <1>3, BeginInv, SelectedInv DEF Next

LEMMA Invariant == Spec => []IInv
BY InitInv, NextInv, PTL DEF Spec

\* Every row, organization, history and request keeps its type.
THEOREM TypeCorrect == Spec => []TypeOK
<1>1. IInv => TypeOK
  BY DEF IInv
<1> QED
  BY <1>1, Invariant, PTL

\* The old values the admin site reads without a lock are those of the living row the
\* UPDATE replaces: it has the form's version, so nothing was written in between.  Only
\* a row that was deleted by `delete selected' and is written again escapes this.
THEOREM HistoryIsPath == Spec => []StatusHistoryIsPath
<1>1. IInv => StatusHistoryIsPath
  BY DEF IInv
<1> QED
  BY <1>1, Invariant, PTL

\* Rows and histories change when a request commits, or by `delete selected'.
LEMMA Writers ==
    ASSUME [Next]_vars
    PROVE  \/ Quiet
           \/ \E w \in Workers : Commit(w)
           \/ \E S \in SUBSET Employees : DeleteSelected(S)
<1>1. CASE UNCHANGED vars
  BY <1>1 DEF vars, Quiet
<1>2. ASSUME NEW w \in Workers, Begin(w) PROVE Quiet
  BY <1>2 DEF Begin, BeginCreate, BeginUpdate, BeginDelete, OpenForm, BeginRemove, BeginHead, BeginActivate,
              BeginUnit
<1>3. ASSUME NEW w \in Workers, Step(w), ~Commit(w) PROVE Quiet
  BY <1>3 DEF Step, PostForm, ReadOld, UpdateVersion, Lock, LockUnit, Check
<1>4. ASSUME NEW w \in Workers, Fail(w) PROVE Quiet
  BY <1>4 DEF Fail
<1> QED
  BY <1>1, <1>2, <1>3, <1>4 DEF Next

\* Whoever moves a living employee records where to, and nobody records anything else.
THEOREM MovesAreRecorded == Spec => MovesRecorded
<1> DEFINE Recorded(e) ==
               /\ Alive(e) /\ row[e].org # None /\ row'[e].org # row[e].org =>
                      transfers'[e] = Append(transfers[e], row'[e].org)
               /\ transfers'[e] # transfers[e] => row'[e].org # row[e].org
<1>1. ASSUME IInv, [Next]_vars, NEW e \in Employees
      PROVE  Recorded(e)
  <2>1. CASE Quiet
    BY <2>1 DEF Quiet
  <2>2. ASSUME NEW S \in SUBSET Employees, DeleteSelected(S)
        PROVE  Recorded(e)
    BY <1>1, <2>2, Selected DEF DeleteSelected
  <2>3. ASSUME NEW w \in Workers, Commit(w)
        PROVE  Recorded(e)
    <3>1. /\ Sound(w) /\ txn[w].pc = "save" /\ row \in [Employees -> Row]
          /\ transfers \in [Employees -> Seq(Organizations)] /\ NoPast
      BY <1>1, <2>3 DEF IInv, TypeOK, Commit
    <3>2. CASE SaveCreate(w)
      <4>1. /\ txn[w].emp \in Employees /\ txn[w].org \in Organizations
            /\ row[txn[w].emp].state = "absent"
        BY <3>1, <3>2 DEF Sound, WellFormed, Creating, SaveCreate
      <4>2. row[txn[w].emp].org = None
        BY <3>1, <4>1 DEF NoPast
      <4> QED
        BY <3>1, <3>2, <4>1, <4>2, PersonnelAssumption DEF SaveCreate, RecordTransfer, Write
    <3>3. CASE SaveUpdate(w)
      <4>0. /\ txn[w].emp \in Employees /\ row[txn[w].emp] \in Row
            /\ \/ txn[w].old = Values(txn[w].emp)
               \/ txn[w].old = Nothing /\ txn[w].op = "admin" /\ ~Alive(txn[w].emp)
        BY <1>1, <2>3, <3>3, Changing
      <4>1. PICK r : r.org = txn[w].org /\ row' = [row EXCEPT ![txn[w].emp] = r]
        BY <1>1, <2>3, <3>3, Changing DEF Write
      <4>2. /\ row'[txn[w].emp].org = txn[w].org
            /\ \A d \in Employees \ {txn[w].emp} : row'[d] = row[d]
        BY <3>1, <4>0, <4>1
      <4>3. transfers' = IF RecordsMove(w)
                         THEN [transfers EXCEPT ![txn[w].emp] = Append(transfers[txn[w].emp], txn[w].org)]
                         ELSE transfers
        BY <3>3 DEF SaveUpdate, RecordTransfer
      <4>4. RecordsMove(w) => txn[w].old.org = row[txn[w].emp].org
        BY <4>0 DEF RecordsMove, Values, Nothing
      <4>5. Alive(txn[w].emp) => txn[w].old.org = row[txn[w].emp].org
        BY <4>0 DEF Values
      <4>6. CASE RecordsMove(w)
        BY <3>1, <4>0, <4>2, <4>3, <4>4, <4>6 DEF RecordsMove
      <4>7. CASE ~RecordsMove(w)
        BY <3>1, <4>0, <4>2, <4>3, <4>5, <4>7 DEF RecordsMove
      <4> QED
        BY <4>6, <4>7
    <3>4. CASE SaveDelete(w)
      <4>1. UNCHANGED transfers /\ row'[e].org = row[e].org
        BY <1>1, <2>3, <3>1, <3>4, Deleting DEF Write
      <4> QED
        BY <4>1
    <3>5. CASE SaveUnit(w)
      BY <3>5 DEF SaveUnit
    <3> QED
      BY <2>3, <3>2, <3>3, <3>4, <3>5 DEF Commit
  <2> QED
    BY <1>1, <2>1, <2>2, <2>3, Writers
<1>2. IInv /\ [Next]_vars => [\A e \in Employees : Recorded(e)]_vars
  BY <1>1
<1> QED
  BY <1>2, Invariant, PTL DEF Spec, MovesRecorded

\* A commit of a form or a delete view that finds the row's version: nobody may write
\* a sealed row.
LEMMA SealedUntouched ==
    ASSUME IInv, [Next]_vars, NEW e \in Employees, Sealed(e)
    PROVE  row'[e] = row[e]
<1>1. CASE Quiet
  BY <1>1 DEF Quiet
<1>2. ASSUME NEW S \in SUBSET Employees, DeleteSelected(S)
      PROVE  row'[e] = row[e]
  BY <1>2, Selected DEF Sealed
<1>3. ASSUME NEW w \in Workers, Commit(w)
      PROVE  row'[e] = row[e]
  <2>1. Sound(w) /\ txn[w].pc = "save" /\ row \in [Employees -> Row] /\ row[e].version \in Nat
    BY <1>3 DEF IInv, TypeOK, Commit, Row
  <2>2. CASE SaveCreate(w)
    BY <2>1, <2>2 DEF SaveCreate, Write, Sound, WellFormed, Creating, Sealed
  <2>3. CASE SaveUpdate(w)
    <3>1. /\ txn[w].op \in {"update", "admin"} /\ txn[w].version = row[txn[w].emp].version
          /\ txn[w].op = "update" => Alive(txn[w].emp)
      BY <2>1, <2>3 DEF SaveUpdate, Sound, HolderKnows
    <3>2. txn[w].emp # e
      BY <2>1, <3>1 DEF Alive, Sealed
    <3>3. PICK r : row' = [row EXCEPT ![txn[w].emp] = r]
      BY <1>3, <2>3, Changing DEF Write
    <3> QED
      BY <2>1, <3>2, <3>3
  <2>4. CASE SaveDelete(w)
    <3>1. txn[w].emp # e
      BY <1>3, <2>1, <2>4, Deleting DEF Alive, Sealed
    <3> QED
      BY <1>3, <2>1, <2>4, <3>1, Deleting DEF Write
  <2>5. CASE SaveUnit(w)
    BY <2>5 DEF SaveUnit
  <2> QED
    BY <1>3, <2>2, <2>3, <2>4, <2>5 DEF Commit
<1> QED
  BY <1>1, <1>2, <1>3, Writers

\* No form or delete view of a deleted row is opened, and those open keep its version.
LEMMA FormsOfDeleted ==
    ASSUME IInv, [Next]_vars, NEW e \in Employees, row[e].state = "deleted", NEW v \in Workers,
           txn'[v].emp = e, txn'[v].op \in {"admin", "remove"}
    PROVE  txn[v].emp = e /\ txn[v].op \in {"admin", "remove"} /\ txn'[v].version = txn[v].version
<1>1. txn \in [Workers -> Txn] /\ txn[v] \in Txn
  BY DEF IInv, TypeOK
<1>2. CASE txn'[v] = txn[v]
  BY <1>2
<1>3. ASSUME NEW t, Goto(v, t), t = Idle \/ t.op \notin {"admin", "remove"}
      PROVE  FALSE
  <2>1. txn'[v] = t
    BY <1>1, <1>3 DEF Goto
  <2> QED
    BY <1>3, <2>1, PersonnelAssumption DEF Idle, Ops
<1>4. CASE Begin(v)
  <2>1. ~Alive(e)
    BY DEF Alive
  <2>2. ASSUME NEW d \in Employees, OpenForm(v, d) PROVE FALSE
    <3>1. d # e /\ txn'[v].emp = d
      BY <1>1, <2>1, <2>2 DEF OpenForm, Goto, Idle
    <3> QED
      BY <3>1
  <2>3. ASSUME NEW d \in Employees, BeginRemove(v, d) PROVE FALSE
    <3>1. d # e /\ txn'[v].emp = d
      BY <1>1, <2>1, <2>3 DEF BeginRemove, Goto, Idle
    <3> QED
      BY <3>1
  <2>4. ASSUME NEW d \in Employees, NEW o \in Organizations, NEW s \in Statuses, BeginCreate(v, d, o, s)
        PROVE  FALSE
    BY <1>3, <2>4 DEF BeginCreate, Idle
  <2>5. ASSUME NEW d \in Employees, NEW o, NEW s, BeginUpdate(v, d, o, s) PROVE FALSE
    BY <1>3, <2>5 DEF BeginUpdate, Idle
  <2>6. ASSUME NEW d \in Employees, BeginDelete(v, d) PROVE FALSE
    BY <1>3, <2>6 DEF BeginDelete, Idle
  <2>7. ASSUME NEW o \in Organizations, NEW d, BeginHead(v, o, d) \/ BeginUnit(v, o, d) PROVE FALSE
    BY <1>3, <2>7 DEF BeginHead, BeginUnit, Idle
  <2>8. ASSUME NEW o \in Organizations, BeginActivate(v, o) PROVE FALSE
    BY <1>3, <2>8 DEF BeginActivate, Idle
  <2> QED
    BY <1>4, <2>2, <2>3, <2>4, <2>5, <2>6, <2>7, <2>8 DEF Begin
<1>5. CASE Step(v)
  <2>1. CASE \E o \in Organizations, s \in Statuses : PostForm(v, o, s)
    BY <1>1, <2>1 DEF PostForm, Goto, Txn
  <2>2. CASE ReadOld(v)
    BY <1>1, <2>2 DEF ReadOld, Goto, Txn
  <2>3. CASE UpdateVersion(v)
    BY <1>1, <1>3, <2>3 DEF UpdateVersion, Goto, Txn
  <2>4. CASE Lock(v)
    <3>1. txn[v].op \in {"update", "delete"} /\ Merged(v).op = txn[v].op
      BY <1>1, <2>4 DEF Lock, Merged, Txn
    <3>2. PICK t : Goto(v, t) /\ (t = Idle \/ t.op = txn[v].op)
      BY <1>1, <2>4, <3>1 DEF Lock, Txn
    <3> QED
      BY <1>3, <3>1, <3>2
  <2>5. CASE LockUnit(v)
    <3>1. PICK t : Goto(v, t) /\ (t = Idle \/ t.op = txn[v].op)
      BY <1>1, <2>5 DEF LockUnit, Txn
    <3> QED
      BY <1>3, <2>5, <3>1 DEF LockUnit
  <2>6. CASE Check(v)
    <3>1. txn[v].op = "delete"
      BY <2>6 DEF Check, IInv, Sound, WellFormed
    <3>2. PICK t : Goto(v, t) /\ (t = Idle \/ t.op = txn[v].op)
      BY <1>1, <2>6 DEF Check, Txn
    <3> QED
      BY <1>3, <3>1, <3>2
  <2>7. CASE Commit(v)
    BY <1>3, <2>7 DEF Commit
  <2> QED
    BY <1>5, <2>1, <2>2, <2>3, <2>4, <2>5, <2>6, <2>7 DEF Step
<1>6. CASE Fail(v)
  BY <1>3, <1>6 DEF Fail
<1>7. ASSUME NEW w \in Workers \ {v}, Begin(w) \/ Step(w) \/ Fail(w)
      PROVE  txn'[v] = txn[v]
  <2>1. \E t : Goto(w, t)
    BY <1>7 DEF Begin, BeginCreate, BeginUpdate, BeginDelete, OpenForm, BeginRemove, BeginHead, BeginActivate,
                BeginUnit, Step, PostForm, ReadOld, UpdateVersion, Lock, LockUnit, Check, Commit, Fail
  <2> QED
    BY <1>1, <2>1 DEF Goto
<1>8. ASSUME NEW S \in SUBSET Employees, DeleteSelected(S)
      PROVE  txn'[v] = txn[v]
  BY <1>8 DEF DeleteSelected
<1> QED
  BY <1>2, <1>4, <1>5, <1>6, <1>7, <1>8 DEF Next, vars

\* The deletion that raises row_version leaves no form that could write the row, and
\* none is opened on it afterwards; so it stays deleted and as it was.
THEOREM DeletedRowsStay == Spec => DeletedStay
<1>1. ASSUME IInv, IInv', [Next]_vars, NEW e \in Employees, Sealed(e)
      PROVE  Sealed(e)' /\ row'[e] = row[e]
  <2>1. row'[e] = row[e] /\ row[e].state = "deleted"
    BY <1>1, SealedUntouched DEF Sealed
  <2> QED
    BY <1>1, <2>1, FormsOfDeleted DEF Sealed
<1>2. ASSUME IInv, IInv', [Next]_vars, NEW e \in Employees, NEW w \in Workers, txn[w].emp = e,
             txn'[w] # txn[w], row'[e] # row[e], row'[e].state = "deleted"
      PROVE  Sealed(e)'
  <2>1. Commit(w)
    <3>1. CASE Quiet
      BY <1>2, <3>1 DEF Quiet
    <3>2. ASSUME NEW S \in SUBSET Employees, DeleteSelected(S) PROVE FALSE
      BY <1>2, <3>2 DEF DeleteSelected
    <3>3. ASSUME NEW v \in Workers, Commit(v) PROVE v = w
      BY <1>2, <3>3 DEF Commit, Goto, IInv, TypeOK
    <3> QED
      BY <1>2, <3>1, <3>2, <3>3, Writers
  <2>2. /\ row[e].version \in Nat /\ row'[e].version = row[e].version + 1
        /\ \A v \in Workers \ {w} : ~LocksRow(v, e) /\ txn'[v] = txn[v]
        /\ txn'[w] = Idle
    <3>1. row \in [Employees -> Row] /\ txn \in [Workers -> Txn] /\ row[e].version \in Nat
      BY <1>2 DEF IInv, TypeOK, Row
    <3>2. txn'[w] = Idle /\ \A v \in Workers \ {w} : txn'[v] = txn[v]
      BY <2>1, <3>1 DEF Commit, Goto
    <3>3. ~SaveCreate(w) /\ ~SaveUnit(w)
      BY <1>2, <3>1 DEF SaveCreate, SaveUnit, Write
    <3>4. CASE SaveUpdate(w)
      <4>1. PICK r : r.version = row[e].version + 1 /\ row' = [row EXCEPT ![e] = r]
        BY <1>2, <2>1, <3>4, Changing DEF Write
      <4>2. \A v \in Workers \ {w} : ~LocksRow(v, e)
        BY <1>2, <2>1, <3>4, CommitterAlone DEF SaveUpdate
      <4> QED
        BY <3>1, <3>2, <4>1, <4>2
    <3>5. CASE SaveDelete(w)
      <4>1. PICK r : r.version = row[e].version + 1 /\ row' = [row EXCEPT ![e] = r]
        BY <1>2, <2>1, <3>5, Deleting DEF Write
      <4>2. \A v \in Workers \ {w} : ~LocksRow(v, e)
        BY <1>2, <2>1, <3>5, CommitterAlone DEF SaveDelete
      <4> QED
        BY <3>1, <3>2, <4>1, <4>2
    <3> QED
      BY <2>1, <3>3, <3>4, <3>5 DEF Commit
  <2>3. ASSUME NEW v \in Workers, txn'[v].emp = e, txn'[v].op \in {"admin", "remove"}
        PROVE  txn'[v].version < row'[e].version
    <3>1. v # w /\ txn[v] = txn'[v]
      BY <2>2, <2>3, PersonnelAssumption DEF Idle, Ops
    <3>2. txn[v].pc \in {"form", "posted", "read"}
      <4>1. WellFormed(v) /\ txn[v] \in Txn /\ ~LocksRow(v, e)
        BY <1>2, <2>2, <3>1 DEF IInv, TypeOK, Sound
      <4>2. txn[v].pc \in {"idle", "form", "posted", "read", "lock", "check", "save"}
        BY <4>1 DEF Txn
      <4> QED
        BY <2>3, <3>1, <4>1, <4>2, PersonnelAssumption DEF LocksRow, WellFormed, Ops
    <3>3. txn[v].version <= row[e].version /\ txn[v].version \in Nat
      BY <1>2, <2>3, <3>1, <3>2 DEF IInv, TypeOK, Txn, Sound, FormSound
    <3> QED
      BY <2>2, <3>1, <3>3
  <2> QED
    BY <1>2, <2>3 DEF Sealed
<1>3. IInv /\ IInv' /\ [Next]_vars =>
        [\A e \in Employees :
           /\ \A w \in Workers : txn[w].emp = e /\ txn'[w] # txn[w] /\ row'[e] # row[e]
                                 /\ row'[e].state = "deleted" => Sealed(e)'
           /\ Sealed(e) => Sealed(e)' /\ row'[e] = row[e]]_vars
  BY <1>1, <1>2
<1> QED
  BY <1>3, Invariant, PTL DEF Spec, DeletedStay

\* No organization names the employee a counted deletion removes, at the moment it
\* commits.
THEOREM DeletedHeads == Spec => DeletedHeadNothing
<1>1. ASSUME IInv, [Next]_vars, NEW w \in Workers, txn[w].op = "delete", row' # row, txn'[w] # txn[w]
      PROVE  Heads(txn[w].emp) = {}
  <2>1. CASE Quiet
    BY <1>1, <2>1 DEF Quiet
  <2>2. ASSUME NEW S \in SUBSET Employees, DeleteSelected(S) PROVE FALSE
    BY <1>1, <2>2 DEF DeleteSelected
  <2>3. ASSUME NEW v \in Workers, Commit(v) PROVE v = w
    BY <1>1, <2>3 DEF Commit, Goto, IInv, TypeOK
  <2>4. CASE Commit(w)
    BY <1>1, <2>4 DEF Commit, IInv, Sound, Headless
  <2> QED
    BY <1>1, <2>1, <2>2, <2>3, <2>4, Writers
<1>2. IInv /\ [Next]_vars =>
        [\A w \in Workers : txn[w].op = "delete" /\ row' # row /\ txn'[w] # txn[w] =>
             Heads(txn[w].emp) = {}]_vars
  BY <1>1
<1> QED
  BY <1>2, Invariant, PTL DEF Spec, DeletedHeadNothing

-----------------------------------------------------------------------------
(* The refinement of Careers *)

\* A commit that writes one row rewrites one career.
LEMMA CareerWritten ==
    ASSUME NEW e \in Employees, row \in [Employees -> Row], NEW r, Write(e, r)
    PROVE  Career' = [Career EXCEPT ![e] = Records!At(r.state, r.org, r.status)]
<1>1. row' = [row EXCEPT ![e] = r]
  BY DEF Write
<1>2. Career'[e] = Records!At(r.state, r.org, r.status)
  BY <1>1 DEF Career, Records!At
<1>3. \A d \in Employees \ {e} : Career'[d] = Career[d]
  BY <1>1 DEF Career
<1> QED
  BY <1>2, <1>3 DEF Career

LEMMA CareerOf ==
    ASSUME NEW e \in Employees
    PROVE  /\ Career[e].state = row[e].state /\ Career[e].org = row[e].org
           /\ Career[e].status = row[e].status
BY DEF Career

LEMMA Hires ==
    ASSUME IInv, NEW w \in Workers, txn[w].pc = "save", SaveCreate(w)
    PROVE  Records!Next
<1> DEFINE e == txn[w].emp
           o == txn[w].org
           s == txn[w].status
<1>1. /\ e \in Employees /\ o \in Organizations /\ s \in Statuses /\ row[e].state = "absent"
      /\ row \in [Employees -> Row]
  BY DEF IInv, TypeOK, Sound, WellFormed, Creating, SaveCreate
<1>2. Career[e].state = "absent"
  BY <1>1, CareerOf
<1>3. PICK r : r = [state |-> "alive", org |-> o, status |-> s, version |-> 1] /\ Write(e, r)
  BY DEF SaveCreate
<1>4. Career' = [Career EXCEPT ![e] = Records!At("alive", o, s)]
  <2>1. Career' = [Career EXCEPT ![e] = Records!At(r.state, r.org, r.status)]
    BY <1>1, <1>3, CareerWritten
  <2> QED
    BY <1>3, <2>1
<1>5. transfers' = [transfers EXCEPT ![e] = Append(@, o)] /\ changes' = changes /\ HeadOf' = HeadOf
  BY DEF SaveCreate, RecordTransfer, HeadOf
<1>6. Records!Hire(e, o, s)
  BY <1>2, <1>4, <1>5 DEF Records!Hire
<1> QED
  BY <1>1, <1>6 DEF Records!Next

\* A change of a living employee records what it changes; one that writes again a row
\* deleted by `delete selected' may record nothing.
LEMMA Changes ==
    ASSUME IInv, NEW w \in Workers, Commit(w), SaveUpdate(w)
    PROVE  Records!Next
<1> DEFINE e == txn[w].emp
           o == txn[w].org
           s == txn[w].status
<1>1. /\ e \in Employees /\ row \in [Employees -> Row] /\ row[e].state \in {"alive", "deleted"}
      /\ o \in Organizations \cup {None} /\ s \in Statuses
      /\ \/ txn[w].old = Values(e)
         \/ txn[w].old = Nothing /\ txn[w].op = "admin" /\ ~Alive(e)
  BY Changing DEF IInv, TypeOK
<1>2. PICK r : r.state \in {"alive", "deleted"} /\ r.org = o /\ r.status = s /\ Write(e, r)
  BY Changing
<1>3. Career' = [Career EXCEPT ![e] = Records!At(r.state, o, s)]
  <2>1. Career' = [Career EXCEPT ![e] = Records!At(r.state, r.org, r.status)]
    BY <1>1, <1>2, CareerWritten
  <2> QED
    BY <1>2, <2>1
<1>4. /\ Career[e].state = row[e].state /\ Career[e].org = row[e].org /\ Career[e].status = row[e].status
  BY <1>1, CareerOf
<1>5. HeadOf' = HeadOf
  BY DEF SaveUpdate, HeadOf
<1>6. /\ transfers' = IF RecordsMove(w) THEN [transfers EXCEPT ![e] = Append(transfers[e], o)] ELSE transfers
      /\ changes' = IF RecordsChange(w) THEN [changes EXCEPT ![e] = Append(changes[e], <<txn[w].old.status, s>>)]
                    ELSE changes
  BY DEF SaveUpdate, RecordTransfer, RecordChange
<1>7. CASE txn[w].old = Values(e)
  <2>1. txn[w].old.org = Career[e].org /\ txn[w].old.status = Career[e].status /\ Career[e].status # None
    BY <1>1, <1>4, <1>7, PersonnelAssumption DEF Values, Row
  <2>2. \/ o # Career[e].org /\ transfers' = [transfers EXCEPT ![e] = Append(@, o)]
        \/ Career[e].org \in {o, None} /\ UNCHANGED transfers
    <3>1. CASE RecordsMove(w)
      BY <1>6, <2>1, <3>1 DEF RecordsMove
    <3>2. CASE ~RecordsMove(w)
      BY <1>6, <2>1, <3>2 DEF RecordsMove
    <3> QED
      BY <3>1, <3>2
  <2>3. changes' = IF s = Career[e].status THEN changes
                   ELSE [changes EXCEPT ![e] = Append(@, <<Career[e].status, s>>)]
    <3>1. CASE RecordsChange(w)
      BY <1>6, <2>1, <3>1 DEF RecordsChange
    <3>2. CASE ~RecordsChange(w)
      BY <1>6, <2>1, <3>2 DEF RecordsChange
    <3> QED
      BY <3>1, <3>2
  <2>4. Records!Record(e, o, s)
    BY <2>2, <2>3 DEF Records!Record
  <2>5. Records!Change(e, o, s) \/ Records!Resume(e, o, s)
    BY <1>1, <1>2, <1>3, <1>4, <1>5, <2>4 DEF Records!Change, Records!Resume
  <2> QED
    BY <1>1, <2>5 DEF Records!Next
<1>8. CASE txn[w].old = Nothing /\ txn[w].op = "admin" /\ ~Alive(e)
  <2>1. UNCHANGED <<transfers, changes>>
    BY <1>6, <1>8 DEF RecordsMove, RecordsChange, Nothing
  <2>2. Records!Resume(e, o, s)
    BY <1>1, <1>2, <1>3, <1>4, <1>5, <1>8, <2>1 DEF Alive, Records!Resume
  <2> QED
    BY <1>1, <2>2 DEF Records!Next
<1> QED
  BY <1>1, <1>7, <1>8

LEMMA Leaves ==
    ASSUME IInv, NEW w \in Workers, Commit(w), SaveDelete(w)
    PROVE  Records!Next \/ UNCHANGED <<Career, transfers, changes, HeadOf>>
<1> DEFINE e == txn[w].emp
<1>1. /\ e \in Employees /\ row \in [Employees -> Row] /\ row[e].state \in {"alive", "deleted"}
      /\ UNCHANGED <<unit, transfers, changes>>
  BY Deleting DEF IInv, TypeOK, Row
<1>2. PICK r : r.state = "deleted" /\ r.org = row[e].org /\ r.status = row[e].status /\ Write(e, r)
  BY Deleting
<1>3. row' = [row EXCEPT ![e] = r] /\ HeadOf' = HeadOf
  BY <1>1, <1>2 DEF Write, HeadOf
<1>4. CASE row[e].state = "alive"
  <2>1. Career' = [d \in Employees |-> IF d \in {e} THEN Records!At("deleted", Career[d].org, Career[d].status)
                                       ELSE Career[d]]
    BY <1>1, <1>2, <1>3 DEF Career, Records!At
  <2>2. Records!Leave({e})
    BY <1>1, <1>3, <1>4, <2>1, CareerOf DEF Records!Leave
  <2>3. {e} \in SUBSET Employees
    BY <1>1
  <2> QED
    BY <2>2, <2>3 DEF Records!Next
<1>5. CASE row[e].state = "deleted"
  <2>1. Career' = Career
    BY <1>1, <1>2, <1>3, <1>5 DEF Career
  <2> QED
    BY <1>1, <1>3, <2>1
<1> QED
  BY <1>1, <1>4, <1>5

LEMMA SelectedLeave ==
    ASSUME IInv, NEW S \in SUBSET Employees, DeleteSelected(S)
    PROVE  Records!Next
<1>1. \A d \in S : Career[d].state = "alive"
  BY Selected, CareerOf
<1>2. \A d \in Employees :
         [state |-> row'[d].state, org |-> row'[d].org, status |-> row'[d].status] =
             IF d \in S THEN Records!At("deleted", Career[d].org, Career[d].status) ELSE Career[d]
  BY Selected, CareerOf DEF Records!At, Career
<1>3. Career' = [d \in Employees |-> IF d \in S THEN Records!At("deleted", Career[d].org, Career[d].status)
                                     ELSE Career[d]]
  BY <1>2 DEF Career
<1>4. UNCHANGED <<transfers, changes, HeadOf>>
  BY DEF DeleteSelected, HeadOf
<1>5. Records!Leave(S)
  BY <1>1, <1>3, <1>4 DEF Records!Leave
<1> QED
  BY <1>5 DEF Records!Next

LEMMA Appoints ==
    ASSUME IInv, NEW w \in Workers, SaveUnit(w)
    PROVE  Records!Next \/ UNCHANGED <<Career, transfers, changes, HeadOf>>
<1> DEFINE o == txn[w].org
<1>1. /\ o \in Organizations /\ unit \in [Organizations -> Unit]
      /\ UNCHANGED <<row, transfers, changes>> /\ txn[w].emp \in Employees \cup {None}
  BY UnitWritten DEF IInv, TypeOK, Txn
<1>2. PICK u \in Unit : /\ unit' = [unit EXCEPT ![o] = u]
                        /\ u.head \in {unit[o].head, txn[w].emp}
  BY UnitWritten
<1>3. Career' = Career /\ transfers' = transfers /\ changes' = changes
  BY <1>1 DEF Career
<1>4. HeadOf' = [HeadOf EXCEPT ![o] = u.head]
  BY <1>1, <1>2 DEF HeadOf
<1>5. CASE u.head = txn[w].emp
  <2>1. Records!Appoint(o, txn[w].emp)
    BY <1>3, <1>4, <1>5 DEF Records!Appoint
  <2> QED
    BY <1>1, <2>1 DEF Records!Next
<1>6. CASE u.head = unit[o].head
  <2>1. HeadOf' = HeadOf
    BY <1>1, <1>4, <1>6 DEF HeadOf
  <2> QED
    BY <1>3, <2>1
<1> QED
  BY <1>2, <1>5, <1>6

LEMMA NextOnCareers ==
    ASSUME IInv, [Next]_vars
    PROVE  Records!Next \/ UNCHANGED <<Career, transfers, changes, HeadOf>>
<1>1. CASE Quiet
  BY <1>1 DEF Quiet, Career, HeadOf
<1>2. ASSUME NEW w \in Workers, Commit(w)
      PROVE  Records!Next \/ UNCHANGED <<Career, transfers, changes, HeadOf>>
  BY <1>2, Hires, Changes, Leaves, Appoints DEF Commit
<1> QED
  BY <1>1, <1>2, SelectedLeave, Writers

LEMMA InitOnCareers == Init => Records!Init
<1> SUFFICES ASSUME Init PROVE Records!Init
  OBVIOUS
<1>1. ASSUME NEW e \in Employees
      PROVE  Career[e] \in {Records!At("absent", None, "IN_SERVICE"), Records!At("alive", None, "IN_SERVICE")}
  <2>1. /\ row[e].org = None /\ row[e].status = "IN_SERVICE"
        /\ row[e].state = "absent" \/ row[e].state = "alive"
    BY DEF Init
  <2> QED
    BY <2>1 DEF Career, Records!At
<1>2. Career \in [Employees -> {Records!At("absent", None, "IN_SERVICE"), Records!At("alive", None, "IN_SERVICE")}]
  BY <1>1 DEF Career
<1>3. HeadOf = [o \in Organizations |-> None]
  BY DEF Init, HeadOf
<1> QED
  BY <1>2, <1>3 DEF Init, Records!Init

\* Whatever the API and the admin site interleave, the employees' records and their
\* histories are those of the abstract careers: whoever hires, changes or removes
\* employees does it as if they had the record to themselves, and only a form saved on
\* a deleted row resumes a career without saying what it changed.
THEOREM Refinement == Spec => ImplementsCareers
<1>1. IInv /\ [Next]_vars => [Records!Next]_<<Career, transfers, changes, HeadOf>>
  BY NextOnCareers
<1> QED
  BY <1>1, InitOnCareers, Invariant, PTL DEF Spec, ImplementsCareers, Records!Spec, Records!careerVars

=============================================================================
