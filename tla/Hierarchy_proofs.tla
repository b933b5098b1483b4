-------------------------- MODULE Hierarchy_proofs --------------------------
(***************************************************************************)
(* Proofs about Hierarchy, for any sets of rows and of workers.            *)
(*                                                                         *)
(* That a move which is not overtaken keeps the forest rests on what a     *)
(* request knows of its walk: the rows it fetched are closed under the     *)
(* parents it saw, contain the new parent and not the row being moved.     *)
(* That nothing is attached to a row a service is about to delete rests on *)
(* the locks: from the dependency count to the commit the row stays locked *)
(* for update, and a row with a new key to it needs that lock.             *)
(***************************************************************************)
EXTENDS Hierarchy, TLAPS

\* The fields of a request belong together.
WellFormed(w) ==
    /\ txn[w].pc # "idle" => txn[w].op \in Ops /\ txn[w].node \in Nodes
    /\ txn[w].op = "create" => txn[w].pc \in {"walk", "commit"}
    /\ txn[w].op = "move"   => txn[w].pc \in {"walk", "lock", "commit"}
    /\ txn[w].op = "form"   => txn[w].pc \in {"walk", "update", "commit"}
    /\ txn[w].op = "delete" => txn[w].pc \in {"lock", "check", "commit"}
    /\ txn[w].op = "remove" => txn[w].pc \in {"update", "commit"}
    /\ txn[w].op = "edit"   => txn[w].pc \in {"lock", "walk_locked", "commit"}
    /\ txn[w].pc \in {"check", "walk_locked"} => txn[w].op \in {"delete", "edit"}

\* The row of an update or a deletion has existed since the request began.
RowExists(w) == txn[w].pc # "idle" /\ txn[w].op # "create" => state[txn[w].node] # "absent"

\* What a request that gives a row a new parent knows of that parent's ancestors.
WalkSound(w) ==
    txn[w].op \in {"create", "move", "form"} =>
        /\ txn[w].to # txn[w].node
        /\ txn[w].node \notin Visited(w)
        /\ txn[w].to = None \/ txn[w].to \in Visited(w)
        /\ \A r \in txn[w].read : r[2] \in Visited(w) \cup {None, txn[w].next}
        /\ txn[w].pc # "walk" => txn[w].next = None

\* Two requests never hold the same row.
LocksExclusive ==
    \A w, x \in Workers : \A n \in Nodes : Holds(w, n) /\ Holds(x, n) => w = x

IInv ==
    /\ TypeOK
    /\ LocksExclusive
    /\ \A w \in Workers : WellFormed(w) /\ RowExists(w) /\ WalkSound(w)

-----------------------------------------------------------------------------

\* A worker that becomes idle.
LEMMA IdleSound ==
    ASSUME NEW w \in Workers, txn'[w] = Idle
    PROVE  /\ WellFormed(w)' /\ RowExists(w)' /\ WalkSound(w)'
           /\ \A n \in Nodes : ~Holds(w, n)'
BY HierarchyAssumption DEF Idle, WellFormed, RowExists, WalkSound, Holds, Ops, Api, Admin

\* A request that does not move keeps what is said of it while the data stay.
LEMMA Unmoved ==
    ASSUME NEW v \in Workers, txn'[v] = txn[v], WellFormed(v), WalkSound(v)
    PROVE  WellFormed(v)' /\ WalkSound(v)'
BY DEF WellFormed, WalkSound, Visited

LEMMA UnmovedOnData ==
    ASSUME NEW v \in Workers, txn'[v] = txn[v], RowExists(v), UNCHANGED state
    PROVE  RowExists(v)'
BY DEF RowExists

\* A request locks only a row that no other request holds.
LEMMA LockStep ==
    ASSUME TypeOK, LocksExclusive, NEW w \in Workers,
           \A v \in Workers \ {w} : txn'[v] = txn[v],
           \A n \in Nodes : Holds(w, n)' => Holds(w, n) \/ RowFree(w, n)
    PROVE  LocksExclusive'
<1> SUFFICES ASSUME NEW x \in Workers, NEW y \in Workers, NEW n \in Nodes,
                    Holds(x, n)', Holds(y, n)'
             PROVE  x = y
  BY DEF LocksExclusive
<1>1. \A v \in Workers \ {w} : Holds(v, n)' => Holds(v, n)
  BY DEF Holds
<1>2. CASE x # w /\ y # w
  BY <1>1, <1>2 DEF LocksExclusive
<1>3. CASE x = w /\ y # w
  BY <1>1, <1>3 DEF LocksExclusive, RowFree
<1>4. CASE x # w /\ y = w
  BY <1>1, <1>4 DEF LocksExclusive, RowFree
<1> QED
  BY <1>2, <1>3, <1>4

\* A step of one request that writes no row keeps the invariant if it keeps what is
\* said of that request and takes only free locks.
LEMMA LocalStep ==
    ASSUME IInv, NEW w \in Workers, NEW t \in Txn, Goto(w, t), Quiet,
           WellFormed(w)', RowExists(w)', WalkSound(w)',
           \A n \in Nodes : Holds(w, n)' => Holds(w, n) \/ RowFree(w, n)
    PROVE  IInv'
<1>1. TypeOK'
  BY DEF IInv, TypeOK, Goto, Quiet
<1>2. \A v \in Workers \ {w} : txn'[v] = txn[v]
  BY DEF IInv, TypeOK, Goto
<1>3. LocksExclusive'
  BY <1>2, LockStep DEF IInv
<1>4. ASSUME NEW v \in Workers \ {w}
      PROVE  WellFormed(v)' /\ RowExists(v)' /\ WalkSound(v)'
  BY <1>2, Unmoved, UnmovedOnData DEF IInv, Quiet
<1> QED
  BY <1>1, <1>3, <1>4 DEF IInv

\* A request that ends without writing.
LEMMA Ends ==
    ASSUME IInv, NEW w \in Workers, Goto(w, Idle), Quiet
    PROVE  IInv'
<1>1. txn'[w] = Idle
  BY DEF IInv, TypeOK, Goto
<1>2. Idle \in Txn
  BY DEF Idle, Txn, Parents
<1> QED
  BY <1>1, <1>2, IdleSound, LocalStep

-----------------------------------------------------------------------------
LEMMA InitInv == Init => IInv
<1> SUFFICES ASSUME Init PROVE IInv
  OBVIOUS
<1>1. TypeOK
  BY DEF Init, TypeOK, Txn, Idle, Parents
<1>2. \A w \in Workers : txn[w] = Idle
  BY DEF Init
<1>3. LocksExclusive
  BY <1>2 DEF LocksExclusive, Holds, Idle
<1>4. \A w \in Workers : WellFormed(w) /\ RowExists(w) /\ WalkSound(w)
  BY <1>2, HierarchyAssumption DEF WellFormed, RowExists, WalkSound, Idle, Ops, Api, Admin
<1> QED
  BY <1>1, <1>3, <1>4 DEF IInv

LEMMA BeginInv ==
    ASSUME IInv, NEW w \in Workers, Begin(w)
    PROVE  IInv'
<1> PICK n \in Nodes :
        \/ \E p \in Parents : BeginCreate(w, n, p) \/ BeginMove(w, n, p) \/ BeginForm(w, n, p)
        \/ BeginEdit(w, n)
        \/ BeginDelete(w, n)
        \/ BeginRemove(w, n)
  BY DEF Begin
<1>1. ASSUME NEW p \in Parents, BeginCreate(w, n, p) \/ BeginMove(w, n, p) \/ BeginForm(w, n, p)
      PROVE  IInv'
  <2>0. PICK op \in {"create", "move", "form"} :
            /\ Goto(w, [pc |-> "walk", op |-> op, node |-> n, to |-> p,
                        next |-> ParentOf(p), read |-> Fetch(p)])
            /\ op # "create" => Alive(n)
    BY <1>1 DEF BeginCreate, BeginMove, BeginForm
  <2> DEFINE t == [pc |-> "walk", op |-> op, node |-> n, to |-> p,
                   next |-> ParentOf(p), read |-> Fetch(p)]
  <2>1. Goto(w, t) /\ Quiet /\ (p # None => Alive(p))
    BY <1>1, <2>0 DEF BeginCreate, BeginMove, BeginForm
  <2>2. p # n
    BY <1>1, <2>1, HierarchyAssumption DEF BeginCreate, BeginMove, BeginForm, Alive
  <2>3. t \in Txn
    BY DEF IInv, TypeOK, Txn, Ops, Api, Admin, Parents, ParentOf, Fetch
  <2>4. txn'[w] = t
    BY <2>1 DEF IInv, TypeOK, Goto
  <2>5. WellFormed(w)' /\ \A m \in Nodes : ~Holds(w, m)'
    BY <2>4 DEF WellFormed, Holds, Ops, Api, Admin
  <2>6. WalkSound(w)'
    <3>1. CASE p = None
      BY <2>2, <2>4, <3>1 DEF WalkSound, Visited, Fetch
    <3>2. CASE p # None
      <4>1. txn'[w].read = {<<p, parent[p]>>} /\ txn'[w].next = parent[p]
        BY <2>4, <3>2 DEF Fetch, ParentOf
      <4>2. Visited(w)' = {p}
        BY <4>1 DEF Visited
      <4> QED
        BY <2>2, <2>4, <4>1, <4>2 DEF WalkSound
    <3> QED
      BY <3>1, <3>2
  <2>7. RowExists(w)'
    BY <2>0, <2>1, <2>4 DEF RowExists, Alive, Quiet
  <2> QED
    BY <2>1, <2>3, <2>5, <2>6, <2>7, LocalStep
<1>2. ASSUME BeginEdit(w, n) \/ BeginDelete(w, n) \/ BeginRemove(w, n)
      PROVE  IInv'
  <2>0. PICK op \in {"edit", "delete", "remove"}, pc \in {"lock", "update"} :
            /\ Goto(w, [Idle EXCEPT !.pc = pc, !.op = op, !.node = n])
            /\ pc = "update" <=> op = "remove"
    BY <1>2 DEF BeginEdit, BeginDelete, BeginRemove
  <2> DEFINE t == [Idle EXCEPT !.pc = pc, !.op = op, !.node = n]
  <2>1. Goto(w, t) /\ Quiet /\ Alive(n)
    BY <1>2, <2>0 DEF BeginEdit, BeginDelete, BeginRemove
  <2>2. t \in Txn
    BY DEF Txn, Ops, Api, Admin, Parents, Idle
  <2>3. txn'[w] = t
    BY <2>1 DEF IInv, TypeOK, Goto
  <2>4. WellFormed(w)' /\ RowExists(w)' /\ WalkSound(w)' /\ \A m \in Nodes : ~Holds(w, m)'
    BY <2>0, <2>1, <2>3 DEF WellFormed, RowExists, WalkSound, Holds, Ops, Api, Admin, Idle, Alive, Quiet
  <2> QED
    BY <2>1, <2>2, <2>4, LocalStep
<1> QED
  BY <1>1, <1>2

\* A row more among the rows fetched.
LEMMA OneMoreRead ==
    ASSUME NEW R, NEW n, NEW m
    PROVE  {r[1] : r \in R \cup {<<n, m>>}} = {r[1] : r \in R} \cup {n}
<1>1. <<n, m>>[1] = n
  OBVIOUS
<1>2. \A x : x \in {r[1] : r \in R \cup {<<n, m>>}} <=> x \in {r[1] : r \in R} \cup {n}
  BY <1>1, Zenon
<1> QED
  BY <1>2, Zenon

LEMMA WalkInv ==
    ASSUME IInv, NEW w \in Workers, Walk(w)
    PROVE  IInv'
<1> DEFINE next == txn[w].next
<1>0. /\ txn[w] \in Txn /\ txn[w].op \in {"create", "move", "form", "edit"}
      /\ WellFormed(w) /\ RowExists(w) /\ WalkSound(w)
  BY DEF IInv, TypeOK, WellFormed, Walk, Ops, Api, Admin
<1>1. CASE next = None
  <2>1. Goto(w, Walked(w)) /\ Quiet
    BY <1>1 DEF Walk
  <2>2. Walked(w) \in Txn
    BY <1>0 DEF Walked, Txn
  <2>3. txn'[w] = Walked(w)
    BY <2>1 DEF IInv, TypeOK, Goto
  <2>4. WellFormed(w)' /\ RowExists(w)'
    BY <1>0, <2>1, <2>3 DEF WellFormed, RowExists, Walked, Ops, Api, Admin, Txn, Walk, Quiet
  <2>5. WalkSound(w)'
    BY <1>0, <1>1, <2>3 DEF WalkSound, Visited, Walked, Txn
  <2>6. \A n \in Nodes : Holds(w, n)' => Holds(w, n)
    BY <1>0, <2>3, HierarchyAssumption DEF Holds, Walked, WellFormed, Txn, Walk
  <2> QED
    BY <2>1, <2>2, <2>4, <2>5, <2>6, LocalStep
<1>2. CASE next # None /\ NoCycleSoFar(w)
  <2> DEFINE t == [txn[w] EXCEPT !.next = parent[next], !.read = txn[w].read \cup Fetch(next)]
  <2>1. Goto(w, t) /\ Quiet
    BY <1>2 DEF Walk
  <2>2. t \in Txn /\ next \in Nodes
    <3>1. next \in Nodes
      BY <1>0, <1>2 DEF Txn, Parents
    <3>2. parent[next] \in Parents /\ Fetch(next) = {<<next, parent[next]>>}
      BY <1>2, <3>1 DEF IInv, TypeOK, Fetch
    <3>3. txn[w].read \cup Fetch(next) \in SUBSET (Nodes \X Parents)
      BY <1>0, <3>1, <3>2 DEF Txn
    <3> QED
      BY <1>0, <3>1, <3>2, <3>3 DEF Txn
  <2>3. txn'[w] = t
    BY <2>1 DEF IInv, TypeOK, Goto
  <2>4. /\ WellFormed(w)' /\ RowExists(w)'
        /\ \A n \in Nodes : Holds(w, n)' => Holds(w, n)
    BY <1>0, <2>1, <2>3 DEF WellFormed, RowExists, Txn, Holds, Walk, Ops, Api, Admin, Quiet
  <2>5. ASSUME txn[w].op \in {"create", "move", "form"}
        PROVE  WalkSound(w)'
    <3>2. txn[w].node # next
      BY <1>2 DEF NoCycleSoFar
    <3>3. txn[w].pc = "walk"
      BY <1>0, <2>5 DEF Walk, WellFormed
    <3>4. txn'[w].read = txn[w].read \cup {<<next, parent[next]>>} /\ txn'[w].next = parent[next]
          /\ txn'[w].node = txn[w].node /\ txn'[w].to = txn[w].to /\ txn'[w].pc = "walk"
      BY <2>2, <2>3, <1>0, <3>3, HierarchyAssumption DEF Fetch, Txn
    <3>1. Visited(w)' = Visited(w) \cup {next}
      <4>1. {r[1] : r \in txn[w].read \cup {<<next, parent[next]>>}} = {r[1] : r \in txn[w].read} \cup {next}
        BY OneMoreRead
      <4>2. Visited(w)' = {r[1] : r \in txn[w].read \cup {<<next, parent[next]>>}}
        BY <3>4 DEF Visited
      <4> QED
        BY <4>1, <4>2 DEF Visited
    <3>5. \A r \in txn'[w].read : r[2] \in Visited(w)' \cup {None, txn'[w].next}
      BY <3>1, <3>4, <1>0, <2>5 DEF WalkSound
    <3> QED
      BY <3>1, <3>2, <3>4, <3>5, <1>0, <2>5 DEF WalkSound
  <2>6. WalkSound(w)'
    BY <2>5, <2>3, <1>0 DEF WalkSound, Txn
  <2> QED
    BY <2>1, <2>2, <2>4, <2>6, LocalStep
<1>3. CASE next # None /\ ~NoCycleSoFar(w)
  BY <1>3, Ends DEF Walk
<1> QED
  BY <1>1, <1>2, <1>3

LEMMA LockInv ==
    ASSUME IInv, NEW w \in Workers, Lock(w)
    PROVE  IInv'
<1> DEFINE n == txn[w].node
<1>0. txn[w] \in Txn /\ n \in Nodes /\ WellFormed(w) /\ RowExists(w) /\ WalkSound(w) /\ RowFree(w, n)
  BY DEF IInv, TypeOK, WellFormed, Lock
<1>1. CASE ~Alive(n)
  BY <1>1, Ends DEF Lock
<1>2. ASSUME NEW pc \in {"commit", "check", "walk_locked"}, NEW m \in Parents,
             Goto(w, [txn[w] EXCEPT !.pc = pc, !.next = m]), Quiet,
             \/ txn[w].op = "move" /\ pc = "commit" /\ m = txn[w].next
             \/ txn[w].op = "delete" /\ pc = "check"
             \/ txn[w].op = "edit" /\ pc = "walk_locked"
      PROVE  IInv'
  <2> DEFINE t == [txn[w] EXCEPT !.pc = pc, !.next = m]
  <2>1. t \in Txn
    BY <1>0 DEF Txn
  <2>2. txn'[w] = t
    BY <1>2 DEF IInv, TypeOK, Goto
  <2>3. WellFormed(w)' /\ RowExists(w)'
    BY <1>0, <1>2, <2>2 DEF WellFormed, RowExists, Txn, Ops, Api, Admin, Lock, Quiet
  <2>4. WalkSound(w)'
    BY <1>0, <1>2, <2>2 DEF WalkSound, Visited, Txn, Lock
  <2>5. \A k \in Nodes : Holds(w, k)' => RowFree(w, k)
    BY <1>0, <2>2 DEF Holds, Txn
  <2> QED
    BY <1>2, <2>1, <2>3, <2>4, <2>5, LocalStep
<1>3. CASE Alive(n) /\ txn[w].op \in {"move", "delete"}
  <2>1. \A pc \in {"commit", "check"} :
            [txn[w] EXCEPT !.pc = pc] = [txn[w] EXCEPT !.pc = pc, !.next = txn[w].next]
    BY <1>0 DEF Txn
  <2>2. txn[w].next \in Parents
    BY <1>0 DEF Txn
  <2> QED
    BY <1>2, <1>3, <2>1, <2>2 DEF Lock
<1>4. CASE Alive(n) /\ txn[w].op = "edit"
  <2>1. parent[n] \in Parents
    BY <1>0 DEF IInv, TypeOK
  <2> QED
    BY <1>2, <1>4, <2>1 DEF Lock
<1> QED
  BY <1>1, <1>3, <1>4 DEF Lock

LEMMA CheckInv ==
    ASSUME IInv, NEW w \in Workers, Check(w)
    PROVE  IInv'
<1>0. txn[w] \in Txn /\ WellFormed(w) /\ RowExists(w) /\ txn[w].op \in {"delete", "edit"}
  BY DEF IInv, TypeOK, WellFormed, Check
<1>1. CASE Children(txn[w].node) # {}
  BY <1>1, Ends DEF Check
<1>2. CASE Children(txn[w].node) = {}
  <2> DEFINE t == [txn[w] EXCEPT !.pc = "commit"]
  <2>1. Goto(w, t) /\ Quiet
    BY <1>2 DEF Check
  <2>2. t \in Txn
    BY <1>0 DEF Txn
  <2>3. txn'[w] = t
    BY <2>1 DEF IInv, TypeOK, Goto
  <2>4. /\ WellFormed(w)' /\ RowExists(w)' /\ WalkSound(w)'
        /\ \A n \in Nodes : Holds(w, n)' => Holds(w, n)
    BY <1>0, <2>1, <2>3 DEF WellFormed, RowExists, WalkSound, Holds, Txn, Check, Ops, Api, Admin, Quiet
  <2> QED
    BY <2>1, <2>2, <2>4, LocalStep
<1> QED
  BY <1>1, <1>2

LEMMA UpdateInv ==
    ASSUME IInv, NEW w \in Workers, Update(w)
    PROVE  IInv'
<1>0. /\ txn[w] \in Txn /\ WellFormed(w) /\ RowExists(w) /\ WalkSound(w)
      /\ RowFree(w, txn[w].node) /\ txn[w].op \in {"form", "remove"}
  BY DEF IInv, TypeOK, WellFormed, Update, Ops, Api, Admin
<1>1. CASE w \in stale
  BY <1>1, Ends DEF Update
<1>2. CASE w \notin stale
  <2> DEFINE t == [txn[w] EXCEPT !.pc = "commit"]
  <2>1. Goto(w, t) /\ Quiet
    BY <1>2 DEF Update
  <2>2. t \in Txn
    BY <1>0 DEF Txn
  <2>3. txn'[w] = t
    BY <2>1 DEF IInv, TypeOK, Goto
  <2>4. WellFormed(w)' /\ RowExists(w)'
    BY <1>0, <2>1, <2>3 DEF WellFormed, RowExists, Txn, Update, Ops, Api, Admin, Quiet
  <2>5. WalkSound(w)'
    BY <1>0, <2>3 DEF WalkSound, Visited, Txn, Update
  <2>6. \A n \in Nodes : Holds(w, n)' => RowFree(w, n)
    BY <1>0, <2>3 DEF Holds, Txn
  <2> QED
    BY <2>1, <2>2, <2>4, <2>5, <2>6, LocalStep
<1> QED
  BY <1>1, <1>2

LEMMA CommitInv ==
    ASSUME IInv, NEW w \in Workers, Commit(w)
    PROVE  IInv'
<1> DEFINE n == txn[w].node
<1>0. txn[w] \in Txn /\ n \in Nodes /\ WellFormed(w) /\ RowExists(w) /\ Idle \in Txn
  BY DEF IInv, TypeOK, WellFormed, Commit, Idle, Txn, Parents
<1>1. txn'[w] = Idle /\ \A v \in Workers \ {w} : txn'[v] = txn[v]
  BY DEF Commit, Done, IInv, TypeOK
<1>2. TypeOK'
  <2>1. txn' \in [Workers -> Txn] /\ stale' \in SUBSET Workers
    BY <1>0 DEF Commit, Done, Loaded, IInv, TypeOK
  <2>2. state' \in [Nodes -> {"absent", "alive", "deleted"}] /\ parent' \in [Nodes -> Parents]
    BY <1>0 DEF Commit, Quiet, IInv, TypeOK, Txn
  <2>3. ASSUME NEW m \in Nodes, state'[m] = "absent"
        PROVE  parent'[m] = None
    <3>1. CASE txn[w].op \in {"create", "form", "delete", "remove"}
      BY <1>0, <2>3, <3>1 DEF Commit, IInv, TypeOK
    <3>2. CASE txn[w].op = "move"
      BY <1>0, <2>3, <3>2 DEF Commit, RowExists, IInv, TypeOK
    <3>3. CASE txn[w].op = "edit"
      BY <1>0, <2>3, <3>3 DEF Commit, Quiet, IInv, TypeOK
    <3> QED
      BY <3>1, <3>2, <3>3 DEF Commit
  <2> QED
    BY <2>1, <2>2, <2>3 DEF TypeOK
<1>3. LocksExclusive'
  BY <1>1, IdleSound, LockStep DEF IInv
<1>5. ASSUME NEW v \in Workers
      PROVE  WellFormed(v)' /\ RowExists(v)' /\ WalkSound(v)'
  <2>1. CASE v = w
    BY <1>1, <2>1, IdleSound
  <2>2. CASE v # w
    <3>1. RowExists(v)'
      <4>1. \A m \in Nodes : state[m] # "absent" => state'[m] # "absent"
        BY <1>0 DEF Commit, Quiet, IInv, TypeOK
      <4> QED
        BY <1>1, <2>2, <4>1 DEF IInv, RowExists, WellFormed
    <3> QED
      BY <1>1, <2>2, <3>1, Unmoved DEF IInv
  <2> QED
    BY <2>1, <2>2
<1> QED
  BY <1>2, <1>3, <1>5 DEF IInv

LEMMA DeleteSelectedInv ==
    ASSUME IInv, NEW S \in SUBSET Nodes, DeleteSelected(S)
    PROVE  IInv'
<1>1. UNCHANGED <<parent, txn, stale>>
  BY DEF DeleteSelected
<1>2. /\ state' \in [Nodes -> {"absent", "alive", "deleted"}]
      /\ \A n \in Nodes : state'[n] = "absent" <=> state[n] = "absent"
  BY DEF DeleteSelected, Alive, IInv, TypeOK
<1>3. TypeOK'
  BY <1>1, <1>2 DEF IInv, TypeOK
<1>4. LocksExclusive'
  BY <1>1 DEF IInv, LocksExclusive, Holds
<1>5. ASSUME NEW v \in Workers
      PROVE  WellFormed(v)' /\ RowExists(v)' /\ WalkSound(v)'
  <2>1. WellFormed(v)' /\ WalkSound(v)'
    BY <1>1, Unmoved DEF IInv
  <2>2. RowExists(v)'
    BY <1>1, <1>2 DEF IInv, RowExists, WellFormed
  <2> QED
    BY <2>1, <2>2
<1> QED
  BY <1>3, <1>4, <1>5 DEF IInv

LEMMA NextInv == IInv /\ [Next]_vars => IInv'
<1> SUFFICES ASSUME IInv, [Next]_vars PROVE IInv'
  OBVIOUS
<1>1. CASE UNCHANGED vars
  BY <1>1 DEF vars, IInv, TypeOK, LocksExclusive, WellFormed, RowExists, WalkSound,
              Holds, Visited
<1>2. ASSUME NEW w \in Workers, Begin(w) \/ Step(w) \/ Fail(w)
      PROVE  IInv'
  BY <1>2, BeginInv, WalkInv, LockInv, CheckInv, UpdateInv, CommitInv, Ends DEF Step, Fail
<1> QED
  BY <1>1, <1>2, DeleteSelectedInv DEF Next

-----------------------------------------------------------------------------
\* Every reachable state satisfies the invariant, for any sets of rows and workers.
LEMMA Invariant == Spec => []IInv
BY InitInv, NextInv, PTL DEF Spec

\* States stay typed, and rows that do not exist point nowhere.
THEOREM TypeCorrect == Spec => []TypeOK
<1>1. IInv => TypeOK
  BY DEF IInv
<1> QED
  BY <1>1, Invariant, PTL

\* Rows get parents, and are brought back, only by a commit.
LEMMA OnlyCommitWrites ==
    ASSUME IInv, Next,
           \/ parent' # parent
           \/ \E n \in Nodes : state'[n] # state[n] /\ state'[n] = "alive"
    PROVE  \E w \in Workers : Commit(w) /\ \A v \in Workers \ {w} : txn'[v] = txn[v]
<1>1. ~\E S \in SUBSET Nodes : DeleteSelected(S)
  BY DEF DeleteSelected
<1>2. PICK w \in Workers : Begin(w) \/ Step(w) \/ Fail(w)
  BY <1>1 DEF Next
<1>3. Commit(w)
  BY <1>2 DEF Begin, BeginCreate, BeginMove, BeginForm, BeginEdit, BeginDelete, BeginRemove, Step,
              Walk, Lock, Check, Update, Fail, Quiet
<1> QED
  BY <1>3 DEF Commit, Done, IInv, TypeOK

\* The algebra of the walk: if a set V of rows that does not contain n is closed under
\* parents and contains the new parent of n, giving n that parent makes no cycle.
LEMMA MoveUnderClosedSet ==
    ASSUME NEW p \in [Nodes -> Parents], NEW n \in Nodes, NEW to \in Parents,
           NEW V \in SUBSET Nodes, n \notin V, to = None \/ to \in V,
           \A v \in V : p[v] \in V \cup {None},
           \A S \in (SUBSET Nodes) \ {{}} : \E m \in S : p[m] \notin S,
           NEW q, q = [p EXCEPT ![n] = to]
    PROVE  \A S \in (SUBSET Nodes) \ {{}} : \E m \in S : q[m] \notin S
<1> SUFFICES ASSUME NEW S \in SUBSET Nodes, S # {}, \A m \in S : q[m] \in S
             PROVE  FALSE
  OBVIOUS
<1>1. None \notin S /\ None \notin V
  BY HierarchyAssumption
<1>2. CASE n \notin S
  <2>1. \A m \in S : p[m] = q[m]
    BY <1>2
  <2> QED
    BY <2>1
<1>3. CASE n \in S
  <2>1. to \in S \cap V
    BY <1>1, <1>3
  <2>2. \A m \in S \cap V : p[m] \in S \cap V
    <3>1. ASSUME NEW m \in S \cap V
          PROVE  p[m] \in S \cap V
      <4>1. q[m] = p[m]
        BY <3>1
      <4> QED
        BY <1>1, <3>1, <4>1
    <3> QED
      BY <3>1
  <2>3. S \cap V \in (SUBSET Nodes) \ {{}}
    BY <2>1
  <2> QED
    BY <2>2, <2>3
<1> QED
  BY <1>2, <1>3

\* One commit that is not overtaken.
LEMMA MoveStep ==
    ASSUME IInv, Next, NEW w \in Workers, txn'[w] # txn[w], parent' # parent, ChainStands(w), Acyclic
    PROVE  Acyclic'
<1>1. PICK x \in Workers : Commit(x) /\ \A v \in Workers \ {x} : txn'[v] = txn[v]
  BY OnlyCommitWrites
<1>2. x = w
  BY <1>1
<1> DEFINE n == txn[w].node
           to == txn[w].to
<1>3. /\ txn[w].op \in {"create", "move", "form"} /\ txn[w] \in Txn /\ n \in Nodes /\ to \in Parents
      /\ parent' = [parent EXCEPT ![n] = to]
      /\ parent \in [Nodes -> Parents]
      /\ txn[w].pc = "commit"
  BY <1>1, <1>2 DEF Commit, Quiet, IInv, TypeOK, WellFormed, Txn
<1>4. WalkSound(w) /\ txn[w].next = None
  BY <1>3 DEF IInv, WalkSound
<1>5. Visited(w) \in SUBSET Nodes
  BY <1>3 DEF Visited, Txn
<1>6. \A v \in Visited(w) : parent[v] \in Visited(w) \cup {None}
  BY <1>3, <1>4 DEF ChainStands, WalkSound, Visited
<1> QED
  BY <1>3, <1>4, <1>5, <1>6, MoveUnderClosedSet DEF Acyclic, WalkSound

\* A move that is not overtaken makes no cycle: the walk without locks, repeated under
\* the lock over rows already fetched, suffices for it.
THEOREM MovesKeepForest == Spec => ForestKept
<1>1. IInv /\ [Next]_vars =>
        [\A w \in Workers :
            (txn'[w] # txn[w] /\ parent' # parent /\ ChainStands(w) /\ Acyclic) => Acyclic']_vars
  BY MoveStep
<1> QED
  BY <1>1, Invariant, PTL DEF Spec, ForestKept

\* A step of one request is no step of another.
LEMMA OthersStay ==
    ASSUME IInv, NEW x \in Workers, Begin(x) \/ Step(x) \/ Fail(x)
    PROVE  \A v \in Workers \ {x} : txn'[v] = txn[v]
<1>1. ASSUME NEW t, Goto(x, t)
      PROVE  \A v \in Workers \ {x} : txn'[v] = txn[v]
  BY <1>1 DEF Goto, IInv, TypeOK
<1>2. CASE Begin(x)
  BY <1>1, <1>2 DEF Begin, BeginCreate, BeginMove, BeginForm, BeginEdit, BeginDelete, BeginRemove
<1>3. CASE Walk(x)
  BY <1>1, <1>3 DEF Walk
<1>4. CASE Lock(x)
  BY <1>1, <1>4 DEF Lock
<1>5. CASE Check(x) \/ Update(x) \/ Fail(x)
  BY <1>1, <1>5 DEF Check, Update, Fail
<1>6. CASE Commit(x)
  BY <1>6 DEF Commit, Done, IInv, TypeOK
<1> QED
  BY <1>2, <1>3, <1>4, <1>5, <1>6 DEF Step

\* A deletion is counted by its check only.
LEMMA OnlyCheckCounts ==
    ASSUME IInv, NEW w \in Workers, Begin(w) \/ Step(w) \/ Fail(w), Counted(w)'
    PROVE  Check(w) /\ Children(txn[w].node) = {}
<1>0. txn[w] \in Txn /\ WellFormed(w) /\ txn \in [Workers -> Txn]
  BY DEF IInv, TypeOK
<1>1. ASSUME NEW t, Goto(w, t)
      PROVE  t.op = "delete" /\ t.pc = "commit"
  BY <1>0, <1>1 DEF Goto, Counted
<1>2. ~Begin(w)
  <2>1. ASSUME NEW op, NEW p, NEW q, NEW n, NEW R,
               Goto(w, [pc |-> "walk", op |-> op, node |-> n, to |-> p, next |-> q, read |-> R])
        PROVE  FALSE
    BY <1>1, <2>1
  <2>2. ASSUME NEW op, NEW n, NEW pc \in {"lock", "update"},
               Goto(w, [Idle EXCEPT !.pc = pc, !.op = op, !.node = n])
        PROVE  FALSE
    <3>1. [Idle EXCEPT !.pc = pc, !.op = op, !.node = n].pc = pc
      BY DEF Idle
    <3> QED
      BY <1>1, <2>2, <3>1
  <2> QED
    BY <2>1, <2>2 DEF Begin, BeginCreate, BeginMove, BeginForm, BeginEdit, BeginDelete, BeginRemove
<1>3. ~Goto(w, Idle)
  BY <1>1 DEF Idle
<1>4. ~Walk(w)
  <2>1. SUFFICES ASSUME Walk(w) PROVE FALSE
    OBVIOUS
  <2>2. txn[w].op # "delete"
    BY <1>0, <2>1 DEF Walk, WellFormed
  <2>3. Walked(w).op = txn[w].op
    BY <1>0 DEF Walked, Txn
  <2>4. \A a, b : [txn[w] EXCEPT !.next = a, !.read = b].op = txn[w].op
    BY <1>0 DEF Txn
  <2>5. \/ Goto(w, Walked(w)) \/ Goto(w, Idle)
        \/ \E a, b : Goto(w, [txn[w] EXCEPT !.next = a, !.read = b])
    BY <2>1 DEF Walk
  <2>6. ASSUME NEW t, Goto(w, t), t.op = txn[w].op
        PROVE  FALSE
    BY <1>1, <2>2, <2>6
  <2> QED
    BY <1>3, <2>3, <2>4, <2>5, <2>6
<1>5. ~Lock(w)
  <2>1. SUFFICES ASSUME Lock(w) PROVE FALSE
    OBVIOUS
  <2>2. \/ Goto(w, Idle)
        \/ txn[w].op = "move" /\ Goto(w, [txn[w] EXCEPT !.pc = "commit"])
        \/ Goto(w, [txn[w] EXCEPT !.pc = "check"])
        \/ Goto(w, [txn[w] EXCEPT !.pc = "walk_locked", !.next = parent[txn[w].node]])
    BY <2>1 DEF Lock
  <2>3. /\ [txn[w] EXCEPT !.pc = "commit"].op = txn[w].op
        /\ [txn[w] EXCEPT !.pc = "check"].pc = "check"
        /\ [txn[w] EXCEPT !.pc = "walk_locked", !.next = parent[txn[w].node]].pc = "walk_locked"
    BY <1>0 DEF Txn
  <2>4. ASSUME NEW t, Goto(w, t), t.op # "delete" \/ t.pc # "commit"
        PROVE  FALSE
    BY <1>1, <2>4
  <2>5. CASE txn[w].op = "move" /\ Goto(w, [txn[w] EXCEPT !.pc = "commit"])
    BY <2>3, <2>4, <2>5
  <2> QED
    BY <1>3, <2>2, <2>3, <2>4, <2>5
<1>6. ~Update(w)
  BY <1>0, <1>1, <1>3 DEF Update, WellFormed, Txn
<1>7. ~Commit(w) /\ ~Fail(w)
  BY <1>0, <1>3 DEF Commit, Done, Fail, Counted, Idle
<1> QED
  BY <1>2, <1>3, <1>4, <1>5, <1>6, <1>7 DEF Step, Check

\* From a service's dependency count to its deletion nothing is attached to the row, and
\* what comes to refer to it is only what a form brings back.
THEOREM DeletionsTakeNoChild == Spec => DeletedHaveNoChildren
<1>1. ASSUME IInv, Next, NEW w \in Workers, Counted(w)', ~Counted(w)
      PROVE  Children(txn[w].node) = {}
  <2>1. txn'[w] # txn[w]
    BY <1>1 DEF Counted
  <2>2. Begin(w) \/ Step(w) \/ Fail(w)
    BY <1>1, <2>1, OthersStay DEF Next, DeleteSelected
  <2> QED
    BY <1>1, <2>2, OnlyCheckCounts
<1>2. ASSUME IInv, Next, NEW w \in Workers, Counted(w)', Counted(w),
             NEW c \in Children(txn[w].node)' \ Children(txn[w].node)
      PROVE  state[c] = "deleted" /\ parent[c] = txn[w].node
  <2> DEFINE d == txn[w].node
  <2>1. d \in Nodes /\ HoldsKey(w, d)
    BY <1>2 DEF IInv, WellFormed, Counted, HoldsKey, Holds, Api
  <2>2. c \in Nodes
    BY <1>2 DEF Children
  <2>3. PICK x \in Workers : Commit(x) /\ \A v \in Workers \ {x} : txn'[v] = txn[v]
    <3>1. parent' # parent \/ (state'[c] # state[c] /\ state'[c] = "alive")
      <4>1. CASE parent' = parent
        <5>1. txn'[w].node = d
          <6>1. ~Begin(w) /\ ~Step(w) /\ ~Fail(w)
            BY <1>2, OnlyCheckCounts DEF Counted, Check
          <6> QED
            BY <1>2, <6>1, OthersStay DEF Next, DeleteSelected
        <5> QED
          BY <1>2, <2>2, <4>1, <5>1 DEF Children, Alive
      <4> QED
        BY <4>1
    <3> QED
      BY <1>2, <2>2, <3>1, OnlyCommitWrites
  <2>4. x # w /\ txn'[w].node = d
    <3>1. txn'[x] = Idle
      BY <1>2, <2>3 DEF Commit, Done, IInv, TypeOK
    <3>2. txn'[w].node = d
      BY <1>2, <2>3, <3>1 DEF Counted, Idle
    <3> QED
      BY <1>2, <3>1, <3>2 DEF Counted, Idle
  <2>5. Alive(c)' /\ parent'[c] = d /\ ~(Alive(c) /\ parent[c] = d)
    BY <1>2, <2>2, <2>4 DEF Children
  <2> DEFINE n == txn[x].node
  <2>6. txn[x] \in Txn /\ n \in Nodes /\ WellFormed(x) /\ RowExists(x)
    BY <1>2, <2>3 DEF IInv, TypeOK, WellFormed, Commit
  <2>7. c = n /\ txn[x].op \in {"create", "move", "form"} /\ txn[x].to = d
    BY <1>2, <2>2, <2>3, <2>5, <2>6 DEF Commit, Quiet, Alive, IInv, TypeOK
  <2>8. Referenced(x) # d
    <3>1. d # None
      BY <2>1, HierarchyAssumption
    <3> QED
      BY <2>1, <2>3, <2>4, <3>1 DEF Commit, KeyFree
  <2>9. txn[x].op \in {"move", "form"} /\ parent[c] = d
    BY <2>7, <2>8 DEF Referenced
  <2> QED
    BY <1>2, <2>5, <2>6, <2>7, <2>9, <2>3 DEF RowExists, Alive, Commit, IInv, TypeOK
<1>3. IInv /\ [Next]_vars =>
        [\A w \in Workers :
           /\ Counted(w)' /\ ~Counted(w) => Children(txn[w].node) = {}
           /\ Counted(w)' /\ Counted(w) =>
                  \A c \in Children(txn[w].node)' \ Children(txn[w].node) :
                      state[c] = "deleted" /\ parent[c] = txn[w].node]_vars
  BY <1>1, <1>2
<1> QED
  BY <1>3, Invariant, PTL DEF Spec, DeletedHaveNoChildren

-----------------------------------------------------------------------------
\* As long as no request that gives a row a new parent is overtaken by the move of an
\* ancestor, no row ever becomes its own ancestor (Organization.clean, Employee.clean).
THEOREM UnovertakenForest == Spec /\ [][NotOvertaken]_vars => []Acyclic
<1>1. ASSUME IInv, Acyclic, [Next]_vars, [NotOvertaken]_vars
      PROVE  Acyclic'
  <2>1. CASE parent' = parent
    BY <1>1, <2>1 DEF Acyclic
  <2>2. CASE parent' # parent
    <3>1. PICK w \in Workers : Commit(w)
      BY <1>1, <2>2, OnlyCommitWrites DEF vars
    <3>2. txn'[w] # txn[w]
      BY <1>1, <3>1 DEF Commit, Done, Idle, IInv, TypeOK
    <3>3. ChainStands(w)
      BY <1>1, <2>2, <3>2 DEF NotOvertaken, vars
    <3> QED
      BY <1>1, <2>2, <3>2, <3>3, MoveStep DEF vars
  <2> QED
    BY <2>1, <2>2
<1>2. Init => Acyclic
  <2> SUFFICES ASSUME Init, NEW S \in (SUBSET Nodes) \ {{}}
               PROVE  \E n \in S : parent[n] \notin S
    BY DEF Acyclic
  <2>1. \A n \in S : parent[n] = None
    BY DEF Init
  <2> QED
    BY <2>1, HierarchyAssumption
<1>3. IInv /\ Acyclic /\ [Next]_vars /\ [NotOvertaken]_vars => Acyclic'
  BY <1>1
<1> QED
  BY <1>2, <1>3, Invariant, PTL DEF Spec

\* The ancestors that every request has fetched still stand.
ChainsStand == \A w \in Workers : ChainStands(w)

\* Requests served one at a time keep the forest, whatever they do: the validation is
\* complete, and what makes a cycle is only the interleaving of two moves.
THEOREM SerialForest ==
    ASSUME NEW w, Workers = {w}
    PROVE  Spec => []Acyclic
<1>1. Init => ChainsStand
  BY DEF Init, Idle, ChainsStand, ChainStands
<1>2. ASSUME IInv, ChainsStand, [Next]_vars
      PROVE  ChainsStand'
  <2>1. CASE UNCHANGED vars
    BY <1>2, <2>1 DEF vars, ChainsStand, ChainStands
  <2>2. CASE Next
    <3>1. txn'[w].read = {} \/ (UNCHANGED parent /\ \A r \in txn'[w].read : parent[r[1]] = r[2])
      <4>1. CASE Begin(w)
        <5>1. PICK n \in Nodes :
                 \/ \E p \in Parents : BeginCreate(w, n, p) \/ BeginMove(w, n, p) \/ BeginForm(w, n, p)
                 \/ BeginEdit(w, n) \/ BeginDelete(w, n) \/ BeginRemove(w, n)
          BY <4>1 DEF Begin
        <5>2. txn \in [Workers -> Txn] /\ w \in Workers
          BY <1>2 DEF IInv, TypeOK
        <5>3. ASSUME NEW p \in Parents, BeginCreate(w, n, p) \/ BeginMove(w, n, p) \/ BeginForm(w, n, p)
              PROVE  txn'[w].read = Fetch(p) /\ parent' = parent
          BY <5>2, <5>3 DEF BeginCreate, BeginMove, BeginForm, Goto, Quiet
        <5>4. CASE BeginEdit(w, n) \/ BeginDelete(w, n) \/ BeginRemove(w, n)
          <6>1. txn'[w].read = {}
            BY <5>2, <5>4 DEF BeginEdit, BeginDelete, BeginRemove, Goto, Idle
          <6> QED
            BY <6>1
        <5>5. CASE \E p \in Parents : BeginCreate(w, n, p) \/ BeginMove(w, n, p) \/ BeginForm(w, n, p)
          <6>1. PICK p \in Parents : BeginCreate(w, n, p) \/ BeginMove(w, n, p) \/ BeginForm(w, n, p)
            BY <5>5
          <6>2. txn'[w].read = Fetch(p) /\ parent' = parent
            BY <5>3, <6>1
          <6> QED
            BY <6>2 DEF Fetch
        <5> QED
          BY <5>1, <5>4, <5>5
      <4>2. CASE Walk(w)
        BY <1>2, <4>2 DEF Walk, Walked, Fetch, Goto, Quiet, Idle, IInv, TypeOK, ChainsStand, ChainStands, Txn
      <4>3. CASE Lock(w) \/ Check(w)
        <5>1. txn \in [Workers -> Txn] /\ w \in Workers /\ txn[w] \in Txn
          BY <1>2 DEF IInv, TypeOK
        <5>2. parent' = parent
          BY <4>3 DEF Lock, Check, Quiet
        <5>3. txn'[w].read = txn[w].read \/ txn'[w].read = {}
          <6>1. CASE Lock(w)
            <7>1. \/ Goto(w, Idle)
                  \/ \E pc \in {"commit", "check"} : Goto(w, [txn[w] EXCEPT !.pc = pc])
                  \/ Goto(w, [txn[w] EXCEPT !.pc = "walk_locked", !.next = parent[txn[w].node]])
              BY <6>1 DEF Lock
            <7>2. ASSUME NEW t, Goto(w, t), t = Idle \/ t.read = txn[w].read
                  PROVE  txn'[w].read = txn[w].read \/ txn'[w].read = {}
              BY <5>1, <7>2 DEF Goto, Idle
            <7>3. \A pc \in {"commit", "check"} : [txn[w] EXCEPT !.pc = pc].read = txn[w].read
              BY <5>1 DEF Txn
            <7>4. [txn[w] EXCEPT !.pc = "walk_locked", !.next = parent[txn[w].node]].read = txn[w].read
              BY <5>1 DEF Txn
            <7> QED
              BY <7>1, <7>2, <7>3, <7>4
          <6>2. CASE Check(w)
            BY <5>1, <6>2 DEF Check, Goto, Idle, Txn
          <6> QED
            BY <4>3, <6>1, <6>2
        <5> QED
          BY <1>2, <5>2, <5>3 DEF ChainsStand, ChainStands
      <4>4. CASE Commit(w) \/ Fail(w)
        BY <1>2, <4>4 DEF Commit, Done, Fail, Goto, Idle, IInv, TypeOK
      <4>5. CASE Update(w)
        BY <1>2, <4>5, <1>2 DEF Update, Goto, Quiet, Idle, IInv, TypeOK, ChainsStand, ChainStands, Txn
      <4>6. CASE \E S \in SUBSET Nodes : DeleteSelected(S)
        BY <1>2, <4>6 DEF DeleteSelected, ChainsStand, ChainStands
      <4> QED
        BY <2>2, <4>1, <4>2, <4>3, <4>4, <4>5, <4>6 DEF Next, Step
    <3> QED
      BY <3>1 DEF ChainsStand, ChainStands
  <2> QED
    BY <1>2, <2>1, <2>2
<1>3. IInv /\ ChainsStand /\ [Next]_vars => ChainsStand' /\ [NotOvertaken]_vars
  BY <1>2 DEF ChainsStand, NotOvertaken
<1>4. Spec => [][NotOvertaken]_vars
  BY <1>1, <1>3, Invariant, PTL DEF Spec
<1> QED
  BY <1>4, UnovertakenForest, PTL

\* Deadlocks are circles of moves, each of a row under the row of the next.
THEOREM DeadlockSafety == Spec => []DeadlocksAreMoves
<1>1. ASSUME IInv, NEW w \in Workers, Deadlocked(w)
      PROVE  /\ txn[w].op = "move" /\ txn[w].pc = "commit"
             /\ \E x \in Workers \ {w} : Deadlocked(x) /\ txn[w].to = txn[x].node
  <2>1. PICK S \in SUBSET Workers :
            /\ w \in S
            /\ \A x \in S : (\E y \in S : WaitsFor(x, y)) /\ (\E y \in S : WaitsFor(y, x))
    BY <1>1 DEF Deadlocked
  <2>2. ASSUME NEW x \in S
        PROVE  txn[x].pc = "commit" /\ txn[x].op # "create"
    <3>1. txn[x].pc \in {"walk_locked", "check", "commit"} /\ txn[x].op # "create"
      BY <2>1 DEF WaitsFor, Holds, HoldsKey
    <3>2. txn[x].pc \in {"lock", "update", "commit"}
      BY <2>1 DEF WaitsFor
    <3> QED
      BY <3>1, <3>2
  <2>3. PICK x \in S : WaitsFor(w, x)
    BY <2>1
  <2>4. Deadlocked(x)
    BY <2>1 DEF Deadlocked
  <2>5. Referenced(w) # None /\ HoldsKey(x, Referenced(w)) /\ w # x
    BY <2>1, <2>2, <2>3 DEF WaitsFor
  <2>6. txn[w].op \in Api
    BY <2>1, <2>2 DEF WaitsFor, HoldsKey
  <2>7. txn[w].op = "move" /\ Referenced(w) = txn[w].to
    BY <2>1, <2>2, <2>5, <2>6 DEF Referenced, Api
  <2> QED
    BY <2>1, <2>2, <2>4, <2>5, <2>7 DEF Holds, HoldsKey
<1>2. IInv => DeadlocksAreMoves
  BY <1>1 DEF DeadlocksAreMoves
<1> QED
  BY <1>2, Invariant, PTL

=============================================================================
