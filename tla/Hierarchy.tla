----------------------------- MODULE Hierarchy -----------------------------
(***************************************************************************)
(* Rows that point to a parent row of their own kind: the parent_org of    *)
(* organizations and the supervisor of employees.  Both are written in the *)
(* same way: the serializer fetches the new parent and walks up its        *)
(* ancestors (clean), then the service locks the row, validates again and  *)
(* saves (organizations/services/catalog.py and employees/services/).      *)
(*                                                                         *)
(* The walk fetches one row per query and locks none.  The rows it fetched *)
(* stay cached on the parent object, so the second validation, under the   *)
(* lock, walks over the same objects and reads nothing again, unless the   *)
(* request does not mention the parent (an "edit" here).                   *)
(*                                                                         *)
(* Two locks matter: SELECT FOR UPDATE on the row being updated or deleted *)
(* until commit, and the foreign-key check of a new parent, deferred to    *)
(* the commit, which takes FOR KEY SHARE on the parent's row and so waits  *)
(* for a FOR UPDATE on it.                                                 *)
(*                                                                         *)
(* The admin site writes the same rows (OrganizationAdmin, EmployeeAdmin). *)
(* Its forms and its deletions take no lock before their UPDATE, which     *)
(* applies only at the row_version they loaded, and count no dependencies. *)
(* Their UPDATE locks the row FOR NO KEY UPDATE, which keeps out the other *)
(* writers of the row and not a foreign-key check.                         *)
(***************************************************************************)
EXTENDS Integers, FiniteSets

CONSTANTS
    Nodes,      \* rows that may ever exist (a bound)
    Workers,    \* requests served at the same time (a bound)
    MaxDeletes, \* rows that may be deleted here (a bound)
    Serves,     \* the operations each worker is asked for (a bound)
    None

Api   == {"create", "move", "edit", "delete"}
Admin == {"form", "remove"}
Ops   == Api \cup Admin

ASSUME HierarchyAssumption ==
    /\ None \notin Nodes \cup Ops
    /\ Serves \in [Workers -> SUBSET Ops]

VARIABLES
    state,    \* committed rows: absent, alive or (soft-)deleted
    parent,   \* the parent column of committed rows
    txn,      \* each worker's request
    stale     \* requests of the admin site whose row has a newer row_version by now

vars == <<state, parent, txn, stale>>

-----------------------------------------------------------------------------
Parents == Nodes \cup {None}

Txn == [pc : {"idle", "walk", "lock", "walk_locked", "check", "update", "commit"},
        op : Ops \cup {None},
        node : Parents,                \* the row written
        to : Parents,                  \* the parent it is given, by create, move and form
        next : Parents,                \* the ancestor the walk fetches next
        read : SUBSET (Nodes \X Parents)]   \* rows fetched, with the parent each had

Idle == [pc |-> "idle", op |-> None, node |-> None, to |-> None, next |-> None, read |-> {}]

Init ==
    /\ state = [n \in Nodes |-> "absent"]
    /\ parent = [n \in Nodes |-> None]
    /\ txn = [w \in Workers |-> Idle]
    /\ stale = {}

Alive(n)   == state[n] = "alive"

\* Rows deleted or about to be, counted for the bound.
Doomed ==
    {n \in Nodes : \/ state[n] = "deleted"
                   \/ \E w \in Workers : txn[w].op \in {"delete", "remove"} /\ txn[w].node = n}

MayDelete == Cardinality(Doomed) < MaxDeletes

Visited(w) == {r[1] : r \in txn[w].read}

\* The row n as a query returns it; nothing for None.
Fetch(n) == IF n = None THEN {} ELSE {<<n, parent[n]>>}
ParentOf(n) == IF n = None THEN None ELSE parent[n]

-----------------------------------------------------------------------------
\* Locks and waiting.

Holds(w, n) == txn[w].node = n /\ txn[w].op # "create"
                               /\ txn[w].pc \in {"walk_locked", "check", "commit"}

RowFree(w, n) == \A x \in Workers \ {w} : ~Holds(x, n)

\* A foreign-key check waits only for SELECT FOR UPDATE, which the services take.
HoldsKey(w, n) == Holds(w, n) /\ txn[w].op \in Api
KeyFree(w, n)  == \A x \in Workers \ {w} : ~HoldsKey(x, n)

\* Mutation: a parent column without a foreign-key constraint (db_constraint=False).
NothingReferenced(w) == None

\* The parent whose row the deferred foreign-key check locks: a changed one.
Referenced(w) ==
    IF \/ txn[w].op = "create"
       \/ txn[w].op \in {"move", "form"} /\ txn[w].to # parent[txn[w].node]
    THEN txn[w].to ELSE None

WaitsFor(w, x) ==
    /\ w # x
    /\ \/ txn[w].pc \in {"lock", "update"} /\ Holds(x, txn[w].node)
       \/ txn[w].pc = "commit" /\ Referenced(w) # None /\ HoldsKey(x, Referenced(w))

Deadlocked(w) ==
    \E S \in SUBSET Workers :
        /\ w \in S
        /\ \A x \in S : (\E y \in S : WaitsFor(x, y)) /\ (\E y \in S : WaitsFor(y, x))

-----------------------------------------------------------------------------
Goto(w, t) ==
    /\ txn' = [txn EXCEPT ![w] = t]
    /\ stale' = IF t = Idle THEN stale \ {w} ELSE stale
Quiet      == UNCHANGED <<state, parent>>

\* A new row, or an update that mentions the parent: the serializer finds both rows
\* among the living and refuses a row as its own parent.  The add form does the same.
BeginCreate(w, n, p) ==
    /\ txn[w] = Idle
    /\ state[n] = "absent" /\ \A x \in Workers : txn[x].node # n
    /\ p # None => Alive(p)
    /\ Goto(w, [pc |-> "walk", op |-> "create", node |-> n, to |-> p,
                next |-> ParentOf(p), read |-> Fetch(p)])
    /\ Quiet

BeginMove(w, n, p) ==
    /\ txn[w] = Idle
    /\ Alive(n)
    /\ p # n /\ (p # None => Alive(p))
    /\ Goto(w, [pc |-> "walk", op |-> "move", node |-> n, to |-> p,
                next |-> ParentOf(p), read |-> Fetch(p)])
    /\ Quiet

\* An update that does not mention the parent.  Its serializer walks up as well, before
\* the lock; that can only refuse the request, which then has changed nothing.
BeginEdit(w, n) ==
    /\ txn[w] = Idle
    /\ Alive(n)
    /\ Goto(w, [Idle EXCEPT !.pc = "lock", !.op = "edit", !.node = n])
    /\ Quiet

BeginDelete(w, n) ==
    /\ txn[w] = Idle
    /\ Alive(n)
    /\ MayDelete
    /\ Goto(w, [Idle EXCEPT !.pc = "lock", !.op = "delete", !.node = n])
    /\ Quiet

\* The change form of the admin site: it always names the parent, which the form field
\* looks for among the living, and full_clean walks up from it.
BeginForm(w, n, p) ==
    /\ txn[w] = Idle
    /\ Alive(n)
    /\ p # n /\ (p # None => Alive(p))
    /\ Goto(w, [pc |-> "walk", op |-> "form", node |-> n, to |-> p,
                next |-> ParentOf(p), read |-> Fetch(p)])
    /\ Quiet

\* The delete view of the admin site loads the row and deletes the object.
BeginRemove(w, n) ==
    /\ txn[w] = Idle
    /\ Alive(n)
    /\ MayDelete
    /\ Goto(w, [Idle EXCEPT !.pc = "update", !.op = "remove", !.node = n])
    /\ Quiet

\* The action `delete selected' of the admin site: one UPDATE of living rows, which
\* waits for each, counts no dependencies and leaves row_version as it is.
DeleteSelected(S) ==
    /\ S # {}
    /\ \A n \in S : Alive(n) /\ \A x \in Workers : ~Holds(x, n)
    /\ Cardinality(Doomed \cup S) <= MaxDeletes
    /\ state' = [n \in Nodes |-> IF n \in S THEN "deleted" ELSE state[n]]
    /\ UNCHANGED <<parent, txn, stale>>

\* Mutation: clean without the comparison of an ancestor with the row itself.
NoCycleAbove(w) == txn[w].next \notin Visited(w)

\* Mutation: clean without the set of visited ancestors.
NotItself(w) == txn[w].next # txn[w].node

\* The walk in clean: up to the root, or to a row that makes it a cycle.
NoCycleSoFar(w) == txn[w].next \notin Visited(w) \cup {txn[w].node}

\* What the walk leads to.  An edit keeps nothing of what it read.
Walked(w) ==
    [txn[w] EXCEPT
        !.pc = IF txn[w].op = "move" THEN "lock"
               ELSE IF txn[w].op = "form" THEN "update" ELSE "commit",
        !.read = IF txn[w].op = "edit" THEN {} ELSE txn[w].read]

Walk(w) ==
    /\ txn[w].pc \in {"walk", "walk_locked"}
    /\ LET next == txn[w].next
       IN Goto(w, IF next = None THEN Walked(w)
                  ELSE IF NoCycleSoFar(w)
                  THEN [txn[w] EXCEPT !.next = parent[next],
                                      !.read = txn[w].read \cup Fetch(next)]
                  ELSE Idle)
    /\ Quiet

\* get_for_update: wait for the row; 404 if it has been deleted meanwhile.  A move
\* validates again on the rows it has cached, which changes nothing.
Lock(w) ==
    LET n == txn[w].node
    IN /\ txn[w].pc = "lock"
       /\ RowFree(w, n)
       /\ \/ ~Alive(n) /\ Goto(w, Idle)
          \/ Alive(n) /\ txn[w].op = "move" /\ Goto(w, [txn[w] EXCEPT !.pc = "commit"])
          \/ Alive(n) /\ txn[w].op = "delete" /\ Goto(w, [txn[w] EXCEPT !.pc = "check"])
          \/ /\ Alive(n) /\ txn[w].op = "edit"
             /\ Goto(w, [txn[w] EXCEPT !.pc = "walk_locked", !.next = parent[n]])
       /\ Quiet

\* dependencies: living rows that refer to this one.
Children(n) == {c \in Nodes : Alive(c) /\ parent[c] = n}

Check(w) ==
    /\ txn[w].pc = "check"
    /\ IF Children(txn[w].node) # {} THEN Goto(w, Idle)
       ELSE Goto(w, [txn[w] EXCEPT !.pc = "commit"])
    /\ Quiet

\* save() of an object the admin site loaded: its UPDATE waits for the row and applies
\* only at the version loaded, also to a row that `delete selected' has deleted since.
Update(w) ==
    /\ txn[w].pc = "update"
    /\ RowFree(w, txn[w].node)
    /\ IF w \in stale THEN Goto(w, Idle)
       ELSE Goto(w, [txn[w] EXCEPT !.pc = "commit"])
    /\ Quiet

\* Requests of the admin site that have loaded the row w writes: at an older version.
Loaded(w) == {x \in Workers \ {w} : txn[x].op \in Admin /\ txn[x].node = txn[w].node}

Done(w) ==
    /\ txn' = [txn EXCEPT ![w] = Idle]
    /\ stale' = (stale \cup Loaded(w)) \ {w}

\* Mutation: delete removes the row and does not clear what it pointed to.
CommitPurging(w) ==
    /\ txn[w].pc = "commit"
    /\ LET n == txn[w].node
       IN /\ state' = [state EXCEPT ![n] = IF txn[w].op \in {"delete", "remove"} THEN "absent" ELSE "alive"]
          /\ parent' = [parent EXCEPT ![n] = IF txn[w].op \in {"create", "move", "form"} THEN txn[w].to ELSE @]
    /\ Done(w)

\* The INSERT or UPDATE becomes visible, once the foreign-key check has its lock.
\* An edit writes other columns.  A form writes is_deleted as its box says: it may
\* delete the row, and it brings back a row that was deleted under it.
Commit(w) ==
    LET n == txn[w].node
    IN /\ txn[w].pc = "commit"
       /\ Referenced(w) # None => KeyFree(w, Referenced(w))
       /\ \/ /\ txn[w].op \in {"create", "form"}
             /\ state' = [state EXCEPT ![n] = "alive"]
             /\ parent' = [parent EXCEPT ![n] = txn[w].to]
          \/ /\ txn[w].op = "form" /\ MayDelete
             /\ state' = [state EXCEPT ![n] = "deleted"]
             /\ parent' = [parent EXCEPT ![n] = txn[w].to]
          \/ /\ txn[w].op = "move"
             /\ parent' = [parent EXCEPT ![n] = txn[w].to]
             /\ UNCHANGED state
          \/ /\ txn[w].op \in {"delete", "remove"}
             /\ state' = [state EXCEPT ![n] = "deleted"]
             /\ UNCHANGED parent
          \/ /\ txn[w].op = "edit"
             /\ Quiet
       /\ Done(w)

\* A statement fails, the connection is lost or the process killed: rolled back.
Fail(w) ==
    /\ txn[w] # Idle
    /\ Goto(w, Idle)
    /\ Quiet

\* PostgreSQL ends a deadlock by failing one of the waiting statements.
Victim(w) == Deadlocked(w) /\ Fail(w)

Step(w) == Walk(w) \/ Lock(w) \/ Check(w) \/ Update(w) \/ Commit(w)

Begin(w) ==
    /\ \E n \in Nodes :
        \/ \E p \in Parents : BeginCreate(w, n, p) \/ BeginMove(w, n, p) \/ BeginForm(w, n, p)
        \/ BeginEdit(w, n)
        \/ BeginDelete(w, n)
        \/ BeginRemove(w, n)
    /\ txn'[w].op \in Serves[w]

Next ==
    \/ \E w \in Workers : Begin(w) \/ Step(w) \/ Fail(w)
    \/ \E S \in SUBSET Nodes : DeleteSelected(S)

Spec == Init /\ [][Next]_vars

FairSpec ==
    /\ Spec
    /\ \A w \in Workers : SF_vars(Step(w))
    /\ WF_vars(\E w \in Workers : Victim(w))

-----------------------------------------------------------------------------
\* States are typed, and a row that does not exist points nowhere.
TypeOK ==
    /\ state \in [Nodes -> {"absent", "alive", "deleted"}]
    /\ parent \in [Nodes -> Parents]
    /\ txn \in [Workers -> Txn]
    /\ stale \in SUBSET Workers
    /\ \A n \in Nodes : state[n] = "absent" => parent[n] = None

\* No row is its own ancestor: every set of rows has one whose parent is outside it.
Acyclic == \A S \in (SUBSET Nodes) \ {{}} : \E n \in S : parent[n] \notin S

\* The ancestors that w's walk fetched still have the parents it fetched.
ChainStands(w) == \A r \in txn[w].read : parent[r[1]] = r[2]

\* A request that gives a row a new parent makes no cycle unless another request
\* has moved one of the ancestors since it was fetched: the unlocked walk, with a
\* validation under the lock that reads nothing again, is enough for every request
\* that is not overtaken (it is not for one that is: Organization.clean, line 67).
ForestKept ==
    [][\A w \in Workers :
         (txn'[w] # txn[w] /\ parent' # parent /\ ChainStands(w) /\ Acyclic) => Acyclic']_vars

\* The deletion of a service between its dependency count and its end.
Counted(w) == txn[w].op = "delete" /\ txn[w].pc = "commit"

\* A service deletes a row only when no living row refers to it, though it counts one
\* statement before the deletion and other requests, of the API and the admin site, may
\* be about to attach a row: their foreign-key check waits for the deletion (delete,
\* line 74).  From the count to the deletion no row comes to refer to it, but for a
\* deleted row that referred to it all along and that a form brings back, whose key
\* does not change and is not checked.
DeletedHaveNoChildren ==
    [][\A w \in Workers :
         /\ Counted(w)' /\ ~Counted(w) => Children(txn[w].node) = {}
         /\ Counted(w)' /\ Counted(w) =>
                \A c \in Children(txn[w].node)' \ Children(txn[w].node) :
                    state[c] = "deleted" /\ parent[c] = txn[w].node]_vars

\* A commit that writes parents, of a request whose fetched ancestors still stand.
NotOvertaken == \A w \in Workers : txn'[w] # txn[w] /\ parent' # parent => ChainStands(w)

\* A deadlock is always a circle of moves, each of a row under the row of the next:
\* moves that would together have closed a cycle.  Creations, edits, deletions and the
\* admin site's forms may wait, but no deadlock ends them (get_for_update, then the
\* deferred check of the foreign key).
DeadlocksAreMoves ==
    \A w \in Workers : Deadlocked(w) =>
        /\ txn[w].op = "move" /\ txn[w].pc = "commit"
        /\ \E x \in Workers \ {w} : Deadlocked(x) /\ txn[w].to = txn[x].node

\* Every request ends, also one whose walk runs into a cycle that others have made,
\* and though a move of a row under another and the reverse move deadlock
\* (the set `visited' of Organization.clean and Employee.clean).
RequestsFinish == \A w \in Workers : []<>(txn[w].pc = "idle")

=============================================================================
