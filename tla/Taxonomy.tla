------------------------------ MODULE Taxonomy ------------------------------
(***************************************************************************)
(* The civil-service classification: services, their categories, the       *)
(* subcategories of these, levels, and the positions that name one of      *)
(* each (organizations/models.py, services/catalog.py).                    *)
(*                                                                         *)
(* All are hard-deleted.  A foreign key is checked when a transaction      *)
(* commits, and takes a key lock on the row named that a deletion, which   *)
(* holds that row FOR UPDATE while it looks for dependants, excludes: so a *)
(* deletion is one step, and so is the write of a category or subcategory, *)
(* which depends on nothing but that check.  A position is checked against *)
(* categories it has no lock on, and its requests take several steps.      *)
(***************************************************************************)
CONSTANTS
    Services, Categories, SubCategories, Levels, Positions,   \* rows that may come to exist
    Employees,    \* employees, who name a position and a level
    Workers,      \* requests on positions served at the same time (a bound)
    None,
    Same          \* of a field that the body of a request does not name

Catalog == Services \cup Categories \cup SubCategories \cup Levels \cup Positions

Rows == Catalog \cup Employees

Relations == {"service", "category", "subcategory", "level", "position"}

\* The rows a foreign key may name.
Targets(r) ==
    CASE r = "service" -> Services       [] r = "category" -> Categories
      [] r = "subcategory" -> SubCategories [] r = "level" -> Levels
      [] OTHER -> Positions

\* The foreign keys of a row.
Keys(i) ==
    CASE i \in Categories -> {"service"}
      [] i \in SubCategories -> {"category"}
      [] i \in Positions -> {"service", "category", "subcategory", "level"}
      [] i \in Employees -> {"position", "level"}
      [] OTHER -> {}

ASSUME TaxonomyAssumption ==
    /\ \A r, s \in Relations : r # s => Targets(r) \cap Targets(s) = {}
    /\ Catalog \cap Employees = {}
    /\ None # Same /\ None \notin Rows /\ Same \notin Rows

VARIABLES
    state,    \* what has become of each row
    link,     \* the foreign keys of each row
    txn       \* each worker's request

vars == <<state, link, txn>>

-----------------------------------------------------------------------------
\* A soft-deleted employee is hidden.
States == {"absent", "there", "hidden", "gone"}

\* What the foreign keys of a row may hold, and what they do name.
Field(i, r, others) == IF r \in Keys(i) THEN Targets(r) \cup {None} \cup others ELSE {None}

Links(i, others) ==
    [service : Field(i, "service", others), category : Field(i, "category", others),
     subcategory : Field(i, "subcategory", others), level : Field(i, "level", others),
     position : Field(i, "position", others)]

Named(l) == {l.service, l.category, l.subcategory, l.level, l.position} \ {None}

Blank == [service |-> None, category |-> None, subcategory |-> None, level |-> None, position |-> None]

\* What a request has seen: the service of its category, the category of its subcategory.
Seen == [category : Services \cup {None}, subcategory : Categories \cup {None}]

Idle == [pc |-> "idle", op |-> None, row |-> None, body |-> Blank,
         seen |-> [category |-> None, subcategory |-> None]]

\* The rows nothing must precede are there from the start; their creation differs in nothing
\* from that of a category.
Init ==
    /\ state = [i \in Rows |-> IF i \in Services \cup Levels \cup Employees THEN "there" ELSE "absent"]
    /\ link = [i \in Rows |-> Blank]
    /\ txn = [w \in Workers |-> Idle]

There(i) == state[i] = "there"

\* Mutation: the key to a category is not enforced.
IntactLoosely(l) == \A j \in Named(l) \ Categories : There(j)

\* The foreign keys hold, when the transaction commits.
Intact(l) == \A j \in Named(l) : There(j)

\* What a body may name.
Choices(i, r, others) == IF r \in Keys(i) THEN {t \in Targets(r) : There(t)} \cup others ELSE {None}

Bodies(i, others) ==
    [service : Choices(i, "service", others), category : Choices(i, "category", others),
     subcategory : Choices(i, "subcategory", others), level : Choices(i, "level", others),
     position : Choices(i, "position", others)]

\* A row held FOR UPDATE by a request that has yet to commit.
Locked(i) == \E w \in Workers : txn[w].pc = "checked" /\ txn[w].op = "update" /\ txn[w].row = i

Goto(w, t) == txn' = [txn EXCEPT ![w] = t]

-----------------------------------------------------------------------------
\* Rows whose write is one step.

Put(i, l) ==
    /\ Intact(l)
    /\ state' = [state EXCEPT ![i] = "there"]
    /\ link' = [link EXCEPT ![i] = l]
    /\ UNCHANGED txn

Create(i) ==
    /\ i \in Catalog \ Positions /\ state[i] = "absent"
    /\ \E l \in Bodies(i, {}) : Put(i, l)

\* A category goes to another service, a subcategory to another category, whatever
\* positions name them.
Move(i) ==
    /\ i \in Categories \cup SubCategories /\ There(i)
    /\ \E l \in Bodies(i, {}) : Put(i, l)

\* Personnel: an employee is created or edited, and deleted softly.
Assign(i) ==
    /\ i \in Employees /\ state[i] \in {"absent", "there"}
    /\ \E l \in Bodies(i, {None}) : Put(i, l)

Hide(i) ==
    /\ i \in Employees /\ There(i)
    /\ state' = [state EXCEPT ![i] = "hidden"]
    /\ UNCHANGED <<link, txn>>

\* CASCADE: the categories of a service go with it, the subcategories of a category too.
Removed(i) ==
    LET c == {j \in Categories : link[j].service = i}
    IN {i} \cup c \cup {j \in SubCategories : link[j].category \in c \cup {i}}

Forgetting(k, gone) == IF k \in gone THEN None ELSE k

\* SET_NULL: the rest forgets what is removed.
Remove(i) ==
    LET gone == Removed(i)
    IN /\ \A j \in Rows : Locked(j) => j \notin gone /\ Named(link[j]) \cap gone = {}
       /\ state' = [j \in Rows |-> IF j \in gone THEN "gone" ELSE state[j]]
       /\ link' = [j \in Rows |-> IF j \in gone THEN Blank
                                  ELSE [service |-> Forgetting(link[j].service, gone),
                                        category |-> Forgetting(link[j].category, gone),
                                        subcategory |-> Forgetting(link[j].subcategory, gone),
                                        level |-> Forgetting(link[j].level, gone),
                                        position |-> Forgetting(link[j].position, gone)]]
       /\ UNCHANGED txn

\* Mutation: only the positions of a level are counted.
PositionsOnly(i) == {j \in Rows : There(j) /\ j \notin Employees /\ i \in Named(link[j])}

\* Repository.dependencies: the related managers do not count the rows softly deleted.
Dependencies(i) == {j \in Rows : There(j) /\ i \in Named(link[j])}

Delete(i) ==
    /\ i \in Catalog /\ There(i)
    /\ Dependencies(i) = {}
    /\ Remove(i)

\* The admin site knows levels and positions, and asks about no dependants.
AdminDelete(i) ==
    /\ i \in Levels \cup Positions /\ There(i)
    /\ Remove(i)

-----------------------------------------------------------------------------
\* Requests on a position.

SeenOf(l) ==
    [category |-> IF l.category \in Categories THEN link[l.category].service ELSE None,
     subcategory |-> IF l.subcategory \in SubCategories THEN link[l.subcategory].category ELSE None]

\* Position.clean, and PositionSerializer.validate.
Belongs(l, seen) ==
    /\ l.category # None => l.service # None /\ seen.category = l.service
    /\ l.subcategory # None => l.category # None /\ seen.subcategory = l.category

\* The keys after the body is applied to the row's.
Kept(k, old) == IF k = Same THEN old ELSE k

Applied(l, i) ==
    [service |-> Kept(l.service, link[i].service), category |-> Kept(l.category, link[i].category),
     subcategory |-> Kept(l.subcategory, link[i].subcategory), level |-> Kept(l.level, link[i].level),
     position |-> None]

\* A request that meets no other is one step.
Edit(i) ==
    /\ i \in Positions /\ There(i) /\ ~Locked(i)
    /\ \E l \in Bodies(i, {None}) : Belongs(l, SeenOf(l)) /\ Put(i, l)

\* The serializer loads what the body names, and checks it with the rest of the row.  The
\* level, which no check looks at, is left to Edit (a bound).
Load(w, i) ==
    /\ txn[w] = Idle
    /\ \/ /\ state[i] = "absent" /\ \A v \in Workers : txn[v].row # i
          /\ \E l \in {b \in Bodies(i, {None}) : b.level = None} : LET seen == SeenOf(l) IN
                /\ Belongs(l, seen)
                /\ Goto(w, [pc |-> "loaded", op |-> "create", row |-> i, body |-> l, seen |-> seen])
       \/ /\ There(i)
          /\ \E l \in {b \in Bodies(i, {None, Same}) : b.level = Same} : LET whole == Applied(l, i) IN
                /\ \/ l.service = Same /\ l.category = Same /\ l.subcategory = Same
                   \/ Belongs(whole, SeenOf(whole))
                /\ Goto(w, [pc |-> "loaded", op |-> "update", row |-> i, body |-> l, seen |-> SeenOf(l)])
    /\ UNCHANGED <<state, link>>

\* Mutation: the service trusts what the serializer has checked.
CheckTrusting(w) ==
    LET t == txn[w]
        i == t.row
        l == Applied(t.body, i)
        seen == [category |-> IF t.body.category = Same THEN SeenOf(l).category ELSE t.seen.category,
                 subcategory |-> IF t.body.subcategory = Same THEN SeenOf(l).subcategory
                                 ELSE t.seen.subcategory]
    IN /\ t.pc = "loaded"
       /\ t.op = "update" => There(i) /\ ~Locked(i)
       /\ Goto(w, [t EXCEPT !.pc = "checked", !.body = l, !.seen = seen])
       /\ UNCHANGED <<state, link>>

\* The row is locked, the loaded objects are set, full_clean reads the others.
Check(w) ==
    LET t == txn[w]
        i == t.row
        l == Applied(t.body, i)
        seen == [category |-> IF t.body.category = Same THEN SeenOf(l).category ELSE t.seen.category,
                 subcategory |-> IF t.body.subcategory = Same THEN SeenOf(l).subcategory
                                 ELSE t.seen.subcategory]
    IN /\ t.pc = "loaded"
       /\ t.op = "update" => There(i) /\ ~Locked(i)
       /\ Belongs(l, seen)
       /\ Goto(w, [t EXCEPT !.pc = "checked", !.body = l, !.seen = seen])
       /\ UNCHANGED <<state, link>>

Commit(w) ==
    LET t == txn[w]
    IN /\ t.pc = "checked"
       /\ Intact(t.body)
       /\ state' = [state EXCEPT ![t.row] = "there"]
       /\ link' = [link EXCEPT ![t.row] = t.body]
       /\ Goto(w, Idle)

\* Refused, in conflict, or killed.
Fail(w) ==
    /\ txn[w] # Idle
    /\ Goto(w, Idle)
    /\ UNCHANGED <<state, link>>

Next ==
    \/ \E i \in Rows : Create(i) \/ Move(i) \/ Edit(i) \/ Assign(i) \/ Hide(i) \/ Delete(i) \/ AdminDelete(i)
    \/ \E w \in Workers : Check(w) \/ Commit(w) \/ Fail(w) \/ \E i \in Positions : Load(w, i)

Spec == Init /\ [][Next]_vars

-----------------------------------------------------------------------------
\* Rows and requests are typed, and no key of a row names what is not there.
TypeOK ==
    /\ state \in [Rows -> States]
    /\ \A i \in Rows : link[i] \in Links(i, {}) /\ \A j \in Named(link[i]) : There(j)
    /\ \A w \in Workers :
          \/ txn[w] = Idle
          \/ /\ txn[w].pc \in {"loaded", "checked"} /\ txn[w].op \in {"create", "update"}
             /\ txn[w].row \in Positions /\ txn[w].seen \in Seen
             /\ txn[w].body \in Links(txn[w].row, IF txn[w].pc = "loaded" THEN {Same} ELSE {})

\* A position whose category belongs to its service and subcategory to its category.
Coherent(i) ==
    /\ link[i].category # None => link[link[i].category].service = link[i].service
    /\ link[i].subcategory # None => link[link[i].subcategory].category = link[i].category

\* A position parts from the classification only when a category or subcategory it names
\* is moved, or when its own request commits after such a move has made untrue what it
\* had seen (Position.clean, line 163, reads rows nothing locks; _CatalogCrudService.update,
\* line 51, asks nothing of the positions when a category moves).
PositionsFollow ==
    [][\A i \in Positions :
         Coherent(i) /\ ~Coherent(i)' =>
            \/ \E j \in Categories \cup SubCategories :
                  /\ link[j] # link'[j] /\ state'[j] = "there"
                  /\ j \in Named(link[i])
            \/ \E w \in Workers : /\ txn[w].row = i /\ txn'[w] = Idle
                                  /\ txn[w].seen # SeenOf(txn[w].body)]_vars

\* A step that moves no category and no subcategory: one that is there keeps its keys or goes.
NoneMoves == \A j \in Categories \cup SubCategories : There(j) => link'[j] = link[j] \/ state'[j] = "gone"

\* No position is outside its classification.
AllCoherent == \A i \in Positions : Coherent(i)

\* What a request has seen of the rows its body names, as far as these are there, still holds:
\* the loaded objects full_clean trusts (Position.clean, line 163).
Informed(w) ==
    LET t == txn[w]
    IN /\ t.body.category \in Categories =>
             /\ state[t.body.category] # "absent"
             /\ There(t.body.category) => t.seen.category = link[t.body.category].service
       /\ t.body.category \notin Categories => t.seen.category = None
       /\ t.body.subcategory \in SubCategories =>
             /\ state[t.body.subcategory] # "absent"
             /\ There(t.body.subcategory) => t.seen.subcategory = link[t.body.subcategory].category
       /\ t.body.subcategory \notin SubCategories => t.seen.subcategory = None

\* A deletion by the API takes no other row with it and changes none, for all CASCADE and
\* SET_NULL may say, but for employees already deleted, whom the count of dependants
\* does not see (dependencies, line 182).
DeletionsTakeNothing ==
    [][\A i \in Catalog : There(i) /\ state'[i] = "gone" /\ Delete(i) =>
         \A j \in Rows \ {i} : \/ state'[j] = state[j] /\ link'[j] = link[j]
                               \/ j \in Employees /\ state[j] = "hidden"]_vars

=============================================================================
