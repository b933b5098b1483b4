-------------------------- MODULE Taxonomy_proofs --------------------------
(***************************************************************************)
(* Proofs about Taxonomy, for every number of rows and requests: a request *)
(* about to commit has checked its keys against what it has seen, and the  *)
(* dependants counted are all that a deletion could reach.                 *)
(***************************************************************************)
EXTENDS Taxonomy, TLAPS

IInv ==
    /\ TypeOK
    /\ link = [i \in Rows |-> link[i]]
    /\ txn = [w \in Workers |-> txn[w]]
    /\ \A w \in Workers : txn[w].pc = "checked" => Belongs(txn[w].body, txn[w].seen)

-----------------------------------------------------------------------------
\* Foreign keys.

LEMMA FieldGrows ==
    ASSUME NEW i, NEW r, NEW o
    PROVE  None \in Field(i, r, o) /\ Field(i, r, {}) \subseteq Field(i, r, o)
BY DEF Field

LEMMA BlankTyped == \A i : Blank \in Links(i, {})
BY FieldGrows DEF Blank, Links

\* What a body may name is what the keys may hold.
LEMMA BodiesTyped ==
    ASSUME NEW i, NEW o, NEW l \in Bodies(i, o), o \subseteq {None, Same}
    PROVE  l \in Links(i, o \ {None})
<1>1. \A r \in Relations : Choices(i, r, o) \subseteq Field(i, r, o \ {None})
  BY DEF Choices, Field
<1> QED
  BY <1>1 DEF Bodies, Links, Relations

\* A key names a row of the kind it is meant for, and of no other.
LEMMA NamedTyped ==
    ASSUME NEW i, NEW l \in Links(i, {})
    PROVE  /\ l.service \in Services \cup {None} /\ l.category \in Categories \cup {None}
           /\ l.subcategory \in SubCategories \cup {None} /\ l.level \in Levels \cup {None}
           /\ l.position \in Positions \cup {None}
           /\ Named(l) \subseteq Catalog
<1>1. /\ Field(i, "service", {}) \subseteq Services \cup {None}
      /\ Field(i, "category", {}) \subseteq Categories \cup {None}
      /\ Field(i, "subcategory", {}) \subseteq SubCategories \cup {None}
      /\ Field(i, "level", {}) \subseteq Levels \cup {None}
      /\ Field(i, "position", {}) \subseteq Positions \cup {None}
  BY DEF Field, Targets
<1>2. /\ l.service \in Services \cup {None} /\ l.category \in Categories \cup {None}
      /\ l.subcategory \in SubCategories \cup {None} /\ l.level \in Levels \cup {None}
      /\ l.position \in Positions \cup {None}
  BY <1>1 DEF Links
<1> QED
  BY <1>2 DEF Named, Catalog

LEMMA KindsApart ==
    /\ Services \cap Categories = {} /\ Services \cap SubCategories = {} /\ Services \cap Positions = {}
    /\ Categories \cap SubCategories = {} /\ Categories \cap Positions = {}
    /\ SubCategories \cap Positions = {} /\ Levels \cap Categories = {} /\ Levels \cap SubCategories = {}
    /\ Levels \cap Services = {} /\ Catalog \cap Employees = {}
    /\ None \notin Rows /\ Same \notin Rows /\ None # Same
<1>1. /\ Targets("service") = Services /\ Targets("category") = Categories
      /\ Targets("subcategory") = SubCategories /\ Targets("level") = Levels
      /\ Targets("position") = Positions
  BY DEF Targets
<1> QED
  BY <1>1, TaxonomyAssumption DEF Relations

\* What is left of the keys of a row when rows are removed.
LEMMA Forgotten ==
    ASSUME NEW i, NEW l \in Links(i, {}), NEW gone, NEW m,
           m = [service |-> Forgetting(l.service, gone), category |-> Forgetting(l.category, gone),
                subcategory |-> Forgetting(l.subcategory, gone), level |-> Forgetting(l.level, gone),
                position |-> Forgetting(l.position, gone)]
    PROVE  m \in Links(i, {}) /\ Named(m) \subseteq Named(l) \ gone
<1>1. \A r, k : k \in Field(i, r, {}) => Forgetting(k, gone) \in Field(i, r, {})
  BY FieldGrows DEF Forgetting
<1>2. m \in Links(i, {})
  BY <1>1 DEF Links
<1>3. Named(m) \subseteq Named(l) \ gone
  BY DEF Named, Forgetting
<1> QED
  BY <1>2, <1>3

-----------------------------------------------------------------------------
LEMMA InitInv == Init => IInv
<1> SUFFICES ASSUME Init PROVE IInv
  OBVIOUS
<1>1. state \in [Rows -> States]
  BY DEF Init, States
<1>2. \A i \in Rows : link[i] = Blank
  BY DEF Init
<1>3. Named(Blank) = {}
  BY DEF Named, Blank
<1>4. \A w \in Workers : txn[w] = Idle
  BY DEF Init
<1>5. TypeOK
  BY <1>1, <1>2, <1>3, <1>4, BlankTyped DEF TypeOK
<1>6. \A w \in Workers : txn[w].pc # "checked"
  BY <1>4 DEF Idle
<1> QED
  BY <1>5, <1>6 DEF IInv, Init

\* A row written with keys that hold.
LEMMA WriteInv ==
    ASSUME IInv, NEW i \in Rows, NEW l \in Links(i, {}), Intact(l),
           state' = [state EXCEPT ![i] = "there"], link' = [link EXCEPT ![i] = l]
    PROVE  /\ state' \in [Rows -> States] /\ link' = [j \in Rows |-> link'[j]]
           /\ \A j \in Rows : link'[j] = IF j = i THEN l ELSE link[j]
           /\ \A j \in Rows : link'[j] \in Links(j, {}) /\ \A k \in Named(link'[j]) : There(k)'
<1>1. state \in [Rows -> States] /\ link = [j \in Rows |-> link[j]]
  BY DEF IInv, TypeOK
<1>2. state' \in [Rows -> States]
  BY <1>1 DEF States
<1>3. link' = [j \in Rows |-> link'[j]] /\ \A j \in Rows : link'[j] = IF j = i THEN l ELSE link[j]
  BY <1>1
<1>4. \A k \in Rows : There(k) => There(k)'
  BY <1>1 DEF There
<1>5. \A j \in Rows : link[j] \in Links(j, {}) /\ \A k \in Named(link[j]) : There(k)
  BY DEF IInv, TypeOK
<1>6. \A j \in Rows : link'[j] \in Links(j, {}) /\ \A k \in Named(link'[j]) : There(k)
  BY <1>3, <1>5 DEF Intact
<1>7. \A j \in Rows : Named(link'[j]) \subseteq Rows
  BY <1>6, NamedTyped DEF Rows
<1> QED
  BY <1>2, <1>3, <1>4, <1>6, <1>7

\* The requests are typed, and stay so while none of them moves.
Requests(t) ==
    \/ t = Idle
    \/ /\ t.pc \in {"loaded", "checked"} /\ t.op \in {"create", "update"}
       /\ t.row \in Positions /\ t.seen \in Seen
       /\ t.body \in Links(t.row, IF t.pc = "loaded" THEN {Same} ELSE {})

LEMMA PutInv ==
    ASSUME IInv, NEW i \in Rows, NEW l \in Links(i, {}), Put(i, l)
    PROVE  IInv'
<1>1. /\ state' \in [Rows -> States] /\ link' = [j \in Rows |-> link'[j]]
      /\ \A j \in Rows : link'[j] \in Links(j, {}) /\ \A k \in Named(link'[j]) : There(k)'
  BY WriteInv DEF Put
<1>2. txn' = txn
  BY DEF Put
<1>3. TypeOK'
  BY <1>1, <1>2 DEF IInv, TypeOK
<1> QED
  BY <1>1, <1>2, <1>3 DEF IInv, Belongs

LEMMA RemoveInv ==
    ASSUME IInv, NEW i \in Rows, Remove(i)
    PROVE  IInv'
<1> DEFINE gone == Removed(i)
<1>1. state \in [Rows -> States] /\ link = [j \in Rows |-> link[j]]
  BY DEF IInv, TypeOK
<1>2. /\ state' = [j \in Rows |-> IF j \in gone THEN "gone" ELSE state[j]] /\ txn' = txn
      /\ link' = [j \in Rows |-> link'[j]]
      /\ \A j \in Rows : j \in gone => link'[j] = Blank
      /\ \A j \in Rows : j \notin gone =>
           link'[j] = [service |-> Forgetting(link[j].service, gone),
                       category |-> Forgetting(link[j].category, gone),
                       subcategory |-> Forgetting(link[j].subcategory, gone),
                       level |-> Forgetting(link[j].level, gone),
                       position |-> Forgetting(link[j].position, gone)]
  BY DEF Remove
<1> HIDE DEF gone
<1>3. state' \in [Rows -> States]
  BY <1>1, <1>2 DEF States
<1>4. \A j \in Rows : link[j] \in Links(j, {}) /\ \A k \in Named(link[j]) : There(k)
  BY DEF IInv, TypeOK
<1>5. ASSUME NEW j \in Rows PROVE link'[j] \in Links(j, {}) /\ \A k \in Named(link'[j]) : There(k)'
  <2>1. CASE j \in gone
    <3>1. Named(Blank) = {}
      BY DEF Named, Blank
    <3> QED
      BY <1>2, <2>1, <3>1, BlankTyped
  <2>2. CASE j \notin gone
    <3>1. link'[j] \in Links(j, {}) /\ Named(link'[j]) \subseteq Named(link[j]) \ gone
      <4>1. PICK l, g, m : l = link[j] /\ g = gone /\ m = link'[j]
        OBVIOUS
      <4>2. /\ l \in Links(j, {})
            /\ m = [service |-> Forgetting(l.service, g), category |-> Forgetting(l.category, g),
                    subcategory |-> Forgetting(l.subcategory, g), level |-> Forgetting(l.level, g),
                    position |-> Forgetting(l.position, g)]
        BY <1>2, <1>4, <2>2, <4>1
      <4>3. m \in Links(j, {}) /\ Named(m) \subseteq Named(l) \ g
        BY <4>2, Forgotten
      <4> QED
        BY <4>1, <4>3
    <3>2. Named(link[j]) \subseteq Rows
      BY <1>4, NamedTyped DEF Rows
    <3> QED
      BY <1>2, <1>4, <3>1, <3>2 DEF There
  <2> QED
    BY <2>1, <2>2
<1>6. TypeOK'
  BY <1>2, <1>3, <1>5 DEF IInv, TypeOK
<1> QED
  BY <1>2, <1>6 DEF IInv, Belongs

LEMMA HideInv ==
    ASSUME IInv, NEW i \in Rows, Hide(i)
    PROVE  IInv'
<1>1. /\ state \in [Rows -> States] /\ state' = [state EXCEPT ![i] = "hidden"] /\ i \in Employees
      /\ link' = link /\ txn' = txn
  BY DEF IInv, TypeOK, Hide
<1>2. state' \in [Rows -> States]
  BY <1>1 DEF States
<1>3. ASSUME NEW j \in Rows, NEW k \in Named(link[j]) PROVE There(k)'
  <2>1. There(k) /\ k \in Catalog
    BY NamedTyped DEF IInv, TypeOK
  <2>2. k # i /\ k \in Rows
    BY <1>1, <2>1, KindsApart DEF Rows
  <2> QED
    BY <1>1, <2>1, <2>2 DEF There
<1>4. TypeOK'
  BY <1>1, <1>2, <1>3 DEF IInv, TypeOK
<1> QED
  BY <1>1, <1>4 DEF IInv, Belongs

\* A step of one request that writes nothing.
LEMMA RequestStep ==
    ASSUME IInv, NEW w \in Workers, NEW t, Goto(w, t), Requests(t), UNCHANGED <<state, link>>,
           t.pc = "checked" => Belongs(t.body, t.seen)
    PROVE  IInv'
<1>1. txn' = [v \in Workers |-> txn'[v]] /\ \A v \in Workers : txn'[v] = IF v = w THEN t ELSE txn[v]
  BY DEF IInv, Goto
<1>2. TypeOK'
  BY <1>1 DEF IInv, TypeOK, Requests, There
<1>3. \A v \in Workers : txn'[v].pc = "checked" => Belongs(txn'[v].body, txn'[v].seen)
  BY <1>1 DEF IInv
<1> QED
  BY <1>1, <1>2, <1>3 DEF IInv, Belongs

-----------------------------------------------------------------------------
LEMMA LoadInv ==
    ASSUME IInv, NEW w \in Workers, NEW i \in Positions, Load(w, i)
    PROVE  IInv'
<1>1. \A l \in Links(i, {}) \cup Links(i, {Same}) : SeenOf(l) \in Seen
  <2>1. \A j \in Rows : link[j].service \in Services \cup {None} /\ link[j].category \in Categories \cup {None}
    BY NamedTyped DEF IInv, TypeOK
  <2> QED
    BY <2>1 DEF SeenOf, Seen, Rows, Catalog
<1>2. \A r : Field(i, r, {}) \subseteq Field(i, r, {Same})
  BY DEF Field
<1>3. \A l \in Links(i, {}) : l \in Links(i, {Same})
  BY <1>2 DEF Links
<1>4. PICK op \in {"create", "update"}, l \in Links(i, {Same}), seen \in Seen :
         Goto(w, [pc |-> "loaded", op |-> op, row |-> i, body |-> l, seen |-> seen])
  <2>1. ASSUME NEW l \in Bodies(i, {None}) PROVE l \in Links(i, {})
    <3>1. {None} \ {None} = {}
      OBVIOUS
    <3> QED
      BY <2>1, <3>1, BodiesTyped
  <2>2. ASSUME NEW l \in Bodies(i, {None, Same}) PROVE l \in Links(i, {Same})
    <3>1. {None, Same} \ {None} = {Same}
      BY KindsApart
    <3> QED
      BY <2>2, <3>1, BodiesTyped
  <2> QED
    BY <1>1, <1>3, <2>1, <2>2 DEF Load
<1>5. Requests([pc |-> "loaded", op |-> op, row |-> i, body |-> l, seen |-> seen])
  BY <1>4 DEF Requests
<1> QED
  BY <1>4, <1>5, RequestStep DEF Load

\* The keys that a check leaves are whole, and belong to what it has seen.
LEMMA CheckInv ==
    ASSUME IInv, NEW w \in Workers, Check(w)
    PROVE  IInv'
<1> DEFINE t == txn[w]
           l == Applied(t.body, t.row)
           seen == [category |-> IF t.body.category = Same THEN SeenOf(l).category ELSE t.seen.category,
                    subcategory |-> IF t.body.subcategory = Same THEN SeenOf(l).subcategory
                                    ELSE t.seen.subcategory]
<1>1. /\ t.pc = "loaded" /\ t.op \in {"create", "update"} /\ t.row \in Positions /\ t.seen \in Seen
      /\ t.body \in Links(t.row, {Same})
  <2>1. t.pc = "loaded"
    BY DEF Check
  <2>2. t # Idle
    BY <2>1 DEF Idle
  <2> QED
    BY <2>1, <2>2 DEF IInv, TypeOK
<1>2. t.row \in Rows /\ link[t.row] \in Links(t.row, {})
  BY <1>1 DEF IInv, TypeOK, Rows, Catalog
<1>3. l \in Links(t.row, {})
  <2>1. \A r, k, old : /\ k \in Field(t.row, r, {Same}) /\ old \in Field(t.row, r, {})
                      => Kept(k, old) \in Field(t.row, r, {})
    BY DEF Field, Kept
  <2>2. None \in Field(t.row, "position", {})
    BY FieldGrows
  <2> QED
    BY <1>1, <1>2, <2>1, <2>2 DEF Applied, Links
<1>4. seen \in Seen
  <2>1. \A j \in Rows : link[j].service \in Services \cup {None} /\ link[j].category \in Categories \cup {None}
    BY NamedTyped DEF IInv, TypeOK
  <2>2. SeenOf(l).category \in Services \cup {None} /\ SeenOf(l).subcategory \in Categories \cup {None}
    BY <2>1 DEF SeenOf, Rows, Catalog
  <2> QED
    BY <1>1, <2>2 DEF Seen
<1> DEFINE u == [t EXCEPT !.pc = "checked", !.body = l, !.seen = seen]
<1>5. Goto(w, u) /\ Belongs(l, seen) /\ UNCHANGED <<state, link>>
  BY DEF Check
<1> HIDE DEF l, seen
<1>6. \/ u.pc = "checked" /\ u.op = t.op /\ u.row = t.row /\ u.body = l /\ u.seen = seen
  BY <1>1
<1>7. Requests(u)
  BY <1>1, <1>3, <1>4, <1>6 DEF Requests
<1> QED
  BY <1>5, <1>6, <1>7, RequestStep

LEMMA CommitInv ==
    ASSUME IInv, NEW w \in Workers, Commit(w)
    PROVE  /\ IInv'
           /\ txn[w].row \in Positions /\ txn'[w] = Idle
           /\ Belongs(txn[w].body, txn[w].seen) /\ txn[w].body \in Links(txn[w].row, {})
           /\ \A j \in Rows : link'[j] = IF j = txn[w].row THEN txn[w].body ELSE link[j]
<1> DEFINE t == txn[w]
<1>1. /\ t.pc = "checked" /\ t.row \in Positions /\ t.body \in Links(t.row, {})
      /\ Belongs(t.body, t.seen)
  <2>1. t.pc = "checked" /\ t # Idle
    BY DEF Commit, Idle
  <2> QED
    BY <2>1 DEF IInv, TypeOK
<1>2. t.row \in Rows
  BY <1>1 DEF Rows, Catalog
<1>3. /\ Intact(t.body) /\ state' = [state EXCEPT ![t.row] = "there"]
      /\ link' = [link EXCEPT ![t.row] = t.body] /\ txn' = [txn EXCEPT ![w] = Idle]
  BY DEF Commit, Goto
<1>4. /\ state' \in [Rows -> States] /\ link' = [j \in Rows |-> link'[j]]
      /\ \A j \in Rows : link'[j] = IF j = t.row THEN t.body ELSE link[j]
      /\ \A j \in Rows : link'[j] \in Links(j, {}) /\ \A k \in Named(link'[j]) : There(k)'
  BY <1>1, <1>2, <1>3, WriteInv
<1>5. txn' = [v \in Workers |-> txn'[v]] /\ \A v \in Workers : txn'[v] = IF v = w THEN Idle ELSE txn[v]
  BY <1>3 DEF IInv
<1>6. TypeOK'
  BY <1>4, <1>5 DEF IInv, TypeOK
<1>7. \A v \in Workers : txn'[v].pc = "checked" => Belongs(txn'[v].body, txn'[v].seen)
  BY <1>5 DEF IInv, Idle
<1> QED
  BY <1>1, <1>4, <1>5, <1>6, <1>7 DEF IInv, Belongs

LEMMA FailInv ==
    ASSUME IInv, NEW w \in Workers, Fail(w)
    PROVE  IInv'
<1>1. Requests(Idle) /\ Idle.pc # "checked"
  BY DEF Requests, Idle
<1>2. Goto(w, Idle) /\ UNCHANGED <<state, link>>
  BY DEF Fail
<1>3. PICK t : t = Idle
  OBVIOUS
<1> QED
  BY <1>1, <1>2, <1>3, RequestStep

\* The actions that write one row, or remove some, in one step.
LEMMA OneStep ==
    ASSUME IInv, NEW i \in Rows
    PROVE  /\ Create(i) \/ Move(i) \/ Edit(i) \/ Assign(i) => \E l \in Links(i, {}) : Put(i, l)
           /\ Edit(i) => \E l \in Links(i, {}) : Put(i, l) /\ Belongs(l, SeenOf(l))
           /\ Delete(i) \/ AdminDelete(i) => Remove(i)
<1>1. {} \ {None} = {} /\ {None} \ {None} = {}
  OBVIOUS
<1>2. \A l \in Bodies(i, {}) \cup Bodies(i, {None}) : l \in Links(i, {})
  BY <1>1, BodiesTyped
<1> QED
  BY <1>2 DEF Create, Move, Edit, Assign, Delete, AdminDelete

LEMMA NextInv == IInv /\ [Next]_vars => IInv'
<1>1. ASSUME IInv, UNCHANGED vars PROVE IInv'
  BY <1>1 DEF vars, IInv, TypeOK, There, Belongs
<1>2. ASSUME IInv, NEW i \in Rows,
             Create(i) \/ Move(i) \/ Edit(i) \/ Assign(i) \/ Hide(i) \/ Delete(i) \/ AdminDelete(i)
      PROVE  IInv'
  BY <1>2, OneStep, PutInv, HideInv, RemoveInv
<1>3. ASSUME IInv, NEW w \in Workers, Check(w) \/ Commit(w) \/ Fail(w) \/ \E i \in Positions : Load(w, i)
      PROVE  IInv'
  BY <1>3, CheckInv, CommitInv, FailInv, LoadInv
<1> QED
  BY <1>1, <1>2, <1>3 DEF Next

LEMMA Invariant == Spec => []IInv
BY InitInv, NextInv, PTL DEF Spec

\* Rows and requests are typed and no key names a row that is not there.
THEOREM TypeCorrect == Spec => []TypeOK
<1>1. IInv => TypeOK
  BY DEF IInv
<1> QED
  BY <1>1, Invariant, PTL

-----------------------------------------------------------------------------
\* A row that is not there holds no key, unless it is a hidden employee's.
Bare == \A j \in Rows : There(j) \/ link[j] = Blank \/ (j \in Employees /\ state[j] = "hidden")

LEMMA BareInit == Init => Bare
BY DEF Init, Bare

LEMMA BareNext == IInv /\ Bare /\ [Next]_vars => Bare'
<1> SUFFICES ASSUME IInv, Bare, [Next]_vars PROVE Bare'
  OBVIOUS
<1>1. state \in [Rows -> States] /\ link = [j \in Rows |-> link[j]]
  BY DEF IInv, TypeOK
<1>2. CASE UNCHANGED vars
  BY <1>2 DEF vars, Bare, There
<1>3. ASSUME NEW i \in Rows, NEW l, state' = [state EXCEPT ![i] = "there"], link' = [link EXCEPT ![i] = l]
      PROVE  Bare'
  BY <1>1, <1>3 DEF Bare, There
<1>4. ASSUME NEW i \in Rows, Hide(i) PROVE Bare'
  BY <1>1, <1>4 DEF Bare, There, Hide
<1>5. ASSUME NEW i \in Rows, Remove(i) PROVE Bare'
  <2> DEFINE gone == Removed(i)
  <2>1. Forgetting(None, gone) = None
    BY DEF Forgetting
  <2>2. ASSUME NEW j \in Rows
        PROVE  /\ j \in gone => link'[j] = Blank
               /\ j \notin gone => state'[j] = state[j]
               /\ (j \notin gone /\ link[j] = Blank) => link'[j] = Blank
    BY <1>5, <2>1 DEF Remove, Blank
  <2> HIDE DEF gone
  <2>3. ASSUME NEW j \in Rows
        PROVE  state'[j] = "there" \/ link'[j] = Blank \/ (j \in Employees /\ state'[j] = "hidden")
    <3>1. state[j] = "there" \/ link[j] = Blank \/ (j \in Employees /\ state[j] = "hidden")
      BY DEF Bare, There
    <3> QED
      BY <2>2, <3>1
  <2> QED
    BY <2>3 DEF Bare, There
<1>6. ASSUME NEW i \in Rows,
             Create(i) \/ Move(i) \/ Edit(i) \/ Assign(i) \/ Hide(i) \/ Delete(i) \/ AdminDelete(i)
      PROVE  Bare'
  BY <1>3, <1>4, <1>5, <1>6, OneStep DEF Put
<1>7. ASSUME NEW w \in Workers, Check(w) \/ Commit(w) \/ Fail(w) \/ \E i \in Positions : Load(w, i)
      PROVE  Bare'
  <2>1. CASE UNCHANGED <<state, link>>
    BY <2>1 DEF Bare, There
  <2>2. CASE Commit(w)
    <3>1. txn[w].row \in Rows
      BY <2>2, CommitInv DEF Rows, Catalog
    <3> QED
      BY <1>3, <2>2, <3>1 DEF Commit
  <2> QED
    BY <1>7, <2>1, <2>2 DEF Check, Fail, Load
<1> QED
  BY <1>2, <1>6, <1>7 DEF Next

LEMMA BareInvariant == Spec => []Bare
BY BareInit, BareNext, Invariant, PTL DEF Spec

\* A deletion that finds no dependants removes one row, and is forgotten by none but
\* employees already deleted.
LEMMA DeletionTakesNothing ==
    ASSUME IInv, Bare, NEW i \in Catalog, Delete(i), NEW j \in Rows \ {i}
    PROVE  \/ state'[j] = state[j] /\ link'[j] = link[j]
           \/ j \in Employees /\ state[j] = "hidden"
<1>1. i \in Rows /\ i # None
  BY KindsApart DEF Rows
<1>2. ASSUME NEW k \in Rows, i \in Named(link[k]) PROVE k \in Employees /\ state[k] = "hidden"
  <2>1. ~There(k)
    BY <1>2 DEF Delete, Dependencies
  <2>2. Named(Blank) = {}
    BY DEF Named, Blank
  <2> QED
    BY <1>2, <2>1, <2>2 DEF Bare
<1>3. ASSUME NEW k \in Rows, k \notin Employees PROVE i \notin Named(link[k])
  BY <1>2, <1>3
<1>4. Removed(i) = {i}
  <2>1. \A k \in Categories \cup SubCategories : k \in Rows /\ k \notin Employees
    BY KindsApart DEF Rows, Catalog
  <2>2. \A k \in Categories \cup SubCategories : link[k].service # i /\ link[k].category # i
    BY <1>1, <1>3, <2>1 DEF Named
  <2> QED
    BY <2>2 DEF Removed
<1>5. SUFFICES ASSUME i \notin Named(link[j])
               PROVE  state'[j] = state[j] /\ link'[j] = link[j]
  BY <1>2
<1>6. PICK l, m : l = link[j] /\ m = link'[j]
  OBVIOUS
<1>7. /\ state'[j] = state[j]
      /\ m = [service |-> Forgetting(l.service, {i}), category |-> Forgetting(l.category, {i}),
              subcategory |-> Forgetting(l.subcategory, {i}), level |-> Forgetting(l.level, {i}),
              position |-> Forgetting(l.position, {i})]
  BY <1>4, <1>6 DEF Delete, Remove
<1>8. l \in Links(j, {}) /\ i \notin Named(l)
  BY <1>5, <1>6 DEF IInv, TypeOK
<1>9. /\ l.service # i /\ l.category # i /\ l.subcategory # i /\ l.level # i /\ l.position # i
  BY <1>1, <1>8 DEF Named
<1>10. m = [service |-> l.service, category |-> l.category, subcategory |-> l.subcategory,
            level |-> l.level, position |-> l.position]
  BY <1>7, <1>9 DEF Forgetting
<1>11. m = l
  BY <1>8, <1>10 DEF Links
<1> QED
  BY <1>6, <1>7, <1>11

\* A deletion by the API takes no other row with it and changes none but employees
\* already deleted, however many rows and requests there are.
THEOREM DeletionsTakeNone == Spec => DeletionsTakeNothing
<1>1. IInv /\ Bare /\ [Next]_vars =>
        [\A i \in Catalog : There(i) /\ state'[i] = "gone" /\ Delete(i) =>
           \A j \in Rows \ {i} : \/ state'[j] = state[j] /\ link'[j] = link[j]
                                 \/ j \in Employees /\ state[j] = "hidden"]_vars
  BY DeletionTakesNothing
<1> QED
  BY <1>1, Invariant, BareInvariant, PTL DEF Spec, DeletionsTakeNothing

-----------------------------------------------------------------------------
\* A position is as coherent as it was while it and the rows it could name keep their keys.
LEMMA CoherentAlike ==
    ASSUME IInv, NEW i \in Positions, Coherent(i), link'[i] = link[i],
           \A j \in (Categories \cup SubCategories) \cap Named(link[i]) : link'[j] = link[j]
    PROVE  Coherent(i)'
<1>1. i \in Rows
  BY DEF Rows, Catalog
<1>2. /\ link[i].category \in Categories \cup {None}
      /\ link[i].subcategory \in SubCategories \cup {None}
  BY <1>1, NamedTyped DEF IInv, TypeOK
<1> QED
  BY <1>2 DEF Coherent, Named

\* A position written with keys that belong to what is seen of them is coherent.
LEMMA CoherentWritten ==
    ASSUME NEW i \in Positions, NEW l \in Links(i, {}), Belongs(l, SeenOf(l)),
           \A j \in Rows : link'[j] = IF j = i THEN l ELSE link[j]
    PROVE  Coherent(i)'
<1>1. l.category \in Categories \cup {None} /\ l.subcategory \in SubCategories \cup {None}
  BY NamedTyped
<1>2. /\ i \in Rows /\ link'[i] = l
      /\ \A j \in Categories \cup SubCategories : link'[j] = link[j]
  BY KindsApart DEF Rows, Catalog
<1>3. /\ l.category # None => link[l.category].service = l.service
      /\ l.subcategory # None => link[l.subcategory].category = l.category
  BY <1>1, KindsApart DEF Belongs, SeenOf, Rows, Catalog
<1> QED
  BY <1>1, <1>2, <1>3 DEF Coherent

\* The cascade takes the categories of a service it takes, so what stays stays coherent.
LEMMA CoherentAfterRemoval ==
    ASSUME IInv, NEW i \in Positions, Coherent(i), NEW k \in Rows, Remove(k)
    PROVE  Coherent(i)'
<1> DEFINE gone == Removed(k)
<1>1. /\ i \in Rows /\ Categories \subseteq Rows /\ SubCategories \subseteq Rows
  BY DEF Rows, Catalog
<1>2. /\ link[i].service \in Services \cup {None} /\ link[i].category \in Categories \cup {None}
      /\ link[i].subcategory \in SubCategories \cup {None}
      /\ \A j \in Categories : link[j].service \in Services \cup {None}
      /\ \A j \in SubCategories : link[j].category \in Categories \cup {None}
  <2>1. \A j \in Rows : /\ link[j].service \in Services \cup {None}
                        /\ link[j].category \in Categories \cup {None}
                        /\ link[j].subcategory \in SubCategories \cup {None}
    BY NamedTyped DEF IInv, TypeOK
  <2> QED
    BY <1>1, <2>1
<1>3. /\ None \notin gone
      /\ \A s \in Services \cap gone : s = k
      /\ \A c \in Categories : link[c].service \in gone => c \in gone
      /\ \A b \in SubCategories : link[b].category \in gone => b \in gone
  <2>1. gone = {k} \cup {j \in Categories : link[j].service = k}
                   \cup {j \in SubCategories :
                           link[j].category \in {c \in Categories : link[c].service = k} \cup {k}}
    BY DEF Removed
  <2>2. k # None /\ None \notin Categories /\ None \notin SubCategories
    BY KindsApart DEF Rows, Catalog
  <2> HIDE DEF gone
  <2>3. None \notin gone /\ \A s \in Services \cap gone : s = k
    BY <2>1, <2>2, KindsApart
  <2>4. ASSUME NEW c \in Categories, link[c].service \in gone PROVE c \in gone
    BY <1>2, <2>1, <2>3, <2>4
  <2>5. ASSUME NEW b \in SubCategories, link[b].category \in gone PROVE b \in gone
    <3>1. link[b].category \in Categories
      BY <1>2, <2>3, <2>5
    <3>2. link[b].category \in {c \in Categories : link[c].service = k} \cup {k}
      BY <2>1, <2>5, <3>1, KindsApart
    <3> QED
      BY <2>1, <3>2
  <2> QED
    BY <2>3, <2>4, <2>5
<1>4. ASSUME NEW j \in Rows, j \notin gone
      PROVE  /\ link'[j].service = Forgetting(link[j].service, gone)
             /\ link'[j].category = Forgetting(link[j].category, gone)
             /\ link'[j].subcategory = Forgetting(link[j].subcategory, gone)
  BY <1>4 DEF Remove
<1>5. ASSUME NEW j \in gone \cap Rows PROVE link'[j] = Blank
  BY <1>5 DEF Remove
<1> HIDE DEF gone
<1>6. CASE i \in gone
  BY <1>1, <1>5, <1>6 DEF Coherent, Blank
<1>7. CASE i \notin gone
  <2>1. /\ link'[i].service = Forgetting(link[i].service, gone)
        /\ link'[i].category = Forgetting(link[i].category, gone)
        /\ link'[i].subcategory = Forgetting(link[i].subcategory, gone)
    BY <1>1, <1>4, <1>7
  <2>2. ASSUME link'[i].category # None PROVE link'[link'[i].category].service = link'[i].service
    <3>1. PICK c : c = link[i].category
      OBVIOUS
    <3>2. c \in Categories /\ c \notin gone /\ link'[i].category = c /\ c \in Rows
      BY <1>1, <1>2, <2>1, <2>2, <3>1 DEF Forgetting
    <3>3. link[c].service = link[i].service
      BY <3>1, <3>2, <2>2, <2>1, KindsApart DEF Coherent, Rows, Catalog
    <3>4. link[c].service \notin gone
      BY <1>3, <3>2
    <3>5. link'[c].service = link[c].service
      BY <1>4, <3>2, <3>4 DEF Forgetting
    <3>6. link'[i].service = link[i].service
      BY <2>1, <3>3, <3>4 DEF Forgetting
    <3> QED
      BY <3>2, <3>3, <3>5, <3>6
  <2>3. ASSUME link'[i].subcategory # None
        PROVE  link'[link'[i].subcategory].category = link'[i].category
    <3>1. PICK b : b = link[i].subcategory
      OBVIOUS
    <3>2. b \in SubCategories /\ b \notin gone /\ link'[i].subcategory = b /\ b \in Rows
      BY <1>1, <1>2, <2>1, <2>3, <3>1 DEF Forgetting
    <3>3. link[b].category = link[i].category
      BY <3>1, <3>2, KindsApart DEF Coherent, Rows, Catalog
    <3>4. link[b].category \notin gone
      BY <1>3, <3>2
    <3>5. link'[b].category = link[b].category
      BY <1>4, <3>2, <3>4 DEF Forgetting
    <3>6. link'[i].category = link[i].category
      BY <2>1, <3>3, <3>4 DEF Forgetting
    <3> QED
      BY <3>2, <3>3, <3>5, <3>6
  <2> QED
    BY <2>2, <2>3 DEF Coherent
<1> QED
  BY <1>6, <1>7

\* A position parts from the classification in two ways only.
LEMMA PositionStep ==
    ASSUME IInv, [Next]_vars, NEW i \in Positions, Coherent(i), ~Coherent(i)'
    PROVE  \/ \E j \in Categories \cup SubCategories :
                 link[j] # link'[j] /\ state'[j] = "there" /\ j \in Named(link[i])
           \/ \E w \in Workers : /\ Commit(w) /\ txn[w].row = i /\ txn'[w] = Idle
                                 /\ txn[w].seen # SeenOf(txn[w].body)
<1> DEFINE Moved == \E j \in Categories \cup SubCategories :
                      link[j] # link'[j] /\ state'[j] = "there" /\ j \in Named(link[i])
           Late == \E w \in Workers : /\ Commit(w) /\ txn[w].row = i /\ txn'[w] = Idle
                                      /\ txn[w].seen # SeenOf(txn[w].body)
<1>1. i \in Rows
  BY DEF Rows, Catalog
<1>2. link' # link
  BY DEF Coherent
<1>3. ASSUME NEW k \in Rows, NEW l \in Links(k, {}), Put(k, l), k # i PROVE Moved
  <2>1. /\ \A j \in Rows : link'[j] = IF j = k THEN l ELSE link[j]
        /\ state'[k] = "there"
    BY <1>3, WriteInv DEF Put, IInv, TypeOK
  <2>2. link'[i] = link[i]
    BY <1>1, <1>3, <2>1
  <2>3. PICK j \in (Categories \cup SubCategories) \cap Named(link[i]) : link'[j] # link[j]
    BY <2>2, CoherentAlike
  <2>4. j = k
    BY <2>1, <2>3 DEF Rows, Catalog
  <2> QED
    BY <2>1, <2>3, <2>4
<1>4. ASSUME NEW k \in Rows,
             Create(k) \/ Move(k) \/ Edit(k) \/ Assign(k) \/ Hide(k) \/ Delete(k) \/ AdminDelete(k)
      PROVE  Moved
  <2>1. ~Hide(k)
    BY <1>2 DEF Hide
  <2>2. ~Delete(k) /\ ~AdminDelete(k)
    BY OneStep, CoherentAfterRemoval
  <2>3. CASE k = i
    <3>1. ~Create(k) /\ ~Move(k) /\ ~Assign(k)
      BY <2>3, KindsApart DEF Create, Move, Assign, Catalog
    <3>2. PICK l \in Links(i, {}) : Put(i, l) /\ Belongs(l, SeenOf(l))
      BY <1>1, <1>4, <2>1, <2>2, <2>3, <3>1, OneStep
    <3>3. \A j \in Rows : link'[j] = IF j = i THEN l ELSE link[j]
      BY <1>1, <3>2, WriteInv DEF Put
    <3> QED
      BY <3>2, <3>3, CoherentWritten
  <2>4. CASE k # i
    BY <1>3, <1>4, <2>1, <2>2, <2>4, OneStep
  <2> QED
    BY <2>3, <2>4
<1>5. ASSUME NEW w \in Workers, Check(w) \/ Commit(w) \/ Fail(w) \/ \E k \in Positions : Load(w, k)
      PROVE  Late
  <2>1. Commit(w)
    BY <1>2, <1>5 DEF Check, Fail, Load
  <2>2. PICK r, b, s : r = txn[w].row /\ b = txn[w].body /\ s = txn[w].seen
    OBVIOUS
  <2>3. /\ r \in Positions /\ txn'[w] = Idle /\ Belongs(b, s) /\ b \in Links(r, {})
        /\ \A j \in Rows : link'[j] = IF j = r THEN b ELSE link[j]
    BY <2>1, <2>2, CommitInv
  <2>4. r = i
    <3>1. SUFFICES ASSUME r # i PROVE FALSE
      OBVIOUS
    <3>2. link'[i] = link[i] /\ \A j \in Categories \cup SubCategories : link'[j] = link[j]
      BY <1>1, <2>3, <3>1, KindsApart DEF Rows, Catalog
    <3> QED
      BY <3>2, CoherentAlike
  <2>5. s # SeenOf(b)
    BY <2>3, <2>4, CoherentWritten
  <2> QED
    BY <2>1, <2>2, <2>3, <2>4, <2>5
<1> QED
  BY <1>2, <1>4, <1>5 DEF Next, vars

\* A position parts from the classification only when a row it names is moved, or when its
\* own request commits what it had seen before such a move.
THEOREM PositionsOnlyFollow == Spec => PositionsFollow
<1>1. IInv /\ [Next]_vars =>
        [\A i \in Positions :
           Coherent(i) /\ ~Coherent(i)' =>
              \/ \E j \in Categories \cup SubCategories :
                    /\ link[j] # link'[j] /\ state'[j] = "there"
                    /\ j \in Named(link[i])
              \/ \E w \in Workers : /\ txn[w].row = i /\ txn'[w] = Idle
                                    /\ txn[w].seen # SeenOf(txn[w].body)]_vars
  BY PositionStep
<1> QED
  BY <1>1, Invariant, PTL DEF Spec, PositionsFollow

-----------------------------------------------------------------------------
\* What has existed never comes to exist again, and keeps its keys while nothing moves.
Stands(j) == /\ state[j] # "absent" => state'[j] # "absent"
             /\ state[j] # "absent" /\ There(j)' => There(j) /\ link'[j] = link[j]

LEMMA AllStand ==
    ASSUME IInv, [Next]_vars, NoneMoves, NEW j \in Categories \cup SubCategories
    PROVE  Stands(j)
<1>1. /\ j \in Rows /\ j \in Catalog /\ j \notin Positions /\ j \notin Employees
  BY KindsApart DEF Rows, Catalog
<1>2. state \in [Rows -> States] /\ link = [k \in Rows |-> link[k]]
  BY DEF IInv, TypeOK
<1>3. state[j] # "absent" => state'[j] # "absent"
  <2>1. ASSUME NEW i \in Rows, NEW l, Put(i, l) PROVE state[j] # "absent" => state'[j] # "absent"
    BY <1>1, <1>2, <2>1 DEF Put
  <2>2. ASSUME NEW i \in Rows, Remove(i) PROVE state[j] # "absent" => state'[j] # "absent"
    BY <1>1, <2>2 DEF Remove
  <2>3. ASSUME NEW i \in Rows, Hide(i) PROVE state[j] # "absent" => state'[j] # "absent"
    BY <1>1, <1>2, <2>3 DEF Hide
  <2>4. ASSUME NEW w \in Workers, Commit(w) PROVE state[j] # "absent" => state'[j] # "absent"
    BY <1>1, <1>2, <2>4 DEF Commit
  <2> QED
    BY <2>1, <2>2, <2>3, <2>4, OneStep DEF Next, vars, Check, Fail, Load
<1>4. ASSUME state[j] \notin {"absent", "there"} PROVE ~There(j)'
  <2>1. ASSUME NEW i \in Rows, NEW l, Put(i, l), i # j PROVE ~There(j)'
    BY <1>1, <1>2, <1>4, <2>1 DEF Put, There
  <2>2. ASSUME NEW i \in Rows, Create(i) \/ Move(i) \/ Edit(i) \/ Assign(i) PROVE ~There(j)'
    <3>1. i # j
      BY <1>1, <1>4, <2>2 DEF Create, Move, Edit, Assign, There
    <3> QED
      BY <2>1, <2>2, <3>1, OneStep
  <2>3. ASSUME NEW i \in Rows, Remove(i) PROVE ~There(j)'
    BY <1>1, <1>4, <2>3 DEF Remove, There
  <2>4. ASSUME NEW i \in Rows, Hide(i) PROVE ~There(j)'
    BY <1>1, <1>2, <1>4, <2>4 DEF Hide, There
  <2>5. ASSUME NEW w \in Workers, Commit(w) PROVE ~There(j)'
    <3>1. txn[w].row \in Positions /\ txn[w].row # j
      BY <1>1, <2>5, CommitInv
    <3> QED
      BY <1>1, <1>2, <1>4, <2>5, <3>1 DEF Commit, There
  <2>6. CASE state' = state
    BY <1>4, <2>6 DEF There
  <2> QED
    BY <2>2, <2>3, <2>4, <2>5, <2>6, OneStep DEF Next, vars, Check, Fail, Load
<1> QED
  BY <1>3, <1>4 DEF Stands, NoneMoves, There

\* What a request has seen stays so while it waits.
LEMMA StillInformed ==
    ASSUME IInv, [Next]_vars, NoneMoves, NEW w \in Workers, Informed(w), txn'[w] = txn[w]
    PROVE  Informed(w)'
<1>1. PICK c, b, s : c = txn[w].body.category /\ b = txn[w].body.subcategory /\ s = txn[w].seen
  OBVIOUS
<1>2. /\ c \in Categories => Stands(c)
      /\ b \in SubCategories => Stands(b)
  BY AllStand
<1>3. /\ c \in Categories => state[c] # "absent" /\ (There(c) => s.category = link[c].service)
      /\ c \notin Categories => s.category = None
      /\ b \in SubCategories => state[b] # "absent" /\ (There(b) => s.subcategory = link[b].category)
      /\ b \notin SubCategories => s.subcategory = None
  BY <1>1 DEF Informed, There
<1>4. /\ c \in Categories => state'[c] # "absent" /\ (There(c)' => s.category = link'[c].service)
      /\ c \notin Categories => s.category = None
      /\ b \in SubCategories => state'[b] # "absent" /\ (There(b)' => s.subcategory = link'[b].category)
      /\ b \notin SubCategories => s.subcategory = None
  BY <1>2, <1>3 DEF Stands, There
<1>5. c = txn'[w].body.category /\ b = txn'[w].body.subcategory /\ s = txn'[w].seen
  BY <1>1
<1> QED
  BY <1>4, <1>5 DEF Informed, There

\* The keys that are not to be changed, or NULL, are no category and no subcategory.
LEMMA NoKeys ==
    /\ None \notin Categories /\ None \notin SubCategories
    /\ Same \notin Categories /\ Same \notin SubCategories
BY KindsApart DEF Rows, Catalog

LEMMA InformedLoad ==
    ASSUME IInv, NEW w \in Workers, NEW i \in Positions, Load(w, i)
    PROVE  Informed(w)'
<1>1. PICK l \in Bodies(i, {None}) \cup Bodies(i, {None, Same}) :
         /\ txn'[w].body = l /\ txn'[w].seen = SeenOf(l)
  <2>1. PICK l \in Bodies(i, {None}) \cup Bodies(i, {None, Same}), op \in {"create", "update"} :
           Goto(w, [pc |-> "loaded", op |-> op, row |-> i, body |-> l, seen |-> SeenOf(l)])
    BY DEF Load
  <2>2. txn'[w] = [pc |-> "loaded", op |-> op, row |-> i, body |-> l, seen |-> SeenOf(l)]
    BY <2>1 DEF Goto, IInv
  <2>3. txn'[w].body = l /\ txn'[w].seen = SeenOf(l)
    BY <2>2
  <2> QED
    BY <2>1, <2>3
<1>2. /\ l.category \in Categories => There(l.category)
      /\ l.subcategory \in SubCategories => There(l.subcategory)
  <2>1. /\ l.category \in Choices(i, "category", {None}) \cup Choices(i, "category", {None, Same})
        /\ l.subcategory \in Choices(i, "subcategory", {None}) \cup Choices(i, "subcategory", {None, Same})
    BY <1>1 DEF Bodies
  <2> QED
    BY <2>1, NoKeys DEF Choices
<1>3. UNCHANGED <<state, link>>
  BY DEF Load
<1> QED
  BY <1>1, <1>2, <1>3 DEF Informed, SeenOf, There

LEMMA InformedCheck ==
    ASSUME IInv, NEW w \in Workers, Informed(w), Check(w)
    PROVE  Informed(w)'
<1>1. PICK t, l, seen :
         /\ t = txn[w] /\ l = Applied(t.body, t.row)
         /\ seen = [category |-> IF t.body.category = Same THEN SeenOf(l).category ELSE t.seen.category,
                    subcategory |-> IF t.body.subcategory = Same THEN SeenOf(l).subcategory
                                    ELSE t.seen.subcategory]
  OBVIOUS
<1>2. t.pc = "loaded" /\ Goto(w, [t EXCEPT !.pc = "checked", !.body = l, !.seen = seen])
      /\ UNCHANGED <<state, link>>
  BY <1>1 DEF Check
<1>3. t.row \in Positions /\ t.row \in Rows
  BY <1>1, <1>2 DEF IInv, TypeOK, Idle, Rows, Catalog
<1>4. txn'[w].body = l /\ txn'[w].seen = seen
  <2>1. /\ t \in {Idle} \/ t.body \in Links(t.row, {Same})
    BY <1>1, <1>2 DEF IInv, TypeOK
  <2>2. txn'[w] = [t EXCEPT !.pc = "checked", !.body = l, !.seen = seen]
    BY <1>2 DEF Goto, IInv
  <2> QED
    BY <2>1, <2>2
<1>5. /\ link[t.row].category \in Categories => There(link[t.row].category)
      /\ link[t.row].subcategory \in SubCategories => There(link[t.row].subcategory)
  BY <1>3, NoKeys DEF IInv, TypeOK, Named
<1>6. /\ t.body.category = Same => l.category = link[t.row].category
      /\ t.body.category # Same => l.category = t.body.category
      /\ t.body.subcategory = Same => l.subcategory = link[t.row].subcategory
      /\ t.body.subcategory # Same => l.subcategory = t.body.subcategory
  BY <1>1 DEF Applied, Kept
<1>7. /\ t.body.category \in Categories => state[t.body.category] # "absent"
      /\ t.body.category \in Categories =>
            (There(t.body.category) => t.seen.category = link[t.body.category].service)
      /\ t.body.category \notin Categories => t.seen.category = None
      /\ t.body.subcategory \in SubCategories => state[t.body.subcategory] # "absent"
      /\ t.body.subcategory \in SubCategories =>
            (There(t.body.subcategory) => t.seen.subcategory = link[t.body.subcategory].category)
      /\ t.body.subcategory \notin SubCategories => t.seen.subcategory = None
  BY <1>1 DEF Informed, There
<1>8. /\ seen.category = IF t.body.category = Same THEN SeenOf(l).category ELSE t.seen.category
      /\ seen.subcategory = IF t.body.subcategory = Same THEN SeenOf(l).subcategory
                            ELSE t.seen.subcategory
      /\ SeenOf(l).category = IF l.category \in Categories THEN link[l.category].service ELSE None
      /\ SeenOf(l).subcategory = IF l.subcategory \in SubCategories THEN link[l.subcategory].category
                                 ELSE None
  BY <1>1 DEF SeenOf
<1>9. /\ l.category \in Categories => state[l.category] # "absent"
      /\ l.category \in Categories => (There(l.category) => seen.category = link[l.category].service)
      /\ l.category \notin Categories => seen.category = None
  BY <1>5, <1>6, <1>7, <1>8, NoKeys DEF There
<1>10. /\ l.subcategory \in SubCategories => state[l.subcategory] # "absent"
       /\ l.subcategory \in SubCategories =>
             (There(l.subcategory) => seen.subcategory = link[l.subcategory].category)
       /\ l.subcategory \notin SubCategories => seen.subcategory = None
  BY <1>5, <1>6, <1>7, <1>8, NoKeys DEF There
<1> QED
  BY <1>2, <1>4, <1>9, <1>10 DEF Informed, There

AllInformed == \A w \in Workers : Informed(w)

LEMMA IdleInformed == ASSUME NEW w, txn[w] = Idle PROVE Informed(w)
BY NoKeys DEF Informed, Idle, Blank

LEMMA InformedNext ==
    ASSUME IInv, AllInformed, [Next]_vars, [NoneMoves]_vars
    PROVE  AllInformed'
<1>1. CASE UNCHANGED vars
  BY <1>1 DEF vars, AllInformed, Informed, There
<1>2. CASE Next /\ NoneMoves
  <2> SUFFICES ASSUME NEW w \in Workers PROVE Informed(w)'
    BY DEF AllInformed
  <2>1. CASE txn'[w] = txn[w]
    BY <1>2, <2>1, StillInformed DEF AllInformed
  <2>2. CASE txn'[w] # txn[w]
    <3>1. PICK v \in Workers : Check(v) \/ Commit(v) \/ Fail(v) \/ \E i \in Positions : Load(v, i)
      BY <1>2, <2>2, OneStep DEF Next, Put, Remove, Hide
    <3>2. v = w
      BY <2>2, <3>1 DEF Check, Commit, Fail, Load, Goto, IInv
    <3>3. Commit(w) \/ Fail(w) => txn'[w] = Idle
      BY DEF Commit, Fail, Goto, IInv
    <3>4. txn'[w] = Idle => Informed(w)'
      BY NoKeys DEF Informed, Idle, Blank
    <3> QED
      BY <3>1, <3>2, <3>3, <3>4, InformedLoad, InformedCheck DEF AllInformed
  <2> QED
    BY <2>1, <2>2
<1> QED
  BY <1>1, <1>2

\* A request that commits has seen its keys as they are: the foreign keys hold at the commit,
\* so nothing it had seen is gone.
LEMMA SeenAtCommit ==
    ASSUME IInv, NEW w \in Workers, Informed(w), Commit(w)
    PROVE  txn[w].seen = SeenOf(txn[w].body)
<1>1. PICK b, s : b = txn[w].body /\ s = txn[w].seen
  OBVIOUS
<1>2. txn[w].pc = "checked" /\ Intact(b) /\ txn[w] # Idle
  BY <1>1 DEF Commit, Idle
<1>3. s \in Seen
  BY <1>1, <1>2 DEF IInv, TypeOK
<1>4. /\ b.category \in Categories => There(b.category)
      /\ b.subcategory \in SubCategories => There(b.subcategory)
  BY <1>2, NoKeys DEF Intact, Named
<1>5. /\ s.category = IF b.category \in Categories THEN link[b.category].service ELSE None
      /\ s.subcategory = IF b.subcategory \in SubCategories THEN link[b.subcategory].category ELSE None
  <2>1. /\ b.category \in Categories => (There(b.category) => s.category = link[b.category].service)
        /\ b.category \notin Categories => s.category = None
        /\ b.subcategory \in SubCategories =>
              (There(b.subcategory) => s.subcategory = link[b.subcategory].category)
        /\ b.subcategory \notin SubCategories => s.subcategory = None
    BY <1>1 DEF Informed, There
  <2> QED
    BY <1>4, <2>1
<1>6. s = [category |-> s.category, subcategory |-> s.subcategory]
  BY <1>3 DEF Seen
<1> QED
  BY <1>1, <1>5, <1>6 DEF SeenOf

\* As long as no category and no subcategory is moved, every position stays in its
\* classification, however its edits, its creations, the deletions and their cascades
\* interleave: the unlocked reads of Position.clean are dangerous by moves alone.
THEOREM UnmovedCoherent == Spec /\ [][NoneMoves]_vars => []AllCoherent
<1>1. Init => AllInformed /\ AllCoherent
  <2> SUFFICES ASSUME Init PROVE AllInformed /\ AllCoherent
    OBVIOUS
  <2>1. AllInformed
    BY IdleInformed DEF Init, AllInformed
  <2>2. AllCoherent
    BY DEF Init, AllCoherent, Coherent, Blank, Rows, Catalog
  <2> QED
    BY <2>1, <2>2
<1>2. ASSUME IInv, AllInformed, AllCoherent, [Next]_vars, [NoneMoves]_vars
      PROVE  AllCoherent'
  <2> SUFFICES ASSUME NEW i \in Positions, ~Coherent(i)' PROVE FALSE
    BY DEF AllCoherent
  <2>1. CASE UNCHANGED vars
    BY <1>2, <2>1 DEF vars, AllCoherent, Coherent
  <2>2. CASE Next /\ NoneMoves
    <3>1. CASE \E j \in Categories \cup SubCategories :
                  link[j] # link'[j] /\ state'[j] = "there" /\ j \in Named(link[i])
      <4>1. PICK j \in Categories \cup SubCategories :
               link[j] # link'[j] /\ state'[j] = "there" /\ j \in Named(link[i])
        BY <3>1
      <4>2. There(j)
        BY <1>2, <4>1 DEF IInv, TypeOK, Rows, Catalog
      <4> QED
        BY <2>2, <4>1, <4>2 DEF NoneMoves
    <3>2. CASE \E w \in Workers : Commit(w) /\ txn[w].seen # SeenOf(txn[w].body)
      BY <1>2, <3>2, SeenAtCommit DEF AllInformed
    <3> QED
      BY <1>2, <3>1, <3>2, PositionStep DEF AllCoherent
  <2> QED
    BY <1>2, <2>1, <2>2
<1>3. IInv /\ AllInformed /\ AllCoherent /\ [Next]_vars /\ [NoneMoves]_vars => AllInformed' /\ AllCoherent'
  BY <1>2, InformedNext
<1> QED
  BY <1>1, <1>3, Invariant, PTL DEF Spec

=============================================================================
