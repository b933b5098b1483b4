----------------------- MODULE DocumentVersions_proofs -----------------------
(***************************************************************************)
(* Proofs about DocumentVersions, for any numbers of documents, versions   *)
(* and workers and any settings of the category.                           *)
(*                                                                         *)
(* What an upload or a decision relies on at its commit, it has read under *)
(* a lock: the document's state and the next number under the document's,  *)
(* the version's row under its own.  So the invariant says who holds what, *)
(* that nobody else does, and that what a holder has read is still there.  *)
(***************************************************************************)
EXTENDS DocumentVersions, SequenceTheorems, TLAPS

\* What a request names.
Placed(w) ==
    LET t == txn[w]
    IN /\ t.held = IF t.pc \in {"lock_shared", "lock_current", "work"} THEN {t.doc} ELSE {}
       /\ t.pc \in {"create", "lock_found"} => t.op = "submit" /\ t.todo = {}
       /\ t.op \in Uploads /\ t.pc # "work" => t.version = None
       /\ t.op = "command" => w = Cron
       /\ t.pc = "open" => t.op \in Scans
       /\ t.pc = "lock_version" => t.op \in VersionOps
       /\ t.pc \in {"open", "lock_version", "lock_doc", "lock_shared", "work"} /\ t.op \in VersionOps =>
              t.version \in Versions /\ Exists(t.version)
       /\ t.pc \in {"lock_version", "lock_doc", "lock_shared", "work"} /\ t.op \in VersionOps =>
              t.doc = t.version[1]
       /\ t.pc = "lock_found" => t.doc \in Docs
       /\ t.pc = "lock_doc" => t.doc \in Docs /\ t.op # "submit"
       /\ t.pc = "lock_current" => t.op \in Uploads
       /\ t.op = "update" => t.arg \in {"active", "archived"}
       /\ t.op = "decide" => t.arg \in Decisions
       /\ t.op \in Scans /\ t.pc # "open" => t.arg \in Results
       /\ \A v \in t.todo : Exists(v)

\* A document that is not committed is named only by the submission that holds it;
\* what a holder has read of its document is so.
Owns(w) ==
    LET t == txn[w]
    IN /\ t.doc \in Docs => doc[t.doc] # "absent" \/ (t.op = "submit" /\ t.held = {t.doc})
       /\ t.pc \in {"lock_shared", "lock_current", "work"} =>
              /\ t.doc \in Docs
              /\ \/ t.lifecycle = doc[t.doc]
                 \/ t.op = "submit" /\ doc[t.doc] = "absent" /\ t.lifecycle = "active"
       /\ t.pc \in {"lock_current", "work"} /\ t.op \in Uploads => t.lifecycle = "active"

\* What a holder has read of its version is so.
Reads(w) ==
    LET t == txn[w]
    IN t.op \in VersionOps /\ t.pc \in {"lock_doc", "lock_shared", "work"} =>
           t.row = version[t.version]

\* The number of an upload is above those in use, and the version it demotes is the
\* current one.
Numbers(w) ==
    LET t == txn[w]
    IN t.op \in Uploads /\ t.pc = "work" =>
           /\ t.number \in 1..(MaxVersions + 1)
           /\ \A v \in Of(t.doc) : v[2] < t.number
           /\ Current(t.doc) = IF t.version = None THEN {} ELSE {t.version}

Sound(w) == Placed(w) /\ Owns(w) /\ Reads(w) /\ Numbers(w)

\* One worker at most holds a document, and one a version.
Exclusive ==
    /\ \A w, x \in Workers : \A d \in Docs : HoldsDoc(w, d) /\ HoldsDoc(x, d) => w = x
    /\ \A w, x \in Workers : \A v \in Versions : HoldsVersion(w, v) /\ HoldsVersion(x, v) => w = x

\* A document that is not there has no versions.
NothingBefore == \A d \in Docs : doc[d] = "absent" => Of(d) = {}

IInv ==
    /\ TypeOK
    /\ NewestIsCurrent
    /\ NothingBefore
    /\ Exclusive
    /\ \A w \in Workers : Sound(w)

-----------------------------------------------------------------------------
\* A document with a version has a newest one, so it has a current one.
LEMMA HasCurrent ==
    ASSUME TypeOK, NewestIsCurrent, NothingBefore, NEW d \in Docs, Of(d) # {}
    PROVE  Current(d) # {} /\ Current(d) = Newest(d)
BY DEF NewestIsCurrent, NothingBefore

\* A worker that becomes idle names and holds nothing.
LEMMA IdleSound ==
    ASSUME NEW w \in Workers, txn'[w] = Idle
    PROVE  Sound(w)' /\ (\A d \in Docs : ~HoldsDoc(w, d)') /\ (\A v \in Versions : ~HoldsVersion(w, v)')
<1>1. None \notin Docs /\ None \notin Versions /\ None \notin Ops
  BY NoneAssumption
<1> QED
  BY <1>1 DEF Idle, Sound, Placed, Owns, Reads, Numbers, HoldsDoc, HoldsVersion, Ops, Uploads, VersionOps, Scans

LEMMA IdleTyped == Idle \in Txn
BY DocumentsAssumption DEF Idle, Txn

\* Requests that do not move keep what is said of them while the data stay.
LEMMA Unmoved ==
    ASSUME NEW x \in Workers, txn'[x] = txn[x], UNCHANGED <<doc, version>>, Sound(x)
    PROVE  Sound(x)'
<1>1. Placed(x)'
  BY DEF Sound, Placed, Exists
<1>2. Owns(x)' /\ Reads(x)'
  BY DEF Sound, Owns, Reads
<1>3. Of(txn[x].doc)' = Of(txn[x].doc) /\ Current(txn[x].doc)' = Current(txn[x].doc)
  BY DEF Of, Current, Exists
<1>4. Numbers(x)'
  BY <1>3 DEF Sound, Numbers
<1> QED
  BY <1>1, <1>2, <1>4 DEF Sound

\* Locks are taken when they are free.
LEMMA ExclusiveStep ==
    ASSUME Exclusive, NEW w \in Workers,
           \A x \in Workers \ {w} : txn'[x] = txn[x],
           \A d \in Docs : HoldsDoc(w, d)' => HoldsDoc(w, d) \/ DocFree(w, d),
           \A v \in Versions : HoldsVersion(w, v)' => HoldsVersion(w, v) \/ VersionFree(w, v)
    PROVE  Exclusive'
<1>1. \A x \in Workers \ {w} : /\ \A d \in Docs : HoldsDoc(x, d)' <=> HoldsDoc(x, d)
                               /\ \A v \in Versions : HoldsVersion(x, v)' <=> HoldsVersion(x, v)
  BY DEF HoldsDoc, HoldsVersion
<1>2. ASSUME NEW x \in Workers, NEW y \in Workers, NEW d \in Docs, HoldsDoc(x, d)', HoldsDoc(y, d)', x # y
      PROVE  FALSE
  <2>1. CASE x # w /\ y # w
    BY <1>1, <1>2, <2>1 DEF Exclusive
  <2>2. CASE x = w
    BY <1>1, <1>2, <2>2 DEF Exclusive, DocFree
  <2>3. CASE y = w
    BY <1>1, <1>2, <2>3 DEF Exclusive, DocFree
  <2> QED
    BY <2>1, <2>2, <2>3
<1>3. ASSUME NEW x \in Workers, NEW y \in Workers, NEW v \in Versions,
             HoldsVersion(x, v)', HoldsVersion(y, v)', x # y
      PROVE  FALSE
  <2>1. CASE x # w /\ y # w
    BY <1>1, <1>3, <2>1 DEF Exclusive
  <2>2. CASE x = w
    BY <1>1, <1>3, <2>2 DEF Exclusive, VersionFree
  <2>3. CASE y = w
    BY <1>1, <1>3, <2>3 DEF Exclusive, VersionFree
  <2> QED
    BY <2>1, <2>2, <2>3
<1> QED
  BY <1>2, <1>3 DEF Exclusive

\* A step of one request that writes nothing.
LEMMA LocalStep ==
    ASSUME IInv, NEW w \in Workers, NEW t \in Txn, Goto(w, t), UNCHANGED <<doc, version>>,
           files' \subseteq files, Sound(w)',
           \A d \in Docs : HoldsDoc(w, d)' => HoldsDoc(w, d) \/ DocFree(w, d),
           \A v \in Versions : HoldsVersion(w, v)' => HoldsVersion(w, v) \/ VersionFree(w, v)
    PROVE  IInv'
<1>1. txn'[w] = t /\ \A x \in Workers \ {w} : txn'[x] = txn[x]
  BY DEF IInv, TypeOK, Goto
<1>2. TypeOK'
  BY DEF IInv, TypeOK, Goto
<1>3. NewestIsCurrent' /\ NothingBefore'
  BY DEF IInv, NewestIsCurrent, NothingBefore, Of, Newest, Current, Exists
<1>4. Exclusive'
  BY <1>1, ExclusiveStep DEF IInv
<1>5. \A x \in Workers \ {w} : Sound(x)'
  BY <1>1, Unmoved DEF IInv
<1> QED
  BY <1>2, <1>3, <1>4, <1>5 DEF IInv

\* A request that ends without writing, or after its handler deleted a file.
LEMMA Ends ==
    ASSUME IInv, NEW w \in Workers, Goto(w, Idle), UNCHANGED <<doc, version>>, files' \subseteq files
    PROVE  IInv'
<1>1. txn'[w] = Idle
  BY DEF IInv, TypeOK, Goto
<1> QED
  BY <1>1, IdleSound, IdleTyped, LocalStep

-----------------------------------------------------------------------------
\* Requests arrive.

LEMMA DocRequest ==
    ASSUME IInv, NEW w \in Workers, NEW d \in Docs, NEW arg \in Sources \cup DocStates \cup {None},
           NEW op \in {"upload", "update", "delete"},
           op = "update" => arg \in {"active", "archived"},
           BeginDoc(w, op, d, arg)
    PROVE  IInv'
<1> DEFINE t == [Idle EXCEPT !.pc = "lock_doc", !.op = op, !.doc = d, !.arg = arg]
<1>1. t \in Txn
  BY IdleTyped DEF Txn, Ops, Uploads, VersionOps, Idle
<1>2. txn'[w] = t
  BY DEF IInv, TypeOK, Goto, BeginDoc
<1>3. doc[d] # "absent" /\ doc' = doc /\ version' = version
  BY DEF BeginDoc, Quiet
<1>4. Sound(w)'
  BY <1>2, <1>3 DEF Sound, Placed, Owns, Reads, Numbers, Idle, Scans, VersionOps, Uploads
<1>5. \A e \in Docs : ~HoldsDoc(w, e)'
  BY <1>2 DEF HoldsDoc, Idle
<1>6. \A v \in Versions : ~HoldsVersion(w, v)'
  BY <1>2, NoneAssumption DEF HoldsVersion, Idle
<1> QED
  BY <1>1, <1>3, <1>4, <1>5, <1>6, LocalStep DEF BeginDoc, Quiet

LEMMA VersionRequest ==
    ASSUME IInv, NEW w \in Workers, NEW v \in Versions, NEW arg \in Decisions \cup Results,
           NEW op \in {"decide", "callback"},
           op = "decide" => arg \in Decisions, op = "callback" => arg \in Results,
           BeginVersion(w, op, v, arg)
    PROVE  IInv'
<1> DEFINE t == [Idle EXCEPT !.pc = "lock_version", !.op = op, !.doc = v[1], !.version = v, !.arg = arg]
<1>0. v[1] \in Docs
  BY DEF Versions
<1>1. t \in Txn
  BY <1>0, IdleTyped DEF Txn, Ops, Uploads, VersionOps, Scans, Idle
<1>2. txn'[w] = t
  BY DEF IInv, TypeOK, Goto, BeginVersion
<1>3. Exists(v) /\ doc' = doc /\ version' = version
  BY DEF BeginVersion, Quiet
<1>4. doc[v[1]] # "absent"
  BY <1>0, <1>3 DEF IInv, NothingBefore, Of
<1>5. Sound(w)'
  BY <1>0, <1>2, <1>3, <1>4 DEF Sound, Placed, Owns, Reads, Numbers, Idle, Scans, VersionOps, Uploads, Exists
<1>6. \A e \in Docs : ~HoldsDoc(w, e)'
  BY <1>2 DEF HoldsDoc, Idle
<1>7. \A u \in Versions : ~HoldsVersion(w, u)'
  BY <1>2 DEF HoldsVersion, Idle, Uploads
<1> QED
  BY <1>1, <1>3, <1>5, <1>6, <1>7, LocalStep DEF BeginVersion, Quiet

\* A submission that looks for a document, or found one to wait for.
LEMMA Seeking ==
    ASSUME IInv, NEW w \in Workers, NEW t \in Txn, Goto(w, t), Quiet,
           t.op = "submit", t.held = {}, t.version = None, t.todo = {},
           \/ t.pc = "create" /\ t.doc = None
           \/ t.pc = "lock_found" /\ t.doc \in ActiveDocs
    PROVE  IInv'
<1>1. txn'[w] = t
  BY DEF IInv, TypeOK, Goto
<1>2. Sound(w)'
  BY <1>1, NoneAssumption
  DEF Quiet, Sound, Placed, Owns, Reads, Numbers, ActiveDocs, Scans, VersionOps, Uploads
<1>3. \A e \in Docs : ~HoldsDoc(w, e)'
  BY <1>1 DEF HoldsDoc
<1>4. \A u \in Versions : ~HoldsVersion(w, u)'
  BY <1>1, NoneAssumption DEF HoldsVersion
<1> QED
  BY <1>2, <1>3, <1>4, LocalStep DEF Quiet

LEMMA SubmitRequest ==
    ASSUME IInv, NEW w \in Workers, BeginSubmit(w)
    PROVE  IInv'
<1>1. CASE ActiveDocs = {}
  <2> DEFINE t == [Idle EXCEPT !.pc = "create", !.op = "submit"]
  <2>1. t \in Txn /\ Goto(w, t) /\ Quiet
    BY <1>1, IdleTyped DEF BeginSubmit, Txn, Ops, Uploads, Idle
  <2>2. t.op = "submit" /\ t.held = {} /\ t.version = None /\ t.todo = {} /\ t.pc = "create" /\ t.doc = None
    BY DEF Idle
  <2> HIDE DEF t
  <2> QED
    BY <2>1, <2>2, Seeking
<1>2. CASE ActiveDocs # {}
  <2>1. PICK d \in ActiveDocs : Goto(w, [Idle EXCEPT !.pc = "lock_found", !.op = "submit", !.doc = d])
    BY <1>2 DEF BeginSubmit
  <2> DEFINE t == [Idle EXCEPT !.pc = "lock_found", !.op = "submit", !.doc = d]
  <2>2. t \in Txn /\ Goto(w, t) /\ Quiet
    BY <2>1, IdleTyped DEF BeginSubmit, Txn, Ops, Uploads, Idle, ActiveDocs
  <2>3. t.op = "submit" /\ t.held = {} /\ t.version = None /\ t.todo = {} /\ t.pc = "lock_found" /\ t.doc \in ActiveDocs
    BY DEF Idle
  <2> HIDE DEF t
  <2> QED
    BY <2>2, <2>3, Seeking
<1> QED
  BY <1>1, <1>2

\* The command takes its next version, or ends.
LEMMA NextScan ==
    ASSUME TypeOK, NEW S \in SUBSET Versions, ScanNext(S), \A v \in S : Exists(v)', Cron \in Workers
    PROVE  /\ txn'[Cron] \in Txn /\ txn' = [txn EXCEPT ![Cron] = txn'[Cron]]
           /\ Sound(Cron)'
           /\ \A d \in Docs : ~HoldsDoc(Cron, d)'
           /\ \A v \in Versions : ~HoldsVersion(Cron, v)'
<1>1. CASE S = {}
  BY <1>1, IdleSound, IdleTyped DEF ScanNext, Goto, TypeOK
<1>2. CASE S # {}
  <2>1. PICK v \in S : Goto(Cron, [Idle EXCEPT !.pc = "open", !.op = "command", !.version = v, !.todo = S])
    BY <1>2 DEF ScanNext
  <2> DEFINE t == [Idle EXCEPT !.pc = "open", !.op = "command", !.version = v, !.todo = S]
  <2>2. t \in Txn
    BY IdleTyped DEF Txn, Ops, Uploads, VersionOps, Scans, Idle
  <2>3. txn'[Cron] = t /\ txn' = [txn EXCEPT ![Cron] = t]
    BY <2>1 DEF Goto, TypeOK
  <2>4. Sound(Cron)'
    BY <2>3, NoneAssumption DEF Sound, Placed, Owns, Reads, Numbers, Idle, Scans, VersionOps, Uploads
  <2> QED
    BY <2>2, <2>3, <2>4 DEF HoldsDoc, HoldsVersion, Idle, Uploads
<1> QED
  BY <1>1, <1>2

LEMMA CommandRun ==
    ASSUME IInv, BeginCommand
    PROVE  IInv'
<1>1. PICK S \in {{"pending"}, {"pending", "failed"}} :
         ScanNext({v \in Versions : Exists(v) /\ version[v].scan \in S})
  BY DEF BeginCommand
<1>2. Cron \in Workers
  BY DocumentsAssumption
<1>3. /\ txn'[Cron] \in Txn /\ txn' = [txn EXCEPT ![Cron] = txn'[Cron]]
      /\ Sound(Cron)'
      /\ \A d \in Docs : ~HoldsDoc(Cron, d)'
      /\ \A v \in Versions : ~HoldsVersion(Cron, v)'
  BY <1>1, <1>2, NextScan DEF IInv, BeginCommand, Quiet, Exists
<1> QED
  BY <1>2, <1>3, LocalStep DEF BeginCommand, Quiet, Goto

-----------------------------------------------------------------------------
\* Lock by lock.

\* A submission that has its document: found and locked, or about to be created.
LEMMA Submits ==
    ASSUME IInv, NEW w \in Workers, NEW d \in Docs, Goto(w, Submitting(w, d)), Quiet,
           txn[w].pc \in {"create", "lock_found"}, DocFree(w, d), doc[d] \in {"absent", "active"}
    PROVE  IInv'
<1> DEFINE t == Submitting(w, d)
<1>1. Placed(w) /\ txn[w] \in Txn
  BY DEF IInv, Sound, TypeOK
<1>2. t \in Txn
  BY <1>1 DEF Submitting, SourceOfWriter, Txn, Sources, DocStates
<1>3. txn'[w] = t
  BY DEF IInv, TypeOK, Goto
<1>4. t.pc = "lock_shared" /\ t.doc = d /\ t.held = {d} /\ t.lifecycle = "active" /\ t.op = "submit"
      /\ t.version = None /\ t.todo = {}
  BY <1>1 DEF Submitting, Txn, Placed, Uploads
<1>5. Sound(w)'
  BY <1>3, <1>4 DEF Quiet, Sound, Placed, Owns, Reads, Numbers, Scans, VersionOps, Uploads
<1>6. \A e \in Docs : HoldsDoc(w, e)' => DocFree(w, e)
  BY <1>3, <1>4 DEF HoldsDoc
<1>7. \A v \in Versions : ~HoldsVersion(w, v)'
  BY <1>3, <1>4, NoneAssumption DEF HoldsVersion
<1> HIDE DEF t
<1> QED
  BY <1>2, <1>5, <1>6, <1>7, LocalStep DEF Quiet, t

LEMMA FoundStep ==
    ASSUME IInv, NEW w \in Workers, LockFound(w)
    PROVE  IInv'
<1> DEFINE d == txn[w].doc
<1>1. txn[w].pc = "lock_found" /\ DocFree(w, d) /\ Quiet /\ d \in Docs /\ Placed(w) /\ txn[w] \in Txn
  BY DEF LockFound, IInv, Sound, Placed, TypeOK
<1>2. CASE Goto(w, Idle)
  BY <1>1, <1>2, Ends DEF Quiet
<1>3. CASE doc[d] = "active" /\ Goto(w, Submitting(w, d))
  BY <1>1, <1>3, Submits
<1>4. CASE Goto(w, [Idle EXCEPT !.pc = "create", !.op = "submit"])
  <2> DEFINE t == [Idle EXCEPT !.pc = "create", !.op = "submit"]
  <2>1. t \in Txn
    BY IdleTyped DEF Txn, Ops, Uploads, Idle
  <2>2. t.op = "submit" /\ t.held = {} /\ t.version = None /\ t.todo = {} /\ t.pc = "create" /\ t.doc = None
    BY DEF Idle
  <2> HIDE DEF t
  <2> QED
    BY <1>1, <1>4, <2>1, <2>2, Seeking DEF t
<1>5. ASSUME NEW e \in ActiveDocs, Goto(w, [txn[w] EXCEPT !.doc = e])
      PROVE  IInv'
  <2> DEFINE t == [txn[w] EXCEPT !.doc = e]
  <2>1. t \in Txn
    BY <1>1, <1>5 DEF Txn, ActiveDocs
  <2>2. t.op = "submit" /\ t.held = {} /\ t.version = None /\ t.todo = {} /\ t.pc = "lock_found" /\ t.doc \in ActiveDocs
    BY <1>1 DEF Txn, Placed, Uploads
  <2> HIDE DEF t
  <2> QED
    BY <1>1, <1>5, <2>1, <2>2, Seeking DEF t
<1> QED
  BY <1>2, <1>3, <1>4, <1>5 DEF LockFound

LEMMA CreateStep ==
    ASSUME IInv, NEW w \in Workers, NEW d \in Docs, Create(w, d)
    PROVE  IInv'
<1>1. ASSUME NEW x \in Workers
      PROVE  ~HoldsDoc(x, d)
  <2>1. txn[x].doc # d
    BY DEF Create
  <2>2. txn[x].held \subseteq {txn[x].doc}
    BY DEF IInv, Sound, Placed
  <2> QED
    BY <2>1, <2>2 DEF HoldsDoc
<1>2. DocFree(w, d)
  BY <1>1 DEF DocFree
<1> QED
  BY <1>2, Submits DEF Create

\* A request that goes on to its next lock.
LEMMA VersionStep ==
    ASSUME IInv, NEW w \in Workers, LockVersion(w)
    PROVE  IInv'
<1> DEFINE t == [txn[w] EXCEPT !.pc = "lock_doc", !.row = version[txn[w].version]]
<1>1. /\ txn[w].pc = "lock_version" /\ VersionFree(w, txn[w].version) /\ Goto(w, t) /\ Quiet
      /\ Placed(w) /\ Owns(w) /\ txn[w] \in Txn /\ txn[w].version \in Versions /\ txn[w].op \in VersionOps
  BY DEF LockVersion, IInv, Sound, Placed, TypeOK
<1>2. version[txn[w].version] \in Version /\ txn[w].doc \in Docs
  BY <1>1 DEF IInv, TypeOK, Placed, Exists, Versions
<1>3. t \in Txn
  BY <1>1, <1>2 DEF Txn
<1>4. txn'[w] = t
  BY <1>1 DEF IInv, TypeOK, Goto
<1>5. Sound(w)'
  BY <1>1, <1>2, <1>4 DEF Quiet, Sound, Placed, Owns, Reads, Numbers, Scans, VersionOps, Uploads, Exists, Txn
<1>6. \A e \in Docs : ~HoldsDoc(w, e)'
  BY <1>1, <1>4 DEF HoldsDoc, Placed, Txn
<1>7. \A v \in Versions : HoldsVersion(w, v)' => VersionFree(w, v)
  BY <1>1, <1>4 DEF HoldsVersion, Txn
<1> QED
  BY <1>1, <1>3, <1>5, <1>6, <1>7, LocalStep DEF Quiet

LEMMA DocStep ==
    ASSUME IInv, NEW w \in Workers, LockDoc(w)
    PROVE  IInv'
<1> DEFINE d == txn[w].doc
           t == [txn[w] EXCEPT !.pc = "lock_shared", !.held = {d}, !.lifecycle = doc[d]]
<1>1. /\ txn[w].pc = "lock_doc" /\ DocFree(w, d) /\ Quiet
      /\ Placed(w) /\ Owns(w) /\ Reads(w) /\ txn[w] \in Txn /\ d \in Docs
  BY DEF LockDoc, IInv, Sound, Placed, TypeOK
<1>2. CASE Goto(w, Idle)
  BY <1>1, <1>2, Ends DEF Quiet
<1>3. CASE Goto(w, t)
  <2>1. t \in Txn
    BY <1>1 DEF Txn, IInv, TypeOK
  <2>2. txn'[w] = t
    BY <1>3 DEF IInv, TypeOK, Goto
  <2>3. Sound(w)'
    BY <1>1, <2>2 DEF Quiet, Sound, Placed, Owns, Reads, Numbers, Scans, VersionOps, Uploads, Exists, Txn
  <2>4. \A e \in Docs : HoldsDoc(w, e)' => DocFree(w, e)
    BY <1>1, <2>2 DEF HoldsDoc, Txn
  <2>5. \A v \in Versions : HoldsVersion(w, v)' => HoldsVersion(w, v)
    BY <1>1, <2>2 DEF HoldsVersion, Txn
  <2> QED
    BY <1>1, <1>3, <2>1, <2>3, <2>4, <2>5, LocalStep DEF Quiet
<1> QED
  BY <1>2, <1>3 DEF LockDoc

LEMMA SharedStep ==
    ASSUME IInv, NEW w \in Workers, LockShared(w)
    PROVE  IInv'
<1>1. /\ txn[w].pc = "lock_shared" /\ Quiet
      /\ Placed(w) /\ Owns(w) /\ Reads(w) /\ txn[w] \in Txn
  BY DEF LockShared, IInv, Sound, TypeOK
<1>2. CASE Goto(w, Idle)
  BY <1>1, <1>2, Ends DEF Quiet
<1>3. ASSUME NEW next \in {"work", "lock_current"}, Goto(w, [txn[w] EXCEPT !.pc = next]),
             next = "work" => txn[w].op \notin Uploads,
             next = "lock_current" => txn[w].op \in Uploads /\ txn[w].lifecycle = "active"
      PROVE  IInv'
  <2> DEFINE t == [txn[w] EXCEPT !.pc = next]
  <2>1. t \in Txn
    BY <1>1 DEF Txn
  <2>2. txn'[w] = t
    BY <1>3 DEF IInv, TypeOK, Goto
  <2>3. Sound(w)'
    BY <1>1, <1>3, <2>2 DEF Quiet, Sound, Placed, Owns, Reads, Numbers, Scans, VersionOps, Uploads, Exists, Txn
  <2>4. \A e \in Docs : HoldsDoc(w, e)' => HoldsDoc(w, e)
    BY <1>1, <2>2 DEF HoldsDoc, Txn
  <2>5. \A v \in Versions : HoldsVersion(w, v)' => HoldsVersion(w, v)
    BY <1>1, <1>3, <2>2 DEF HoldsVersion, Txn
  <2> QED
    BY <1>1, <1>3, <2>1, <2>3, <2>4, <2>5, LocalStep DEF Quiet
<1> QED
  BY <1>2, <1>3 DEF LockShared, UploadAllowed

\* Two versions of a document with the same number are one.
LEMMA SameNumber ==
    ASSUME NEW u \in Versions, NEW v \in Versions, u[1] = v[1], u[2] = v[2]
    PROVE  u = v
<1>1. PICK d \in Docs, n \in 1..MaxVersions : u = <<d, n>>
  BY DEF Versions
<1>2. PICK e \in Docs, m \in 1..MaxVersions : v = <<e, m>>
  BY DEF Versions
<1> QED
  BY <1>1, <1>2

LEMMA OneNewest ==
    ASSUME NEW d \in Docs, NEW u \in Newest(d), NEW v \in Newest(d)
    PROVE  u = v
<1>1. u \in Versions /\ v \in Versions /\ u[1] = v[1] /\ u[2] \in Nat /\ v[2] \in Nat
      /\ u[2] <= v[2] /\ v[2] <= u[2]
  BY DEF Newest, Of, Versions
<1> QED
  BY <1>1, SameNumber

\* An upload that has its number and the version it will demote.
LEMMA Numbered ==
    ASSUME IInv, NEW w \in Workers, txn[w].pc = "lock_current", Quiet,
           NEW n \in 1..(MaxVersions + 1), \A v \in Of(txn[w].doc) : v[2] < n,
           NEW t \in Txn, Goto(w, t),
           t.pc = "work", t.number = n, t.held = txn[w].held, t.op = txn[w].op, t.doc = txn[w].doc,
           t.lifecycle = txn[w].lifecycle, t.arg = txn[w].arg, t.todo = txn[w].todo,
           Current(txn[w].doc) = IF t.version = None THEN {} ELSE {t.version},
           t.version # None => VersionFree(w, t.version)
    PROVE  IInv'
<1>1. PICK d \in Docs : d = txn[w].doc
  BY DEF IInv, Sound, Owns
<1>2. Placed(w) /\ Owns(w) /\ txn[w].op \in Uploads
  BY DEF IInv, Sound, Placed
<1>3. txn'[w] = t /\ t.doc = d
  BY <1>1 DEF IInv, TypeOK, Goto
<1>4. Placed(w)'
  BY <1>2, <1>3 DEF Placed, Quiet, Exists, Scans, VersionOps, Uploads
<1>5. Owns(w)' /\ Reads(w)'
  BY <1>1, <1>2, <1>3 DEF Owns, Reads, Quiet, Scans, VersionOps, Uploads, Placed
<1>6. Of(d)' = Of(d) /\ Current(d)' = Current(d)
  BY DEF Quiet, Of, Current, Exists
<1>7. Numbers(w)'
  BY <1>1, <1>3, <1>6 DEF Numbers
<1>8. \A e \in Docs : HoldsDoc(w, e)' => HoldsDoc(w, e)
  BY <1>3 DEF HoldsDoc
<1>9. \A v \in Versions : HoldsVersion(w, v)' => VersionFree(w, v)
  BY <1>3, NoneAssumption DEF HoldsVersion
<1> QED
  BY <1>4, <1>5, <1>7, <1>8, <1>9, LocalStep DEF Quiet, Sound

LEMMA CurrentStep ==
    ASSUME IInv, NEW w \in Workers, LockCurrent(w)
    PROVE  IInv'
<1> DEFINE d == txn[w].doc
           newest == CHOOSE v \in Newest(d) : TRUE
           next == IF Of(d) = {} THEN 1 ELSE newest[2] + 1
<1>1. /\ txn[w].pc = "lock_current" /\ Quiet /\ txn[w] \in Txn /\ d \in Docs
      /\ txn[w].version = None
  BY DEF LockCurrent, IInv, Sound, Placed, Owns, TypeOK
<1>2. CASE Current(d) = {}
  <2>1. Of(d) = {}
    BY <1>1, <1>2, HasCurrent DEF IInv
  <2>2. 1 \in 1..(MaxVersions + 1) /\ 1 \in 0..(MaxVersions + 1)
    BY DocumentsAssumption
  <2> DEFINE t == [txn[w] EXCEPT !.pc = "work", !.number = 1]
  <2>3. Goto(w, t)
    BY <1>2, <2>1 DEF LockCurrent
  <2>4. t \in Txn
    BY <1>1, <2>2 DEF Txn
  <2>5. /\ t.pc = "work" /\ t.number = 1 /\ t.held = txn[w].held /\ t.op = txn[w].op /\ t.doc = d
        /\ t.lifecycle = txn[w].lifecycle /\ t.arg = txn[w].arg /\ t.todo = txn[w].todo /\ t.version = None
    BY <1>1 DEF Txn
  <2> HIDE DEF t
  <2> QED
    BY <1>1, <1>2, <2>1, <2>2, <2>3, <2>4, <2>5, Numbered
<1>3. CASE Current(d) # {}
  <2>1. PICK v \in Current(d) :
           /\ VersionFree(w, v)
           /\ Goto(w, [txn[w] EXCEPT !.pc = "work", !.number = next, !.version = v, !.row = version[v]])
    BY <1>3 DEF LockCurrent
  <2>2. v \in Of(d) /\ v \in Versions /\ v[2] \in 1..MaxVersions /\ Exists(v)
    BY DEF Current, Of, Versions
  <2>3. Current(d) = Newest(d)
    BY <1>1, <2>2, HasCurrent DEF IInv
  <2>4. Current(d) = {v} /\ newest = v
    BY <1>1, <2>3, OneNewest
  <2>5. next = v[2] + 1
    <3> HIDE DEF newest
    <3> QED
      BY <2>2, <2>4
  <2>6. next \in 1..(MaxVersions + 1) /\ next \in 0..(MaxVersions + 1)
    <3> HIDE DEF next
    <3> QED
      BY <2>2, <2>5, DocumentsAssumption
  <2>7. \A u \in Of(d) : u[2] < next
    <3>1. \A u \in Of(d) : u[2] <= v[2] /\ u[2] \in Int
      BY <2>2, <2>3, <2>4 DEF Newest, Of, Versions
    <3> HIDE DEF next
    <3> QED
      BY <2>2, <2>5, <3>1
  <2> DEFINE t == [txn[w] EXCEPT !.pc = "work", !.number = next, !.version = v, !.row = version[v]]
  <2>8. version[v] \in Version
    BY <2>2 DEF IInv, TypeOK, Exists
  <2>9. Goto(w, t)
    BY <2>1
  <2>10. /\ t \in Txn
         /\ t.pc = "work" /\ t.number = next /\ t.held = txn[w].held /\ t.op = txn[w].op /\ t.doc = d
         /\ t.lifecycle = txn[w].lifecycle /\ t.arg = txn[w].arg /\ t.todo = txn[w].todo /\ t.version = v
    <3> HIDE DEF next
    <3> QED
      BY <1>1, <2>2, <2>6, <2>8 DEF Txn
  <2>11. v # None
    BY <2>2, NoneAssumption
  <2> HIDE DEF t, next
  <2> QED
    BY <1>1, <2>1, <2>4, <2>6, <2>7, <2>9, <2>10, <2>11, Numbered
<1> QED
  BY <1>2, <1>3

-----------------------------------------------------------------------------
\* Commits.

LEMMA OpenStep ==
    ASSUME IInv, NEW w \in Workers, NEW result \in Verdicts, Open(w, result)
    PROVE  IInv'
<1> DEFINE v == txn[w].version
           t == [txn[w] EXCEPT !.pc = "lock_version", !.doc = v[1], !.arg = result]
<1>1. /\ txn[w].pc = "open" /\ Quiet /\ Placed(w) /\ txn[w] \in Txn
      /\ v \in Versions /\ Exists(v) /\ txn[w].op \in Scans
  BY DEF Open, IInv, Sound, Placed, TypeOK, VersionOps
<1>2. CASE Goto(w, Idle)
  BY <1>1, <1>2, Ends DEF Quiet
<1>3. CASE Goto(w, t)
  <2>1. v[1] \in Docs /\ doc[v[1]] # "absent"
    BY <1>1 DEF Versions, IInv, NothingBefore, Of
  <2>2. t \in Txn
    BY <1>1, <2>1 DEF Txn, Verdicts, Results
  <2>3. txn'[w] = t
    BY <1>3 DEF IInv, TypeOK, Goto
  <2>4. Sound(w)'
    BY <1>1, <2>1, <2>3
    DEF Quiet, Sound, Placed, Owns, Reads, Numbers, Scans, VersionOps, Uploads, Exists, Txn, Verdicts, Results
  <2>5. \A e \in Docs : ~HoldsDoc(w, e)'
    BY <1>1, <2>3 DEF HoldsDoc, Placed, Txn
  <2>6. \A u \in Versions : ~HoldsVersion(w, u)'
    BY <1>1, <2>3 DEF HoldsVersion, Txn, Scans, Uploads
  <2> QED
    BY <1>1, <1>3, <2>2, <2>4, <2>5, <2>6, LocalStep DEF Quiet
<1> QED
  BY <1>2, <1>3 DEF Open

\* A document whose versions come and go unchanged keeps its newest and current ones.
LEMMA SameVersions ==
    ASSUME \A u \in Versions : /\ version'[u] # None <=> version[u] # None
                               /\ version[u] # None => version'[u].is_current = version[u].is_current,
           NEW d
    PROVE  Of(d)' = Of(d) /\ Current(d)' = Current(d) /\ Newest(d)' = Newest(d)
<1>1. Of(d)' = Of(d)
  BY DEF Of, Exists
<1>2. \A u \in Of(d) : version'[u].is_current = version[u].is_current
  BY DEF Of, Exists
<1> QED
  BY <1>1, <1>2 DEF Current, Newest

\* A write of a version its request holds, which stays as current as it was.
LEMMA VersionWrite ==
    ASSUME IInv, NEW w \in Workers, NEW v \in Versions, HoldsVersion(w, v), Exists(v),
           NEW r \in Version, r.is_current = version[v].is_current,
           version' = [version EXCEPT ![v] = r], UNCHANGED <<doc, files>>,
           NEW t \in Txn, txn' = [txn EXCEPT ![w] = t], Sound(w)',
           \A d \in Docs : ~HoldsDoc(w, d)', \A u \in Versions : ~HoldsVersion(w, u)'
    PROVE  IInv'
<1>1. txn'[w] = t /\ \A x \in Workers \ {w} : txn'[x] = txn[x]
  BY DEF IInv, TypeOK
<1>2. TypeOK'
  BY DEF IInv, TypeOK
<1>3. \A u \in Versions : /\ version'[u] # None <=> version[u] # None
                          /\ version[u] # None => version'[u].is_current = version[u].is_current
  BY NoneAssumption DEF Exists, IInv, TypeOK
<1>4. \A d : Of(d)' = Of(d) /\ Current(d)' = Current(d) /\ Newest(d)' = Newest(d)
  BY <1>3, SameVersions
<1>5. NewestIsCurrent' /\ NothingBefore'
  BY <1>4 DEF IInv, NewestIsCurrent, NothingBefore
<1>6. Exclusive'
  BY <1>1, ExclusiveStep DEF IInv
<1>7. ASSUME NEW x \in Workers \ {w}
      PROVE  Sound(x)'
  <2>1. Sound(x) /\ txn'[x] = txn[x] /\ txn[x] \in Txn
    BY <1>1 DEF IInv, TypeOK
  <2>2. Placed(x)'
    <3>1. \A u \in txn[x].todo : u \in Versions
      BY <2>1 DEF Txn
    <3> QED
      BY <1>3, <2>1, <3>1 DEF Sound, Placed, Exists
  <2>3. Owns(x)'
    BY <2>1 DEF Sound, Owns
  <2>4. Reads(x)'
    <3>1. ASSUME txn[x].op \in VersionOps, txn[x].pc \in {"lock_doc", "lock_shared", "work"}
          PROVE  txn[x].row = version'[txn[x].version]
      <4>1. txn[x].version \in Versions /\ HoldsVersion(x, txn[x].version)
        BY <2>1, <3>1 DEF Sound, Placed, HoldsVersion
      <4>2. txn[x].version # v
        BY <4>1 DEF IInv, Exclusive
      <4> QED
        BY <2>1, <3>1, <4>1, <4>2 DEF Sound, Reads, IInv, TypeOK
    <3> QED
      BY <2>1, <3>1 DEF Reads
  <2>5. Numbers(x)'
    BY <1>4, <2>1 DEF Sound, Numbers
  <2> QED
    BY <2>2, <2>3, <2>4, <2>5 DEF Sound
<1> QED
  BY <1>1, <1>2, <1>5, <1>6, <1>7 DEF IInv

LEMMA ResultStep ==
    ASSUME IInv, NEW w \in Workers, RecordResult(w)
    PROVE  IInv'
<1> DEFINE v == txn[w].version
           r == [version[v] EXCEPT !.scan = txn[w].arg]
<1>1. /\ txn[w].pc = "work" /\ txn[w].op \in Scans /\ Placed(w) /\ txn[w] \in Txn
      /\ v \in Versions /\ Exists(v) /\ txn[w].arg \in Results
  BY DEF RecordResult, IInv, Sound, Placed, TypeOK, VersionOps
<1>2. version[v] \in Version
  BY <1>1 DEF IInv, TypeOK, Exists
<1>3. HoldsVersion(w, v)
  BY <1>1 DEF HoldsVersion, VersionOps
<1>4. r \in Version /\ r.is_current = version[v].is_current
  BY <1>1, <1>2 DEF Version
<1>5. version' = [version EXCEPT ![v] = r] /\ UNCHANGED <<doc, files>>
  BY <1>1 DEF RecordResult, IInv, TypeOK
<1>6. /\ txn'[w] \in Txn /\ txn' = [txn EXCEPT ![w] = txn'[w]]
      /\ Sound(w)'
      /\ \A d \in Docs : ~HoldsDoc(w, d)'
      /\ \A u \in Versions : ~HoldsVersion(w, u)'
  <2>1. CASE txn[w].op = "command"
    <3>1. w = Cron /\ ScanNext(txn[w].todo \ {v})
      BY <1>1, <2>1 DEF RecordResult, Placed
    <3>2. txn[w].todo \ {v} \in SUBSET Versions /\ \A u \in txn[w].todo \ {v} : Exists(u)'
      BY <1>1, <1>5 DEF Txn, Placed, Exists, IInv, TypeOK
    <3> QED
      BY <3>1, <3>2, NextScan DEF IInv
  <2>2. CASE txn[w].op # "command"
    <3>1. txn' = [txn EXCEPT ![w] = Idle] /\ txn'[w] = Idle
      BY <2>2 DEF RecordResult, Goto, IInv, TypeOK
    <3> QED
      BY <3>1, IdleSound, IdleTyped
  <2> QED
    BY <2>1, <2>2
<1> HIDE DEF r
<1> QED
  BY <1>1, <1>3, <1>4, <1>5, <1>6, VersionWrite

LEMMA DecideStep ==
    ASSUME IInv, NEW w \in Workers, Decide(w)
    PROVE  IInv'
<1> DEFINE v == txn[w].version
           r == [version[v] EXCEPT !.verification = txn[w].arg]
<1>1. /\ txn[w].pc = "work" /\ txn[w].op = "decide" /\ Placed(w) /\ txn[w] \in Txn
      /\ v \in Versions /\ Exists(v) /\ txn[w].arg \in Decisions
  BY DEF Decide, IInv, Sound, Placed, TypeOK, VersionOps
<1>2. version[v] \in Version
  BY <1>1 DEF IInv, TypeOK, Exists
<1>3. HoldsVersion(w, v)
  BY <1>1 DEF HoldsVersion, VersionOps
<1>4. r \in Version /\ r.is_current = version[v].is_current
  BY <1>1, <1>2 DEF Version
<1>5. version' = [version EXCEPT ![v] = r] /\ UNCHANGED <<doc, files>>
  BY <1>1 DEF Decide, IInv, TypeOK
<1>6. txn' = [txn EXCEPT ![w] = Idle] /\ txn'[w] = Idle
  BY DEF Decide, Goto, IInv, TypeOK
<1> HIDE DEF r
<1> QED
  BY <1>1, <1>3, <1>4, <1>5, <1>6, IdleSound, IdleTyped, VersionWrite

\* A write of a document its request holds.
LEMMA DocWrite ==
    ASSUME IInv, NEW w \in Workers, txn[w].pc = "work", txn[w].op \in {"update", "delete"},
           NEW s \in DocStates \ {"absent"}, doc' = [doc EXCEPT ![txn[w].doc] = s],
           Goto(w, Idle), UNCHANGED <<version, files>>
    PROVE  IInv'
<1>1. PICK d \in Docs : d = txn[w].doc
  BY DEF IInv, Sound, Owns
<1>2. txn'[w] = Idle /\ (\A x \in Workers \ {w} : txn'[x] = txn[x]) /\ doc' = [doc EXCEPT ![d] = s]
  BY <1>1 DEF IInv, TypeOK, Goto
<1>3. doc[d] # "absent" /\ HoldsDoc(w, d)
  BY <1>1 DEF IInv, Sound, Placed, Owns, HoldsDoc
<1>4. TypeOK'
  BY <1>2, IdleTyped DEF IInv, TypeOK, Goto
<1>5. NewestIsCurrent' /\ NothingBefore'
  BY <1>2, <1>3 DEF IInv, TypeOK, NewestIsCurrent, NothingBefore, Of, Newest, Current, Exists
<1>6. Sound(w)' /\ Exclusive'
  BY <1>2, IdleSound, ExclusiveStep DEF IInv
<1>7. ASSUME NEW x \in Workers \ {w}
      PROVE  Sound(x)'
  <2>1. Sound(x) /\ txn'[x] = txn[x]
    BY <1>2 DEF IInv
  <2>2. Placed(x)' /\ Reads(x)'
    BY <2>1 DEF Sound, Placed, Reads, Exists
  <2>3. d \notin txn[x].held
    BY <1>3 DEF IInv, Exclusive, HoldsDoc
  <2>4. Owns(x)'
    BY <1>2, <2>1, <2>3 DEF Sound, Owns, Placed, IInv, TypeOK
  <2>5. Of(txn[x].doc)' = Of(txn[x].doc) /\ Current(txn[x].doc)' = Current(txn[x].doc)
    BY <2>1 DEF Of, Current, Exists
  <2>6. Numbers(x)'
    BY <2>1, <2>5 DEF Sound, Numbers
  <2> QED
    BY <2>2, <2>4, <2>6 DEF Sound
<1> QED
  BY <1>4, <1>5, <1>6, <1>7 DEF IInv

LEMMA UpdateStep ==
    ASSUME IInv, NEW w \in Workers, Update(w) \/ Delete(w)
    PROVE  IInv'
<1>1. CASE Update(w)
  <2>1. txn[w].arg \in DocStates \ {"absent"}
    BY <1>1 DEF Update, IInv, Sound, Placed, DocStates
  <2> QED
    BY <1>1, <2>1, DocWrite DEF Update
<1>2. CASE Delete(w)
  <2>1. "deleted" \in DocStates \ {"absent"}
    BY DEF DocStates
  <2> QED
    BY <1>2, <2>1, DocWrite DEF Delete
<1> QED
  BY <1>1, <1>2

\* What an upload about to commit knows.
LEMMA UploadFacts ==
    ASSUME IInv, NEW w \in Workers, txn[w].pc = "work", txn[w].op \in Uploads
    PROVE  /\ txn[w].doc \in Docs /\ HoldsDoc(w, txn[w].doc) /\ doc[txn[w].doc] \in {"absent", "active"}
           /\ txn[w].number \in 1..(MaxVersions + 1)
           /\ \A v \in Of(txn[w].doc) : v[2] < txn[w].number
           /\ Current(txn[w].doc) = IF txn[w].version = None THEN {} ELSE {txn[w].version}
           /\ txn[w].version # None => txn[w].version \in Of(txn[w].doc) /\ HoldsVersion(w, txn[w].version)
<1>1. Placed(w) /\ Owns(w) /\ Numbers(w)
  BY DEF IInv, Sound
<1>2. txn[w].doc \in Docs /\ HoldsDoc(w, txn[w].doc) /\ doc[txn[w].doc] \in {"absent", "active"}
  BY <1>1 DEF Placed, Owns, HoldsDoc
<1>3. txn[w].version # None => txn[w].version \in Current(txn[w].doc)
  BY <1>1 DEF Numbers
<1> QED
  BY <1>1, <1>2, <1>3 DEF Numbers, Current, HoldsVersion

LEMMA NewTyped == NewVersion \in Version /\ NewVersion # None /\ NewVersion.is_current
<1>1. NewVersion \in Version /\ NewVersion.is_current
  BY DEF NewVersion, Version, FirstStatus
<1> QED
  BY <1>1, NoneAssumption

\* What an upload's commit does to the versions.
LEMMA UploadWrites ==
    ASSUME IInv, NEW w \in Workers, Upload(w), NEW d \in Docs, NEW n, d = txn[w].doc, n = txn[w].number
    PROVE  /\ <<d, n>> \in Versions /\ <<d, n>> \notin Of(d) /\ version[<<d, n>>] = None
           /\ version' \in [Versions -> Version \cup {None}]
           /\ version'[<<d, n>>] = NewVersion
           /\ \A v \in Versions : v # <<d, n>> =>
                 /\ version[v] # None <=> version'[v] # None
                 /\ v # txn[w].version => version'[v] = version[v]
                 /\ v = txn[w].version => /\ version'[v] = [version[v] EXCEPT !.is_current = FALSE]
                                          /\ version[v] \in Version
           /\ doc' = [doc EXCEPT ![d] = "active"] /\ doc[d] \in {"absent", "active"}
<1> DEFINE new == <<d, n>>
<1>1. /\ txn[w].pc = "work" /\ txn[w].op \in Uploads /\ n <= MaxVersions
      /\ version' = [v \in Versions |->
                        IF v = new THEN NewVersion
                        ELSE IF v = txn[w].version THEN [version[v] EXCEPT !.is_current = FALSE]
                        ELSE version[v]]
      /\ doc' = [doc EXCEPT ![d] = IF @ = "absent" THEN "active" ELSE @]
  BY DEF Upload
<1>2. /\ doc[d] \in {"absent", "active"} /\ n \in 1..(MaxVersions + 1)
      /\ \A v \in Of(d) : v[2] < n
      /\ txn[w].version # None => txn[w].version \in Of(d)
  BY <1>1, UploadFacts
<1>3. n \in 1..MaxVersions
  BY <1>1, <1>2, DocumentsAssumption
<1>4. new \in Versions /\ new[1] = d /\ new[2] = n
  BY <1>3 DEF Versions
<1>5. new \notin Of(d)
  BY <1>2, <1>3, <1>4
<1>6. version[new] = None
  BY <1>4, <1>5 DEF Of, Exists
<1>7. NewVersion \in Version
  BY NewTyped
<1>8. \A v \in Versions : v = txn[w].version => version[v] \in Version
  BY <1>2, NoneAssumption DEF Of, Exists, IInv, TypeOK
<1>9. \A v \in Versions : v = txn[w].version => [version[v] EXCEPT !.is_current = FALSE] \in Version
  BY <1>8 DEF Version
<1>10. version' \in [Versions -> Version \cup {None}]
  BY <1>1, <1>7, <1>9 DEF IInv, TypeOK
<1>11. doc' = [doc EXCEPT ![d] = "active"]
  BY <1>1, <1>2
<1>12. version'[new] = NewVersion
  BY <1>1, <1>4
<1>13. ASSUME NEW v \in Versions, v # new
       PROVE  /\ version[v] # None <=> version'[v] # None
              /\ v # txn[w].version => version'[v] = version[v]
              /\ v = txn[w].version => /\ version'[v] = [version[v] EXCEPT !.is_current = FALSE]
                                       /\ version[v] \in Version
  BY <1>1, <1>8, <1>9, <1>13, NoneAssumption
<1> HIDE DEF new
<1> QED
  BY <1>2, <1>4, <1>5, <1>6, <1>10, <1>11, <1>12, <1>13 DEF new

\* The new version is the newest and the current one of its document.
LEMMA UploadNumbers ==
    ASSUME IInv, NEW w \in Workers, Upload(w)
    PROVE  NewestIsCurrent' /\ NothingBefore'
<1>1. PICK d \in Docs : d = txn[w].doc
  BY UploadFacts DEF Upload
<1> DEFINE n == txn[w].number
           new == <<d, n>>
<1>2. /\ new \in Versions /\ new \notin Of(d)
      /\ version'[new] = NewVersion
      /\ \A v \in Versions : v # new =>
            /\ version[v] # None <=> version'[v] # None
            /\ v # txn[w].version => version'[v] = version[v]
            /\ v = txn[w].version => /\ version'[v] = [version[v] EXCEPT !.is_current = FALSE]
                                     /\ version[v] \in Version
      /\ doc' = [doc EXCEPT ![d] = "active"]
  BY <1>1, UploadWrites
<1>3. /\ \A v \in Of(d) : v[2] < n
      /\ Current(d) = IF txn[w].version = None THEN {} ELSE {txn[w].version}
      /\ txn[w].version # None => txn[w].version \in Of(d)
  BY <1>1, UploadFacts DEF Upload
<1>4. NewVersion # None /\ NewVersion.is_current
  BY NewTyped
<1>5. new[1] = d /\ new[2] = n
  OBVIOUS
<1> HIDE DEF new, n
<1>6. Of(d)' = Of(d) \cup {new}
  BY <1>2, <1>4, <1>5 DEF Of, Exists
<1>7. \A v \in Of(d) : v[2] \in Int /\ v \in Versions /\ v # new
  BY <1>2 DEF Of, Versions
<1>8. n \in Int
  BY <1>2, <1>5 DEF Versions
<1>9. Newest(d)' = {new}
  BY <1>3, <1>5, <1>6, <1>7, <1>8 DEF Newest
<1>10. \A v \in Of(d) : ~version'[v].is_current
  <2>1. ASSUME NEW v \in Of(d), v = txn[w].version
        PROVE  ~version'[v].is_current
    BY <1>2, <1>7, <2>1 DEF Version
  <2>2. ASSUME NEW v \in Of(d), v # txn[w].version
        PROVE  ~version'[v].is_current
    <3>1. v \notin Current(d)
      BY <1>3, <2>2
    <3> QED
      BY <1>2, <1>7, <2>2, <3>1 DEF Current
  <2> QED
    BY <2>1, <2>2
<1>11. Current(d)' = {new}
  BY <1>2, <1>4, <1>6, <1>10 DEF Current
<1>12. ASSUME NEW e \in Docs, e # d
       PROVE  Of(e)' = Of(e) /\ Newest(e)' = Newest(e) /\ Current(e)' = Current(e) /\ doc'[e] = doc[e]
  <2>1. \A v \in Versions : v[1] = e => version'[v] = version[v]
    <3>1. ASSUME NEW v \in Versions, v[1] = e
          PROVE  v # new /\ v # txn[w].version
      BY <1>3, <1>5, <1>12, <3>1, NoneAssumption DEF Of
    <3> QED
      BY <1>2, <3>1
  <2>2. Of(e)' = Of(e)
    BY <2>1 DEF Of, Exists
  <2>3. \A v \in Of(e) : version'[v] = version[v]
    BY <2>1 DEF Of
  <2>4. doc'[e] = doc[e]
    BY <1>2, <1>12 DEF IInv, TypeOK
  <2> QED
    BY <2>2, <2>3, <2>4 DEF Newest, Current
<1>13. doc'[d] = "active"
  BY <1>2 DEF IInv, TypeOK
<1> QED
  BY <1>9, <1>11, <1>12, <1>13 DEF IInv, NewestIsCurrent, NothingBefore

\* The on-commit scan of a version that has just been committed.
LEMMA ScanStarts ==
    ASSUME TypeOK, NEW w \in Workers, NEW d \in Docs, NEW v \in Versions,
           NEW o \in {"upload_scan", "submit_scan"}, doc'[d] # "absent", version'[v] # None,
           txn' = [txn EXCEPT ![w] = [Idle EXCEPT !.pc = "open", !.doc = d, !.version = v, !.op = o]]
    PROVE  /\ txn'[w] \in Txn /\ txn' = [txn EXCEPT ![w] = txn'[w]]
           /\ Sound(w)'
           /\ \A e \in Docs : ~HoldsDoc(w, e)'
           /\ \A u \in Versions : ~HoldsVersion(w, u)'
<1> DEFINE t == [Idle EXCEPT !.pc = "open", !.doc = d, !.version = v, !.op = o]
<1>1. t \in Txn
  BY IdleTyped DEF Txn, Ops, Uploads, VersionOps, Scans, Idle
<1>2. txn'[w] = t
  BY DEF TypeOK
<1>3. t.pc = "open" /\ t.op = o /\ t.doc = d /\ t.held = {} /\ t.version = v /\ t.todo = {}
  BY DEF Idle
<1> HIDE DEF t
<1>4. Placed(w)'
  BY <1>2, <1>3 DEF Placed, Scans, VersionOps, Uploads, Exists
<1>5. Owns(w)' /\ Reads(w)' /\ Numbers(w)'
  BY <1>2, <1>3 DEF Owns, Reads, Numbers
<1>6. (\A e \in Docs : ~HoldsDoc(w, e)') /\ (\A u \in Versions : ~HoldsVersion(w, u)')
  BY <1>2, <1>3 DEF HoldsDoc, HoldsVersion
<1> QED
  BY <1>1, <1>2, <1>4, <1>5, <1>6 DEF Sound, t

LEMMA UploadStep ==
    ASSUME IInv, NEW w \in Workers, Upload(w)
    PROVE  IInv'
<1>1. PICK d \in Docs : d = txn[w].doc
  BY UploadFacts DEF Upload
<1> DEFINE new == <<d, txn[w].number>>
<1>2. /\ new \in Versions /\ new \notin Of(d) /\ version[new] = None
      /\ version' \in [Versions -> Version \cup {None}]
      /\ version'[new] = NewVersion
      /\ \A v \in Versions : v # new =>
            /\ version[v] # None <=> version'[v] # None
            /\ v # txn[w].version => version'[v] = version[v]
            /\ v = txn[w].version => /\ version'[v] = [version[v] EXCEPT !.is_current = FALSE]
                                     /\ version[v] \in Version
      /\ doc' = [doc EXCEPT ![d] = "active"]
  BY <1>1, UploadWrites
<1>3. HoldsDoc(w, d) /\ (txn[w].version # None => HoldsVersion(w, txn[w].version))
  BY <1>1, UploadFacts DEF Upload
<1>4. NewVersion # None
  BY NewTyped
<1>5. \/ \E o \in {"upload_scan", "submit_scan"} :
            txn' = [txn EXCEPT ![w] = [Idle EXCEPT !.pc = "open", !.doc = d, !.version = new, !.op = o]]
      \/ txn' = [txn EXCEPT ![w] = Idle]
  BY <1>1 DEF Upload, Goto
<1> HIDE DEF new
<1>6. /\ txn'[w] \in Txn /\ txn' = [txn EXCEPT ![w] = txn'[w]]
      /\ Sound(w)'
      /\ \A e \in Docs : ~HoldsDoc(w, e)'
      /\ \A u \in Versions : ~HoldsVersion(w, u)'
  <2>1. CASE txn' = [txn EXCEPT ![w] = Idle]
    <3>1. txn'[w] = Idle
      BY <2>1 DEF IInv, TypeOK
    <3> QED
      BY <2>1, <3>1, IdleSound, IdleTyped
  <2>2. doc'[d] # "absent" /\ version'[new] # None /\ new \in Versions
    BY <1>2, <1>4 DEF IInv, TypeOK
  <2> QED
    BY <1>5, <2>1, <2>2, ScanStarts DEF IInv
<1>7. \A x \in Workers \ {w} : txn'[x] = txn[x]
  BY <1>6 DEF IInv, TypeOK
<1>8. TypeOK'
  <2>1. files' \subseteq Versions
    BY <1>1, <1>2 DEF Upload, IInv, TypeOK, new
  <2>2. doc' \in [Docs -> DocStates]
    BY <1>2 DEF IInv, TypeOK, DocStates
  <2>3. txn' \in [Workers -> Txn]
    BY <1>6 DEF IInv, TypeOK
  <2> QED
    BY <1>2, <2>1, <2>2, <2>3 DEF TypeOK
<1>9. Exclusive'
  BY <1>6, <1>7, ExclusiveStep DEF IInv
<1>10. ASSUME NEW x \in Workers \ {w}
       PROVE  Sound(x)'
  <2>1. Sound(x) /\ txn'[x] = txn[x] /\ txn[x] \in Txn
    BY <1>7 DEF IInv, TypeOK
  <2>2. \A v \in Versions : version[v] # None => version'[v] # None
    BY <1>2, <1>4
  <2>3. Placed(x)'
    <3>1. \A u \in txn[x].todo : u \in Versions
      BY <2>1 DEF Txn
    <3> QED
      BY <2>1, <2>2, <3>1 DEF Sound, Placed, Exists
  <2>4. d \notin txn[x].held
    BY <1>3 DEF IInv, Exclusive, HoldsDoc
  <2>5. Owns(x)'
    BY <1>2, <2>1, <2>4 DEF Sound, Owns, Placed, IInv, TypeOK
  <2>6. Reads(x)'
    <3>1. ASSUME txn[x].op \in VersionOps, txn[x].pc \in {"lock_doc", "lock_shared", "work"}
          PROVE  txn[x].row = version'[txn[x].version]
      <4>1. /\ txn[x].version \in Versions /\ HoldsVersion(x, txn[x].version)
            /\ version[txn[x].version] # None
        BY <2>1, <3>1 DEF Sound, Placed, HoldsVersion, Exists
      <4>2. txn[x].version # new /\ txn[x].version # txn[w].version
        BY <1>2, <1>3, <4>1, NoneAssumption DEF IInv, Exclusive
      <4> QED
        BY <1>2, <2>1, <3>1, <4>1, <4>2 DEF Sound, Reads
    <3> QED
      BY <2>1, <3>1 DEF Reads
  <2>7. Numbers(x)'
    <3>1. ASSUME txn[x].op \in Uploads, txn[x].pc = "work"
          PROVE  Of(txn[x].doc)' = Of(txn[x].doc) /\ Current(txn[x].doc)' = Current(txn[x].doc)
      <4>1. txn[x].doc # d
        BY <2>1, <2>4, <3>1 DEF Sound, Placed
      <4>2. \A v \in Versions : v[1] = txn[x].doc => version'[v] = version[v]
        <5>1. txn[w].version # None => txn[w].version \in Of(d)
          BY <1>1, UploadFacts DEF Upload
        <5>2. new[1] = d
          BY DEF new
        <5>3. ASSUME NEW v \in Versions, v[1] = txn[x].doc
              PROVE  v # new /\ v # txn[w].version
          BY <4>1, <5>1, <5>2, <5>3, NoneAssumption DEF Of
        <5> QED
          BY <1>2, <5>3
      <4>3. Of(txn[x].doc)' = Of(txn[x].doc)
        BY <2>1, <4>2 DEF Of, Exists
      <4>4. \A v \in Of(txn[x].doc) : version'[v] = version[v]
        BY <4>2 DEF Of
      <4> QED
        BY <2>1, <4>3, <4>4 DEF Current
    <3> QED
      BY <2>1, <3>1 DEF Sound, Numbers
  <2> QED
    BY <2>3, <2>5, <2>6, <2>7 DEF Sound
<1> QED
  BY <1>6, <1>8, <1>9, <1>10, UploadNumbers DEF IInv

-----------------------------------------------------------------------------
\* Every step.

LEMMA RequestStep ==
    ASSUME IInv, NEW w \in Workers, Step(w)
    PROVE  IInv'
<1>1. CASE LockFound(w) \/ \E d \in Docs : Create(w, d)
  BY <1>1, FoundStep, CreateStep
<1>2. CASE RefuseDocument(w) \/ RefuseVersion(w) \/ DecisionRefused(w)
  BY <1>2, Ends DEF RefuseDocument, RefuseVersion, DecisionRefused, Quiet
<1>3. CASE LockVersion(w) \/ LockDoc(w) \/ LockShared(w) \/ LockCurrent(w)
  BY <1>3, VersionStep, DocStep, SharedStep, CurrentStep
<1>4. CASE Upload(w) \/ Update(w) \/ Delete(w) \/ Decide(w) \/ RecordResult(w)
  BY <1>4, UploadStep, UpdateStep, DecideStep, ResultStep
<1>5. CASE \E r \in Verdicts : Open(w, r)
  BY <1>5, OpenStep
<1> QED
  BY <1>1, <1>2, <1>3, <1>4, <1>5 DEF Step

LEMMA RequestBegins ==
    ASSUME IInv, NEW w \in Workers, Begin(w)
    PROVE  IInv'
<1>1. CASE BeginSubmit(w)
  BY <1>1, SubmitRequest
<1>2. CASE \E d \in Docs : BeginUpload(w, d) \/ BeginUpdate(w, d) \/ BeginDelete(w, d)
  <2>1. PICK d \in Docs : BeginUpload(w, d) \/ BeginUpdate(w, d) \/ BeginDelete(w, d)
    BY <1>2
  <2>2. PICK op \in {"upload", "update", "delete"}, arg \in Sources \cup DocStates \cup {None} :
           (op = "update" => arg \in {"active", "archived"}) /\ BeginDoc(w, op, d, arg)
    BY <2>1 DEF BeginUpload, BeginUpdate, BeginDelete, DocStates
  <2> QED
    BY <2>2, DocRequest
<1>3. CASE \E v \in Versions : BeginDecision(w, v) \/ BeginCallback(w, v)
  <2>1. PICK v \in Versions : BeginDecision(w, v) \/ BeginCallback(w, v)
    BY <1>3
  <2>2. CASE BeginDecision(w, v)
    BY <2>2, VersionRequest DEF BeginDecision
  <2>3. CASE BeginCallback(w, v)
    BY <2>3, VersionRequest DEF BeginCallback
  <2> QED
    BY <2>1, <2>2, <2>3
<1> QED
  BY <1>1, <1>2, <1>3 DEF Begin

\* A request that is rolled back.
LEMMA RollBack ==
    ASSUME IInv, NEW w \in Workers, Victim(w) \/ Fail(w) \/ Kill(w)
    PROVE  IInv'
<1>1. Goto(w, Idle) /\ UNCHANGED <<doc, version>> /\ files' \subseteq files
  BY DEF Victim, Fail, Kill, Raise, Quiet
<1> QED
  BY <1>1, Ends

LEMMA Initially == Init => IInv
<1> SUFFICES ASSUME Init
             PROVE  IInv
  OBVIOUS
<1>1. TypeOK
  BY IdleTyped DEF Init, TypeOK, DocStates
<1>2. \A d : Of(d) = {}
  BY DEF Init, Of, Exists
<1>3. NewestIsCurrent /\ NothingBefore
  BY <1>2 DEF Init, NewestIsCurrent, NothingBefore, Current, Newest
<1>4. None \notin Docs /\ None \notin Versions /\ None \notin Ops
  BY NoneAssumption
<1>5. \A w \in Workers : Sound(w)
  BY <1>4 DEF Init, Idle, Sound, Placed, Owns, Reads, Numbers, Ops, Uploads, VersionOps, Scans
<1>6. Exclusive
  BY <1>4 DEF Init, Idle, Exclusive, HoldsDoc, HoldsVersion
<1> QED
  BY <1>1, <1>3, <1>5, <1>6 DEF IInv

LEMMA Preserved == IInv /\ [Next]_vars => IInv'
<1> SUFFICES ASSUME IInv, [Next]_vars
             PROVE  IInv'
  OBVIOUS
<1>1. ASSUME NEW w \in Workers, Step(w) \/ Victim(w) \/ Fail(w) \/ Kill(w)
      PROVE  IInv'
  BY <1>1, RequestStep, RollBack
<1>2. ASSUME NEW w \in Workers \ {Cron}, Begin(w)
      PROVE  IInv'
  BY <1>2, RequestBegins
<1>3. CASE BeginCommand
  BY <1>3, CommandRun
<1>4. CASE UNCHANGED vars
  <2>1. \A w \in Workers : Sound(w)'
    BY <1>4, Unmoved DEF vars, IInv
  <2>2. TypeOK' /\ NewestIsCurrent' /\ NothingBefore'
    BY <1>4 DEF vars, IInv, TypeOK, NewestIsCurrent, NothingBefore, Of, Current, Newest, Exists
  <2>3. Exclusive'
    BY <1>4 DEF vars, IInv, Exclusive, HoldsDoc, HoldsVersion
  <2> QED
    BY <2>1, <2>2, <2>3 DEF IInv
<1> QED
  BY <1>1, <1>2, <1>3, <1>4 DEF Next

LEMMA Invariant == Spec => []IInv
BY Initially, Preserved, PTL DEF Spec

\* Documents, versions, files and requests are typed, for any number of each.
THEOREM TypeCorrect == Spec => []TypeOK
<1>1. IInv => TypeOK
  BY DEF IInv
<1> QED
  BY <1>1, Invariant, PTL

\* A document's current version is its newest one and no other is, whatever uploads,
\* decisions and scans run beside each other (upload_new_version, line 60).
THEOREM CurrentIsNewest == Spec => []NewestIsCurrent
<1>1. IInv => NewestIsCurrent
  BY DEF IInv
<1> QED
  BY <1>1, Invariant, PTL

\* An upload's number is free and the version it demotes is the only current one, so
\* the handler of IntegrityError in upload_new_version is never reached for them.
THEOREM NumbersAreFree == Spec => []UploadsNeverConflict
<1>1. ASSUME IInv, NEW w \in Workers, txn[w].pc = "work", txn[w].op \in Uploads
      PROVE  <<txn[w].doc, txn[w].number>> \notin Of(txn[w].doc) /\ Current(txn[w].doc) \subseteq {txn[w].version}
  <2>1. /\ txn[w].number \in 1..(MaxVersions + 1)
        /\ \A v \in Of(txn[w].doc) : v[2] < txn[w].number
        /\ Current(txn[w].doc) = IF txn[w].version = None THEN {} ELSE {txn[w].version}
    BY <1>1, UploadFacts
  <2>2. <<txn[w].doc, txn[w].number>>[2] = txn[w].number
    OBVIOUS
  <2>3. <<txn[w].doc, txn[w].number>> \notin Of(txn[w].doc)
    BY <2>1, <2>2, DocumentsAssumption
  <2> QED
    BY <2>1, <2>3
<1>2. IInv => UploadsNeverConflict
  BY <1>1 DEF UploadsNeverConflict
<1> QED
  BY <1>2, Invariant, PTL

\* The steps that write versions.
LEMMA VersionWriters ==
    ASSUME Next, version' # version
    PROVE  \E w \in Workers : Upload(w) \/ RecordResult(w) \/ Decide(w)
BY DEF Next, Step, Begin, LockFound, Create, RefuseDocument, RefuseVersion, LockVersion, LockDoc,
       LockShared, LockCurrent, Update, Delete, DecisionRefused, Open, BeginSubmit, BeginUpload,
       BeginUpdate, BeginDelete, BeginDoc, BeginDecision, BeginCallback, BeginVersion, BeginCommand,
       Victim, Fail, Kill, Raise, Quiet

\* A version becomes verified only while it is current and its last scan was clean
\* (record_decision, under the locks of line 41).
THEOREM VerifiedSoundly == Spec => VerifiedOnlyWhenCleanAndCurrent
<1>1. ASSUME IInv, [Next]_vars, NEW v \in Versions, Exists(v), version[v].verification # "verified",
             version'[v].verification = "verified"
      PROVE  version[v].is_current /\ version[v].scan = "clean"
  <2>1. version' # version /\ Next
    BY <1>1 DEF vars
  <2>2. PICK w \in Workers : Upload(w) \/ RecordResult(w) \/ Decide(w)
    BY <2>1, VersionWriters
  <2>3. version[v] \in Version
    BY <1>1 DEF IInv, TypeOK, Exists
  <2>4. ~Upload(w)
    <3>1. SUFFICES ASSUME Upload(w)
                   PROVE  FALSE
      OBVIOUS
    <3>2. PICK d \in Docs : d = txn[w].doc
      BY <1>1, <3>1, UploadFacts DEF Upload
    <3>3. \/ version'[v] = version[v] \/ version'[v] = NewVersion
          \/ version'[v] = [version[v] EXCEPT !.is_current = FALSE]
      BY <3>1 DEF Upload
    <3>4. NewVersion.verification # "verified"
      BY DEF NewVersion, FirstStatus
    <3> QED
      BY <1>1, <2>3, <3>3, <3>4 DEF Version
  <2>5. ~RecordResult(w)
    BY <1>1, <2>3 DEF RecordResult, IInv, TypeOK, Version
  <2>6. Decide(w)
    BY <2>2, <2>4, <2>5
  <2>7. txn[w].version = v /\ txn[w].arg = "verified"
    BY <1>1, <2>3, <2>6 DEF Decide, IInv, TypeOK, Version
  <2>8. txn[w].row = version[v]
    BY <1>1, <2>6, <2>7 DEF Decide, IInv, Sound, Reads, VersionOps
  <2> QED
    BY <2>6, <2>7, <2>8 DEF Decide
<1>2. IInv /\ [Next]_vars =>
        \A v \in Versions :
            /\ Exists(v) /\ version[v].verification # "verified"
            /\ version'[v].verification = "verified"
            => version[v].is_current /\ version[v].scan = "clean"
  BY <1>1
<1> QED
  BY <1>2, Invariant, PTL DEF Spec, VerifiedOnlyWhenCleanAndCurrent

\* A version is added to an active document only, or to one created with it: no
\* upload slips in behind an archiving or a deletion (_validate_upload_policy).
THEOREM VersionsForActive == Spec => VersionsOnlyForActive
<1>1. ASSUME IInv, [Next]_vars, NEW v \in Versions, ~Exists(v), version'[v] # None
      PROVE  doc[v[1]] \in {"active", "absent"} /\ doc'[v[1]] = "active"
  <2>1. version' # version /\ Next
    BY <1>1 DEF vars, Exists
  <2>2. PICK w \in Workers : Upload(w) \/ RecordResult(w) \/ Decide(w)
    BY <2>1, VersionWriters
  <2>3. ~RecordResult(w) /\ ~Decide(w)
    <3>1. SUFFICES ASSUME RecordResult(w) \/ Decide(w)
                   PROVE  FALSE
      OBVIOUS
    <3>2. txn[w].version \in Versions /\ Exists(txn[w].version)
      BY <1>1, <3>1 DEF RecordResult, Decide, IInv, Sound, Placed, VersionOps
    <3>3. v # txn[w].version
      BY <1>1, <3>2
    <3> QED
      BY <1>1, <3>1, <3>3 DEF RecordResult, Decide, Exists, IInv, TypeOK
  <2>4. Upload(w)
    BY <2>2, <2>3
  <2>5. PICK d \in Docs : d = txn[w].doc
    BY <1>1, <2>4, UploadFacts DEF Upload
  <2>6. /\ \A u \in Versions : u # <<d, txn[w].number>> => (version[u] # None <=> version'[u] # None)
        /\ doc' = [doc EXCEPT ![d] = "active"] /\ doc[d] \in {"absent", "active"}
    BY <1>1, <2>4, <2>5, UploadWrites
  <2>7. v = <<d, txn[w].number>>
    BY <1>1, <2>6 DEF Exists
  <2> QED
    BY <1>1, <2>6, <2>7 DEF IInv, TypeOK
<1>2. IInv /\ [Next]_vars =>
        \A v \in Versions :
            ~Exists(v) /\ version'[v] # None =>
                doc[v[1]] \in {"active", "absent"} /\ doc'[v[1]] = "active"
  BY <1>1
<1> QED
  BY <1>2, Invariant, PTL DEF Spec, VersionsOnlyForActive
-----------------------------------------------------------------------------
\* Deadlocks.

\* An upload that waits for its document's current version, which another request
\* of the circle holds, waits for one that holds the version only.
LEMMA UploadWaits ==
    ASSUME IInv, NEW w \in Workers, NEW x \in Workers, txn[w].pc = "lock_current", WaitsFor(w, x),
           txn[x].pc \in {"lock_doc", "lock_shared"}
    PROVE  UploadAgainstVersion(w, x)
<1>1. Placed(w) /\ Placed(x) /\ w # x /\ txn[w].op \in Uploads
  BY DEF IInv, Sound, WaitsFor, Placed
<1>2. PICK v \in Current(txn[w].doc) : HoldsVersion(x, v)
  BY DEF WaitsFor
<1>3. /\ txn[x].op \in VersionOps /\ txn[x].version = v
      /\ txn[x].doc = v[1] /\ v[1] = txn[w].doc /\ v[1] \in Docs
  BY <1>1, <1>2 DEF HoldsVersion, Placed, Current, Of, Versions
<1>4. txn[x].pc # "lock_shared"
  BY <1>1, <1>3 DEF Placed, IInv, Exclusive, HoldsDoc
<1> QED
  BY <1>1, <1>2, <1>3, <1>4 DEF UploadAgainstVersion

\* A request that is waited for and waits itself holds a document or a version.
LEMMA InCircle ==
    ASSUME IInv, NEW u \in Workers, NEW w \in Workers, NEW x \in Workers, WaitsFor(u, w), WaitsFor(w, x)
    PROVE  txn[w].pc \in {"lock_doc", "lock_shared", "lock_current"}
<1>1. Placed(u) /\ Placed(w) /\ txn[u] \in Txn /\ txn[w] \in Txn
  BY DEF IInv, Sound, TypeOK
<1>2. txn[w].pc \in {"lock_version", "lock_doc", "lock_found", "lock_shared", "lock_current"}
  BY DEF WaitsFor
<1>3. HoldsShared(w) \/ (\E v : HoldsVersion(w, v)) \/ \E d : HoldsDoc(w, d)
  BY DEF WaitsFor
<1>4. txn[w].pc \notin {"lock_version", "lock_found"}
  BY <1>1, <1>3 DEF HoldsShared, HoldsVersion, HoldsDoc, Placed
<1> QED
  BY <1>2, <1>4

\* Every deadlock is between an upload, which locks the document and then its
\* current version, and a decision or scan result, which locks them in the other
\* order.  So archivings, deletions and requests on old versions are never rolled
\* back for one, and no longer circle exists.
THEOREM DeadlockSafety == Spec => []DeadlocksArePairs
<1>1. IInv => DeadlocksArePairs
  <2> SUFFICES ASSUME IInv, NEW w \in Workers, Deadlocked(w)
               PROVE  \E x \in Workers : UploadAgainstVersion(w, x) \/ UploadAgainstVersion(x, w)
    BY DEF DeadlocksArePairs
  <2>1. PICK S \in SUBSET Workers :
          /\ w \in S
          /\ \A x \in S : (\E y \in S : WaitsFor(x, y)) /\ (\E y \in S : WaitsFor(y, x))
    BY DEF Deadlocked
  <2>2. \A x \in S : txn[x].pc \in {"lock_doc", "lock_shared", "lock_current"}
    BY <2>1, InCircle
  <2>3. ASSUME NEW x \in S, txn[x].pc = "lock_doc"
        PROVE  \E y \in S : UploadAgainstVersion(y, x)
    <3>1. PICK y \in S : WaitsFor(y, x)
      BY <2>1
    <3>2. Placed(x)
      BY <2>3 DEF IInv, Sound
    <3>3. txn[y].pc = "lock_current"
      BY <2>2, <2>3, <3>1, <3>2 DEF WaitsFor, Placed, HoldsDoc, HoldsShared
    <3> QED
      BY <2>3, <3>1, <3>3, UploadWaits
  <2>4. ASSUME NEW x \in S, txn[x].pc = "lock_current"
        PROVE  \E y \in S : UploadAgainstVersion(x, y)
    <3>1. PICK y \in S : WaitsFor(x, y)
      BY <2>1
    <3>2. txn[y].pc # "lock_current"
      BY <2>4, <3>1 DEF WaitsFor, HoldsVersion, Uploads, VersionOps, Scans
    <3> QED
      BY <2>2, <2>4, <3>1, <3>2, UploadWaits
  <2>5. ASSUME NEW x \in S, txn[x].pc = "lock_shared" PROVE FALSE
    <3>1. PICK y \in S : WaitsFor(y, x)
      BY <2>1
    <3>2. CASE txn[y].pc = "lock_doc"
      <4>1. PICK z \in S : UploadAgainstVersion(z, y)
        BY <2>3, <3>2
      <4>2. Placed(z) /\ Owns(z) /\ HoldsDoc(x, txn[y].doc)
        BY <3>1, <3>2 DEF IInv, Sound, WaitsFor
      <4>3. HoldsDoc(z, txn[y].doc) /\ txn[y].doc \in Docs
        BY <4>1, <4>2 DEF UploadAgainstVersion, Placed, Owns, HoldsDoc
      <4>4. x = z
        BY <4>2, <4>3 DEF IInv, Exclusive
      <4> QED
        BY <2>5, <4>1, <4>4 DEF UploadAgainstVersion
    <3>3. CASE txn[y].pc = "lock_shared"
      BY <2>5, <3>1, <3>3 DEF WaitsFor, HoldsShared
    <3>4. CASE txn[y].pc = "lock_current"
      BY <2>5, <3>1, <3>4, UploadWaits DEF UploadAgainstVersion
    <3> QED
      BY <2>2, <3>2, <3>3, <3>4
  <2> QED
    BY <2>1, <2>2, <2>3, <2>4, <2>5
<1> QED
  BY <1>1, Invariant, PTL

-----------------------------------------------------------------------------
\* The histories of VersionHistory.

\* How the version rows change: one is added by an upload, or one that exists is
\* changed by a decision or a scan result, or none.
LEMMA ExistsStays ==
    ASSUME IInv, [Next]_vars, NEW v \in Versions, Exists(v)
    PROVE  Exists(v)'
<1>1. CASE version' = version
  BY <1>1 DEF Exists
<1>2. CASE version' # version
  <2>1. PICK w \in Workers : Upload(w) \/ RecordResult(w) \/ Decide(w)
    BY <1>2, VersionWriters DEF vars
  <2>2. CASE Upload(w)
    <3>1. PICK d \in Docs : d = txn[w].doc
      BY <2>2, UploadFacts DEF Upload
    <3>2. v # <<d, txn[w].number>>
      BY <2>2, <3>1, UploadWrites DEF Exists
    <3> QED
      BY <2>2, <3>1, <3>2, UploadWrites DEF Exists
  <2>3. CASE RecordResult(w) \/ Decide(w)
    <3>1. version[v] \in Version
      BY DEF IInv, TypeOK, Exists
    <3>2. txn[w].op \in Scans => txn[w].arg \in Results
      BY <2>3 DEF RecordResult, Decide, IInv, Sound, Placed
    <3>3. txn[w].op = "decide" => txn[w].arg \in Decisions
      BY DEF IInv, Sound, Placed
    <3>4. CASE RecordResult(w)
      <4>1. [version[v] EXCEPT !.scan = txn[w].arg] \in Version
        BY <3>1, <3>2, <3>4 DEF RecordResult, Version
      <4> QED
        BY <3>4, <4>1, NoneAssumption DEF RecordResult, IInv, TypeOK, Exists
    <3>5. CASE Decide(w)
      <4>1. [version[v] EXCEPT !.verification = txn[w].arg] \in Version
        BY <3>1, <3>3, <3>5 DEF Decide, Version
      <4> QED
        BY <3>5, <4>1, NoneAssumption DEF Decide, IInv, TypeOK, Exists
    <3> QED
      BY <2>3, <3>4, <3>5
  <2> QED
    BY <2>1, <2>2, <2>3
<1> QED
  BY <1>1, <1>2
\* An upload's number follows those in use.
LEMMA NumberFollows ==
    ASSUME IInv, NoGaps, NEW w \in Workers, LockCurrent(w), txn'[w].pc = "work"
    PROVE  \A j \in 1..(txn'[w].number - 1) : Exists(<<txn[w].doc, j>>)
<1> DEFINE d == txn[w].doc
           next == IF Of(d) = {} THEN 1 ELSE (CHOOSE v \in Newest(d) : TRUE)[2] + 1
<1>1. d \in Docs /\ txn[w] \in Txn
  BY DEF LockCurrent, IInv, Sound, Owns, TypeOK
<1>2. txn'[w].number = next
  <2>1. \/ txn'[w] = [txn[w] EXCEPT !.pc = "work", !.number = next]
        \/ \E v : txn'[w] = [txn[w] EXCEPT !.pc = "work", !.number = next,
                                            !.version = v, !.row = version[v]]
    BY DEF LockCurrent, Goto, IInv, TypeOK
  <2> HIDE DEF next
  <2> QED
    BY <1>1, <2>1 DEF Txn
<1>3. CASE Of(d) = {}
  BY <1>2, <1>3
<1>4. CASE Of(d) # {}
  <2>1. Newest(d) # {}
    BY <1>1, <1>4, HasCurrent DEF IInv
  <2> DEFINE v == CHOOSE u \in Newest(d) : TRUE
  <2>2. v \in Newest(d)
    BY <2>1
  <2> HIDE DEF v
  <2>3. v = <<d, v[2]>> /\ v[2] \in 1..MaxVersions /\ Exists(v)
    BY <2>2 DEF Newest, Of, Versions
  <2>4. \A j \in 1..v[2] : Exists(<<d, j>>)
    BY <1>1, <2>3 DEF NoGaps
  <2>5. next = v[2] + 1
    BY <1>4 DEF v
  <2> HIDE DEF next
  <2>6. next - 1 = v[2]
    BY <2>3, <2>5, DocumentsAssumption
  <2> QED
    BY <1>2, <2>4, <2>6
<1> QED
  BY <1>3, <1>4

\* What a step makes of one request, as far as Follows speaks of it.
LEMMA Moves ==
    ASSUME IInv, [Next]_vars, NEW w \in Workers
    PROVE  \/ txn'[w].pc \notin {"lock_shared", "lock_current", "work"}
           \/ txn'[w].op \in VersionOps
           \/ /\ txn[w].pc \in {"lock_shared", "lock_current", "work"}
              /\ txn'[w].op = txn[w].op /\ txn'[w].doc = txn[w].doc /\ txn'[w].lifecycle = txn[w].lifecycle
              /\ \/ txn'[w].pc # "work"
                 \/ txn'[w].op \notin Uploads
                 \/ txn[w].pc = "work" /\ txn'[w].number = txn[w].number
                 \/ LockCurrent(w)
           \/ txn'[w].pc = "lock_shared" /\ txn'[w].lifecycle # "deleted"
<1> DEFINE P == \/ txn'[w].pc \notin {"lock_shared", "lock_current", "work"}
                \/ txn'[w].op \in VersionOps
                \/ /\ txn[w].pc \in {"lock_shared", "lock_current", "work"}
                   /\ txn'[w].op = txn[w].op /\ txn'[w].doc = txn[w].doc /\ txn'[w].lifecycle = txn[w].lifecycle
                   /\ \/ txn'[w].pc # "work"
                      \/ txn'[w].op \notin Uploads
                      \/ txn[w].pc = "work" /\ txn'[w].number = txn[w].number
                      \/ LockCurrent(w)
                \/ txn'[w].pc = "lock_shared" /\ txn'[w].lifecycle # "deleted"
<1>1. txn \in [Workers -> Txn] /\ txn[w] \in Txn
  BY DEF IInv, TypeOK
<1>2. txn'[w] = txn[w] => P
  OBVIOUS
<1>3. \A x \in Workers \ {w} : \A t : Goto(x, t) => txn'[w] = txn[w]
  BY <1>1 DEF Goto
<1>4. \A t : Goto(w, t) => txn'[w] = t
  BY <1>1 DEF Goto
<1>5. ASSUME NEW x \in Workers, NEW t, Goto(x, t), t.pc \notin {"lock_shared", "lock_current", "work"} PROVE P
  BY <1>2, <1>3, <1>4, <1>5
<1>6. Goto(w, Idle) => P
  BY <1>4 DEF Idle
<1>7. ASSUME NEW S, ScanNext(S) PROVE P
  BY <1>5, <1>7, DocumentsAssumption DEF ScanNext, Idle
<1>8. ASSUME NEW x \in Workers \ {w}, Step(x) PROVE P
  <2>1. CASE RecordResult(x)
    BY <1>2, <1>3, <1>7, <2>1 DEF RecordResult
  <2>2. CASE ~RecordResult(x)
    <3>1. \E t : Goto(x, t)
      BY <1>8, <2>2 DEF Step, LockFound, Create, RefuseDocument, RefuseVersion, LockVersion, LockDoc,
         LockShared, LockCurrent, Upload, Update, Delete, Decide, DecisionRefused, Open
    <3> QED
      BY <1>2, <1>3, <3>1
  <2> QED
    BY <2>1, <2>2
<1>9. ASSUME NEW x \in Workers, Begin(x) PROVE P
  <2>1. ASSUME NEW op, NEW d, NEW a, BeginDoc(x, op, d, a) PROVE P
    BY <1>5, <2>1 DEF BeginDoc, Idle
  <2>2. ASSUME NEW op, NEW v, NEW a, BeginVersion(x, op, v, a) PROVE P
    BY <1>5, <2>2 DEF BeginVersion, Idle
  <2>3. CASE BeginSubmit(x)
    BY <1>5, <2>3 DEF BeginSubmit, Idle
  <2>4. ASSUME NEW d \in Docs, BeginUpload(x, d) \/ BeginUpdate(x, d) \/ BeginDelete(x, d) PROVE P
    BY <2>1, <2>4 DEF BeginUpload, BeginUpdate, BeginDelete
  <2>5. ASSUME NEW v \in Versions, BeginDecision(x, v) \/ BeginCallback(x, v) PROVE P
    BY <2>2, <2>5 DEF BeginDecision, BeginCallback
  <2> QED
    BY <1>9, <2>3, <2>4, <2>5 DEF Begin
<1>10. ASSUME NEW x \in Workers, Victim(x) \/ Fail(x) \/ Kill(x) PROVE P
  BY <1>5, <1>10 DEF Victim, Fail, Kill, Raise, Idle
<1>11. ASSUME NEW d \in Docs, Goto(w, Submitting(w, d)) PROVE P
  BY <1>1, <1>4, <1>11 DEF Submitting, Txn
<1>12. CASE LockFound(w)
  <2>1. \/ Goto(w, Submitting(w, txn[w].doc)) \/ Goto(w, Idle)
        \/ Goto(w, [Idle EXCEPT !.pc = "create", !.op = "submit"])
        \/ \E e \in ActiveDocs : Goto(w, [txn[w] EXCEPT !.doc = e])
    BY <1>12 DEF LockFound
  <2>2. txn[w].pc = "lock_found" /\ txn[w].doc \in Docs
    BY <1>12 DEF LockFound, IInv, Sound, Placed
  <2>3. ASSUME NEW e, Goto(w, [txn[w] EXCEPT !.doc = e]) PROVE P
    BY <1>1, <1>4, <2>2, <2>3 DEF Txn
  <2>4. Goto(w, [Idle EXCEPT !.pc = "create", !.op = "submit"]) => P
    BY <1>4 DEF Idle
  <2> QED
    BY <1>6, <1>11, <2>1, <2>2, <2>3, <2>4
<1>13. CASE \E d \in Docs : Create(w, d)
  BY <1>11, <1>13 DEF Create
<1>14. CASE RefuseDocument(w) \/ RefuseVersion(w) \/ Update(w) \/ Delete(w) \/ Decide(w) \/ DecisionRefused(w)
  BY <1>6, <1>14 DEF RefuseDocument, RefuseVersion, Update, Delete, Decide, DecisionRefused
<1>15. CASE LockVersion(w)
  <2>1. txn'[w] = [txn[w] EXCEPT !.pc = "lock_doc", !.row = version[txn[w].version]]
    BY <1>4, <1>15 DEF LockVersion
  <2> QED
    BY <1>1, <2>1 DEF Txn
<1>16. CASE LockDoc(w)
  <2>1. \/ Goto(w, Idle)
        \/ /\ txn'[w] = [txn[w] EXCEPT !.pc = "lock_shared", !.held = {txn[w].doc}, !.lifecycle = doc[txn[w].doc]]
           /\ doc[txn[w].doc] # "deleted" \/ txn[w].op \in VersionOps
    BY <1>4, <1>16 DEF LockDoc
  <2> QED
    BY <1>1, <1>6, <2>1 DEF Txn
<1>17. CASE LockShared(w)
  <2>1. \/ Goto(w, Idle)
        \/ txn'[w] = [txn[w] EXCEPT !.pc = "work"] /\ txn[w].op \notin Uploads
        \/ txn'[w] = [txn[w] EXCEPT !.pc = "lock_current"]
    BY <1>4, <1>17 DEF LockShared
  <2> QED
    BY <1>1, <1>6, <1>17, <2>1 DEF Txn, LockShared
<1>18. CASE LockCurrent(w)
  <2> DEFINE next == IF Of(txn[w].doc) = {} THEN 1 ELSE (CHOOSE v \in Newest(txn[w].doc) : TRUE)[2] + 1
  <2>1. \/ txn'[w] = [txn[w] EXCEPT !.pc = "work", !.number = next]
        \/ \E v : txn'[w] = [txn[w] EXCEPT !.pc = "work", !.number = next,
                                            !.version = v, !.row = version[v]]
    BY <1>4, <1>18 DEF LockCurrent
  <2>2. txn[w].pc = "lock_current"
    BY <1>18 DEF LockCurrent
  <2> HIDE DEF next
  <2> QED
    BY <1>1, <1>18, <2>1, <2>2 DEF Txn
<1>19. CASE Upload(w)
  <2>1. \/ Goto(w, Idle)
        \/ \E d, v, o : Goto(w, [Idle EXCEPT !.pc = "open", !.doc = d, !.version = v, !.op = o])
    BY <1>19 DEF Upload
  <2> QED
    BY <1>4, <1>6, <2>1 DEF Idle
<1>20. CASE \E r \in Verdicts : Open(w, r)
  <2>1. PICK a, e : Goto(w, Idle) \/ txn'[w] = [txn[w] EXCEPT !.pc = "lock_version", !.doc = e, !.arg = a]
    BY <1>4, <1>20 DEF Open
  <2> QED
    BY <1>1, <1>6, <2>1 DEF Txn
<1>21. CASE RecordResult(w)
  BY <1>6, <1>7, <1>21 DEF RecordResult
<1>22. CASE BeginCommand
  BY <1>7, <1>22 DEF BeginCommand
<1>23. CASE UNCHANGED vars
  BY <1>2, <1>23 DEF vars
<1>24. ASSUME NEW x \in Workers, Step(x) PROVE P
  BY <1>8, <1>12, <1>13, <1>14, <1>15, <1>16, <1>17, <1>18, <1>19, <1>20, <1>21, <1>24 DEF Step
<1> QED
  BY <1>9, <1>10, <1>22, <1>23, <1>24 DEF Next
LEMMA HistoryInitially == Init => HistoryInv
<1> SUFFICES ASSUME Init
             PROVE  HistoryInv
  OBVIOUS
<1>1. \A d \in Docs : \A k \in 1..MaxVersions : ~Exists(<<d, k>>)
  BY DEF Init, Exists, Versions
<1>2. \A w \in Workers : Follows(w)
  BY DEF Init, Follows, Idle
<1> QED
  BY <1>1, <1>2 DEF HistoryInv, NoGaps

LEMMA HistoryPreserved == IInv /\ HistoryInv /\ [Next]_vars => HistoryInv'
<1> SUFFICES ASSUME IInv, HistoryInv, [Next]_vars
             PROVE  HistoryInv'
  OBVIOUS
<1>1. ASSUME NEW d \in Docs, NEW k \in 1..MaxVersions, Exists(<<d, k>>)', NEW j \in 1..k
      PROVE  Exists(<<d, j>>)'
  <2>1. <<d, k>> \in Versions /\ <<d, j>> \in Versions
    BY DocumentsAssumption DEF Versions
  <2>2. CASE Exists(<<d, k>>)
    BY <2>1, <2>2, ExistsStays DEF HistoryInv, NoGaps
  <2>3. CASE ~Exists(<<d, k>>)
    <3>1. PICK w \in Workers : Upload(w) \/ RecordResult(w) \/ Decide(w)
      BY <1>1, <2>3, VersionWriters DEF vars, Exists
    <3>2. ~RecordResult(w) /\ ~Decide(w)
      <4>1. RecordResult(w) \/ Decide(w) => txn[w].version \in Versions /\ Exists(txn[w].version)
        BY DEF RecordResult, Decide, IInv, Sound, Placed, VersionOps
      <4> QED
        BY <1>1, <2>1, <2>3, <4>1 DEF RecordResult, Decide, Exists, IInv, TypeOK
    <3>3. PICK e \in Docs : e = txn[w].doc
      BY <3>1, <3>2, UploadFacts DEF Upload
    <3>4. <<d, k>> = <<e, txn[w].number>>
      <4>1. \A v \in Versions : v # <<e, txn[w].number>> => (version[v] # None <=> version'[v] # None)
        BY <3>1, <3>2, <3>3, UploadWrites
      <4> QED
        BY <1>1, <2>1, <2>3, <4>1 DEF Exists
    <3>5. CASE j = k
      BY <1>1, <3>5
    <3>6. CASE j # k
      <4>1. j \in 1..(txn[w].number - 1)
        BY <3>4, <3>6, DocumentsAssumption
      <4>2. Exists(<<d, j>>)
        BY <3>1, <3>2, <3>3, <3>4, <4>1 DEF HistoryInv, Follows, Upload
      <4> QED
        BY <2>1, <4>2, ExistsStays
    <3> QED
      BY <3>5, <3>6
  <2> QED
    BY <2>2, <2>3
<1>2. ASSUME NEW w \in Workers, txn'[w].op \notin VersionOps,
             txn'[w].pc \in {"lock_shared", "lock_current", "work"}
      PROVE  txn'[w].lifecycle # "deleted"
  BY <1>2, Moves DEF HistoryInv, Follows
<1>3. ASSUME NEW w \in Workers, txn'[w].op \in Uploads, txn'[w].pc = "work",
             NEW j \in 1..(txn'[w].number - 1)
      PROVE  version'[<<txn'[w].doc, j>>] # None
  <2>1. /\ txn'[w].doc = txn[w].doc /\ txn'[w].op = txn[w].op
        /\ \/ txn[w].pc = "work" /\ txn'[w].number = txn[w].number
           \/ LockCurrent(w)
    BY <1>3, Moves DEF Uploads, VersionOps, Scans
  <2>2. Exists(<<txn[w].doc, j>>)
    BY <1>3, <2>1, NumberFollows DEF HistoryInv, Follows
  <2>3. txn[w].doc \in Docs /\ txn'[w].number \in 0..(MaxVersions + 1)
    BY <1>3, <2>1, Preserved DEF IInv, Sound, Owns, TypeOK, Txn, LockCurrent
  <2>4. <<txn[w].doc, j>> \in Versions
    BY <1>3, <2>3, DocumentsAssumption DEF Versions
  <2>5. version'[<<txn[w].doc, j>>] # None
    BY <2>2, <2>4, ExistsStays DEF Exists
  <2> QED
    BY <2>1, <2>5
<1>4. NoGaps'
  BY <1>1 DEF NoGaps
<1>5. \A w \in Workers : Follows(w)'
  BY <1>2, <1>3 DEF Follows, Exists
<1> QED
  BY <1>4, <1>5 DEF HistoryInv

\* A document's versions are numbered from one without a gap, however many uploads
\* run beside each other and whichever of them fail.
THEOREM Unbroken == Spec => []NoGaps
<1>1. HistoryInv => NoGaps
  BY DEF HistoryInv
<1> QED
  BY <1>1, HistoryInitially, HistoryPreserved, Invariant, PTL DEF Spec
Entries == [verification : {FirstStatus} \cup Decisions, scan : {"pending"} \cup Results]

\* The last number of a document is the one up to which its versions exist.
Last(d) == CHOOSE n \in 0..MaxVersions : \A k \in 1..MaxVersions : Exists(<<d, k>>) <=> k <= n

LEMMA ExistingUpTo ==
    ASSUME NEW d, NEW n \in 0..MaxVersions
    PROVE  /\ (\A k \in 1..MaxVersions : Exists(<<d, k>>) <=> k <= n) => Existing(d) = 1..n
           /\ (\A k \in 1..MaxVersions : Exists(<<d, k>>)' <=> k <= n) => Existing(d)' = 1..n
<1>1. ASSUME \A k \in 1..MaxVersions : Exists(<<d, k>>) <=> k <= n
      PROVE  Existing(d) = 1..n
  <2> DEFINE P == Existing(d)
  <2>1. P \subseteq 1..MaxVersions /\ \A k \in 1..MaxVersions : k \in P <=> k <= n
    BY <1>1 DEF Existing, Exists
  <2> HIDE DEF P
  <2>2. \A k \in Int : k \in P <=> k \in 1..n
    BY <2>1, DocumentsAssumption
  <2>3. P \subseteq Int
    BY <2>1
  <2>4. P = 1..n
    BY <2>2, <2>3, 1..n \subseteq Int, Zenon
  <2> QED
    BY <2>4 DEF P
<1>2. ASSUME \A k \in 1..MaxVersions : Exists(<<d, k>>)' <=> k <= n
      PROVE  Existing(d)' = 1..n
  <2> DEFINE P == Existing(d)'
  <2>1. P \subseteq 1..MaxVersions /\ \A k \in 1..MaxVersions : k \in P <=> k <= n
    BY <1>2 DEF Existing, Exists
  <2> HIDE DEF P
  <2>2. \A k \in Int : k \in P <=> k \in 1..n
    BY <2>1, DocumentsAssumption
  <2>3. P \subseteq Int
    BY <2>1
  <2>4. P = 1..n
    BY <2>2, <2>3, 1..n \subseteq Int, Zenon
  <2> QED
    BY <2>4 DEF P
<1> QED
  BY <1>1, <1>2

LEMMA LastOnly ==
    ASSUME NEW d, NEW n \in 0..MaxVersions
    PROVE  /\ (\A k \in 1..MaxVersions : Exists(<<d, k>>) <=> k <= n) => Last(d) = n
           /\ (\A k \in 1..MaxVersions : Exists(<<d, k>>)' <=> k <= n) => Last(d)' = n
<1>1. ASSUME NEW P, NEW m \in 0..MaxVersions,
             \A k \in 1..MaxVersions : k \in P <=> k <= n,
             \A k \in 1..MaxVersions : k \in P <=> k <= m
      PROVE  m = n
  BY <1>1, DocumentsAssumption
<1>2. ASSUME \A k \in 1..MaxVersions : Exists(<<d, k>>) <=> k <= n
      PROVE  Last(d) = n
  <2> DEFINE P == {k \in 1..MaxVersions : Exists(<<d, k>>)}
  <2>1. /\ Last(d) \in 0..MaxVersions
        /\ \A k \in 1..MaxVersions : Exists(<<d, k>>) <=> k <= Last(d)
    BY <1>2 DEF Last
  <2>2. /\ \A k \in 1..MaxVersions : k \in P <=> k <= n
        /\ \A k \in 1..MaxVersions : k \in P <=> k <= Last(d)
    BY <1>2, <2>1
  <2> HIDE DEF P
  <2> QED
    BY <1>1, <2>1, <2>2
<1>3. ASSUME \A k \in 1..MaxVersions : Exists(<<d, k>>)' <=> k <= n
      PROVE  Last(d)' = n
  <2> DEFINE P == {k \in 1..MaxVersions : Exists(<<d, k>>)'}
  <2>1. /\ Last(d)' \in 0..MaxVersions
        /\ \A k \in 1..MaxVersions : Exists(<<d, k>>)' <=> k <= Last(d)'
    BY <1>3 DEF Last
  <2>2. /\ \A k \in 1..MaxVersions : k \in P <=> k <= n
        /\ \A k \in 1..MaxVersions : k \in P <=> k <= Last(d)'
    BY <1>3, <2>1
  <2> HIDE DEF P
  <2> QED
    BY <1>1, <2>1, <2>2
<1> QED
  BY <1>2, <1>3

\* It is the newest version's number; a document without versions has the last number 0.
LEMMA LastIs ==
    ASSUME IInv, NoGaps, NEW d \in Docs
    PROVE  /\ Last(d) \in 0..MaxVersions
           /\ \A k \in 1..MaxVersions : Exists(<<d, k>>) <=> k <= Last(d)
           /\ Existing(d) = 1..Last(d)
<1>1. \A k \in 1..MaxVersions : <<d, k>> \in Versions /\ (<<d, k>> \in Of(d) <=> Exists(<<d, k>>))
  BY DEF Versions, Of
<1>2. \E n \in 0..MaxVersions : \A k \in 1..MaxVersions : Exists(<<d, k>>) <=> k <= n
  <2>1. CASE Of(d) = {}
    <3>1. 0 \in 0..MaxVersions
      BY DocumentsAssumption
    <3>2. \A k \in 1..MaxVersions : ~Exists(<<d, k>>) /\ ~(k <= 0)
      BY <1>1, <2>1, DocumentsAssumption
    <3> QED
      BY <3>1, <3>2
  <2>2. CASE Of(d) # {}
    <3>1. PICK v \in Newest(d) : TRUE
      BY <2>2, HasCurrent DEF IInv
    <3>2. v = <<d, v[2]>> /\ v[2] \in 1..MaxVersions /\ Exists(v) /\ \A u \in Of(d) : u[2] <= v[2]
      BY <3>1 DEF Newest, Of, Versions
    <3>3. \A k \in 1..v[2] : Exists(<<d, k>>)
      BY <3>2 DEF NoGaps
    <3>4. \A k \in 1..MaxVersions : Exists(<<d, k>>) => k <= v[2]
      BY <1>1, <3>2
    <3> QED
      BY <3>2, <3>3, <3>4, DocumentsAssumption
  <2> QED
    BY <2>1, <2>2
<1>3. Last(d) \in 0..MaxVersions /\ \A k \in 1..MaxVersions : Exists(<<d, k>>) <=> k <= Last(d)
  BY <1>2, LastOnly
<1> QED
  BY <1>3, ExistingUpTo

\* Functions on 1..n are sequences of length n.
LEMMA FunctionIsSequence ==
    ASSUME NEW S, NEW n \in Nat, NEW s \in [1..n -> S]
    PROVE  s \in Seq(S) /\ Len(s) = n
<1>1. s \in Seq(S)
  BY SeqDef
<1>2. Len(s) \in Nat /\ 1..Len(s) = 1..n
  BY <1>1, LenProperties
<1>3. Len(s) = n
  BY <1>2
<1> QED
  BY <1>1, <1>3

\* A history lists the entries of the versions that exist.
LEMMA HistoryOf ==
    ASSUME NEW d \in Docs
    PROVE  /\ Histories[d] = [n \in Existing(d) |-> Entry(<<d, n>>)]
           /\ Histories'[d] = [n \in Existing(d)' |-> Entry(<<d, n>>)']
BY DEF Histories

LEMMA EntryTyped ==
    ASSUME IInv, NEW v \in Versions, Exists(v)
    PROVE  Entry(v) \in Entries
<1>1. version[v] \in Version
  BY DEF IInv, TypeOK, Exists
<1> QED
  BY <1>1 DEF Entry, Entries, Version

\* What a document's history is.
LEMMA HistoryIs ==
    ASSUME IInv, NoGaps, NEW d \in Docs
    PROVE  /\ Histories[d] \in Seq(Entries) /\ Len(Histories[d]) = Last(d)
           /\ Last(d) \in 0..MaxVersions
           /\ \A k \in 1..Last(d) : Histories[d][k] = Entry(<<d, k>>)
<1>1. Last(d) \in Nat /\ Last(d) \in 0..MaxVersions
  BY LastIs, DocumentsAssumption
<1>2. ASSUME NEW k \in 1..Last(d)
      PROVE  Entry(<<d, k>>) \in Entries
  <2>1. k \in 1..MaxVersions /\ <<d, k>> \in Versions /\ Exists(<<d, k>>)
    BY <1>1, LastIs, DocumentsAssumption DEF Versions
  <2> QED
    BY <2>1, EntryTyped
<1>2a. Existing(d) = 1..Last(d)
  BY LastIs
<1>3. Histories[d] = [k \in 1..Last(d) |-> Entry(<<d, k>>)]
  BY <1>2a, HistoryOf
<1>4. Histories[d] \in [1..Last(d) -> Entries]
  BY <1>2, <1>3
<1> QED
  BY <1>1, <1>3, <1>4, FunctionIsSequence

\* A document none of whose versions changes what a history shows keeps its history.
LEMMA HistoryKept ==
    ASSUME IInv, NoGaps, NEW d \in Docs,
           \A k \in 1..MaxVersions : /\ version'[<<d, k>>] # None <=> Exists(<<d, k>>)
                                     /\ Exists(<<d, k>>) => Entry(<<d, k>>)' = Entry(<<d, k>>)
    PROVE  Last(d)' = Last(d) /\ Histories'[d] = Histories[d]
<1>1. Last(d)' = Last(d) /\ Existing(d)' = 1..Last(d)
  BY LastIs, LastOnly, ExistingUpTo DEF Exists
<1>2. Histories'[d] = [k \in 1..Last(d) |-> Entry(<<d, k>>)']
  BY <1>1 DEF Histories
<1>2a. Existing(d) = 1..Last(d)
  BY LastIs
<1>3. Histories[d] = [k \in 1..Last(d) |-> Entry(<<d, k>>)]
  BY <1>2a, HistoryOf
<1>4. \A k \in 1..Last(d) : Entry(<<d, k>>)' = Entry(<<d, k>>)
  BY LastIs, DocumentsAssumption
<1> QED
  BY <1>1, <1>2, <1>3, <1>4

LEMMA HistoriesKept ==
    ASSUME \A d \in Docs : Histories'[d] = Histories[d]
    PROVE  Histories' = Histories
BY DEF Histories
\* An upload that commits appends a version to an active document, or to a new one.
LEMMA UploadAdds ==
    ASSUME IInv, HistoryInv, NEW w \in Workers, Upload(w)
    PROVE  \E d \in Docs : History!Add(d)
<1>1. PICK d \in Docs : d = txn[w].doc
  BY UploadFacts DEF Upload
<1>2. PICK n \in 1..(MaxVersions + 1) : n = txn[w].number
  BY UploadFacts DEF Upload
<1>3. /\ <<d, n>> \in Versions /\ version'[<<d, n>>] = NewVersion
      /\ \A v \in Versions : v # <<d, n>> =>
            /\ version[v] # None <=> version'[v] # None
            /\ v # txn[w].version => version'[v] = version[v]
            /\ v = txn[w].version => /\ version'[v] = [version[v] EXCEPT !.is_current = FALSE]
                                     /\ version[v] \in Version
      /\ doc' = [doc EXCEPT ![d] = "active"] /\ doc[d] \in {"absent", "active"}
  BY <1>1, <1>2, UploadWrites
<1>4. n \in 1..MaxVersions /\ n - 1 \in 0..MaxVersions /\ n \in 0..MaxVersions
  BY <1>2, <1>3, DocumentsAssumption DEF Versions
<1>5. \A e \in Docs : \A k \in 1..MaxVersions : <<e, k>> \in Versions
  BY DEF Versions
<1>6. ASSUME NEW k \in 1..MaxVersions
      PROVE  Exists(<<d, k>>) <=> k <= n - 1
  <2>1. Exists(<<d, k>>) => k < n
    <3>1. Exists(<<d, k>>) => <<d, k>> \in Of(d)
      BY <1>5 DEF Of
    <3> QED
      BY <1>1, <1>2, <3>1, UploadFacts DEF Upload
  <2>2. k \in 1..(n - 1) => Exists(<<d, k>>)
    BY <1>1, <1>2 DEF HistoryInv, Follows, Upload
  <2> QED
    BY <1>4, <2>1, <2>2, DocumentsAssumption
<1>7. Last(d) = n - 1
  BY <1>4, <1>6, LastOnly
<1>8. ASSUME NEW v \in Versions, v # <<d, n>>, Exists(v)
      PROVE  Entry(v)' = Entry(v)
  BY <1>3, <1>8 DEF Entry, Version, Exists
<1>9. \A k \in 1..MaxVersions : version'[<<d, k>>] # None <=> k <= n
  <2> SUFFICES ASSUME NEW k \in 1..MaxVersions
               PROVE  version'[<<d, k>>] # None <=> k <= n
    OBVIOUS
  <2>1. CASE k = n
    BY <1>3, <2>1, NewTyped
  <2>2. CASE k # n
    <3>1. version'[<<d, k>>] # None <=> Exists(<<d, k>>)
      BY <1>3, <1>5, <2>2 DEF Exists
    <3> QED
      BY <1>4, <1>6, <2>2, <3>1
  <2> QED
    BY <2>1, <2>2
<1>10. Last(d)' = n /\ Existing(d)' = 1..n
  BY <1>4, <1>9, LastOnly, ExistingUpTo DEF Exists
<1>11. Entry(<<d, n>>)' = History!NewEntry /\ History!NewEntry \in Entries
  BY <1>3 DEF Entry, NewVersion, History!NewEntry, Entries
<1>12. Histories'[d] = Append(Histories[d], History!NewEntry)
  <2> DEFINE old == Histories[d]
             new == Histories'[d]
  <2>1. /\ old \in Seq(Entries) /\ Len(old) = n - 1
        /\ \A k \in 1..(n - 1) : old[k] = Entry(<<d, k>>)
    BY <1>7, HistoryIs DEF HistoryInv
  <2>2. new = [k \in 1..n |-> Entry(<<d, k>>)']
    BY <1>10 DEF Histories
  <2> HIDE DEF old, new
  <2>3. ASSUME NEW k \in 1..n
        PROVE  new[k] \in Entries /\ (k # n => new[k] = old[k]) /\ (k = n => new[k] = History!NewEntry)
    <3>1. CASE k = n
      BY <1>11, <2>2, <3>1
    <3>2. CASE k # n
      <4>1. k \in 1..(n - 1) /\ k \in 1..MaxVersions
        BY <1>4, <3>2, DocumentsAssumption
      <4>2. Entry(<<d, k>>)' = Entry(<<d, k>>)
        BY <1>5, <1>6, <1>8, <3>2, <4>1
      <4>3. old[k] \in Entries
        BY <2>1, <4>1, ElementOfSeq
      <4> QED
        BY <2>1, <2>2, <3>2, <4>1, <4>2, <4>3
    <3> QED
      BY <3>1, <3>2
  <2>4. new \in [1..n -> Entries]
    BY <2>2, <2>3
  <2>5. new \in Seq(Entries) /\ Len(new) = n
    BY <1>4, <2>4, FunctionIsSequence
  <2> DEFINE app == Append(old, History!NewEntry)
  <2>6. /\ app \in Seq(Entries) /\ Len(app) = n
        /\ \A k \in 1..(n - 1) : app[k] = old[k]
        /\ app[n] = History!NewEntry
    <3>1. /\ app \in Seq(Entries) /\ Len(app) = (n - 1) + 1
          /\ \A k \in 1..(n - 1) : app[k] = old[k]
          /\ app[(n - 1) + 1] = History!NewEntry
      BY <1>11, <2>1, AppendProperties
    <3>2. (n - 1) + 1 = n
      BY <1>4
    <3> QED
      BY <3>1, <3>2
  <2> HIDE DEF app
  <2>7. \A k \in 1..Len(new) : new[k] = app[k]
    BY <1>4, <2>3, <2>5, <2>6
  <2>8. new = app
    BY <2>5, <2>6, <2>7, SeqEqual
  <2> QED
    BY <2>8 DEF new, old, app
<1>13. ASSUME NEW e \in Docs, e # d
       PROVE  Histories'[e] = Histories[e]
  <2>1. \A k \in 1..MaxVersions : <<e, k>> # <<d, n>>
    BY <1>13
  <2> QED
    BY <1>3, <1>5, <1>8, <2>1, HistoryKept DEF HistoryInv, Exists
<1>14. Histories' = [Histories EXCEPT ![d] = Append(@, History!NewEntry)]
  BY <1>12, <1>13 DEF Histories
<1> QED
  BY <1>3, <1>14 DEF History!Add

\* H with entry n of its history of d replaced by e.
Rewritten(H, d, n, e) == [H EXCEPT ![d] = [@ EXCEPT ![n] = e]]

\* A write of the decision or the scan result of one existing version.
LEMMA EntryWrite ==
    ASSUME IInv, NoGaps, NEW d \in Docs, NEW n \in 1..MaxVersions, Exists(<<d, n>>),
           NEW r \in Version, version' = [version EXCEPT ![<<d, n>>] = r]
    PROVE  /\ n \in 1..Len(Histories[d]) /\ Histories[d][n] = Entry(<<d, n>>)
           /\ Histories' = Rewritten(Histories, d, n, [verification |-> r.verification, scan |-> r.scan])
<1> DEFINE x == [verification |-> r.verification, scan |-> r.scan]
<1>1. \A e \in Docs : \A k \in 1..MaxVersions : <<e, k>> \in Versions
  BY DEF Versions
<1>2. /\ Len(Histories[d]) = Last(d) /\ Last(d) \in 0..MaxVersions
      /\ \A k \in 1..Last(d) : Histories[d][k] = Entry(<<d, k>>)
      /\ n \in 1..Last(d)
  BY HistoryIs, LastIs, DocumentsAssumption
<1>3. \A e \in Docs : \A k \in 1..MaxVersions :
         <<e, k>> # <<d, n>> => version'[<<e, k>>] = version[<<e, k>>]
  BY <1>1 DEF IInv, TypeOK
<1>4. version'[<<d, n>>] = r /\ r # None
  BY <1>1, NoneAssumption DEF IInv, TypeOK
<1>5. \A e \in Docs : \A k \in 1..MaxVersions : version'[<<e, k>>] # None <=> Exists(<<e, k>>)
  BY <1>3, <1>4 DEF Exists
<1>6. ASSUME NEW e \in Docs, e # d
      PROVE  Histories'[e] = Histories[e]
  <2>1. \A k \in 1..MaxVersions : <<e, k>> # <<d, n>>
    BY <1>6
  <2>2. \A k \in 1..MaxVersions : Entry(<<e, k>>)' = Entry(<<e, k>>)
    BY <1>3, <2>1 DEF Entry
  <2> QED
    BY <1>5, <2>2, HistoryKept
<1>7. Last(d)' = Last(d) /\ Existing(d)' = 1..Last(d)
  BY <1>2, <1>5, LastIs, LastOnly, ExistingUpTo DEF Exists
<1>8. Histories'[d] = [Histories[d] EXCEPT ![n] = x]
  <2>1. Histories'[d] = [k \in 1..Last(d) |-> Entry(<<d, k>>)']
    BY <1>7 DEF Histories
  <2>1a. Existing(d) = 1..Last(d)
    BY LastIs
  <2>2. Histories[d] = [k \in 1..Last(d) |-> Entry(<<d, k>>)]
    BY <2>1a, HistoryOf
  <2>3. Entry(<<d, n>>)' = x
    BY <1>4 DEF Entry
  <2>4. \A k \in 1..Last(d) : k # n => Entry(<<d, k>>)' = Entry(<<d, k>>)
    BY <1>2, <1>3, DocumentsAssumption DEF Entry
  <2> DEFINE old == Histories[d]
             new == Histories'[d]
  <2>5. ASSUME NEW k \in 1..Last(d)
        PROVE  new[k] = IF k = n THEN x ELSE old[k]
    BY <2>1, <2>2, <2>3, <2>4
  <2>6. new = [k \in 1..Last(d) |-> new[k]] /\ old = [k \in 1..Last(d) |-> old[k]]
    BY <2>1, <2>2
  <2> HIDE DEF x, old, new
  <2>7. new = [old EXCEPT ![n] = x]
    BY <1>2, <2>5, <2>6
  <2> QED
    BY <2>7 DEF old, new
<1> QED
  BY <1>2, <1>6, <1>8 DEF Histories, Rewritten
\* An entry of a sequence that is rewritten in one field is replaced by the rewritten entry.
LEMMA DecisionOfEntry ==
    ASSUME NEW H, NEW d, NEW n, NEW a, NEW e, NEW r,
           H[d][n] = e, [e EXCEPT !.verification = a] = r
    PROVE  [H EXCEPT ![d][n].verification = a] = [H EXCEPT ![d] = [H[d] EXCEPT ![n] = r]]
OBVIOUS

LEMMA ResultOfEntry ==
    ASSUME NEW H, NEW d, NEW n, NEW a, NEW e, NEW r,
           H[d][n] = e, [e EXCEPT !.scan = a] = r
    PROVE  [H EXCEPT ![d][n].scan = a] = [H EXCEPT ![d] = [H[d] EXCEPT ![n] = r]]
OBVIOUS

\* A decision that commits falls on the last version, and verifies a clean one only.
LEMMA DecidesLast ==
    ASSUME IInv, NoGaps, NEW w \in Workers, Decide(w)
    PROVE  \E d \in Docs, status \in Decisions : History!Decide(d, status)
<1> DEFINE v == txn[w].version
<1>1. /\ txn[w].op = "decide" /\ v \in Versions /\ Exists(v) /\ txn[w].arg \in Decisions
      /\ txn[w].row = version[v]
  BY DEF Decide, IInv, Sound, Placed, Reads, VersionOps
<1>2. PICK d \in Docs, n \in 1..MaxVersions : v = <<d, n>>
  BY <1>1 DEF Versions
<1>3. version[v] \in Version
  BY <1>1 DEF IInv, TypeOK, Exists
<1>4. version[v].is_current /\ (txn[w].arg = "verified" => version[v].scan = "clean")
  BY <1>1 DEF Decide
<1>5. PICK r \in Version : /\ r = [version[v] EXCEPT !.verification = txn[w].arg]
                          /\ r.verification = txn[w].arg /\ r.scan = version[v].scan
  <2>1. [version[v] EXCEPT !.verification = txn[w].arg] \in Version
    BY <1>1, <1>3 DEF Version
  <2> QED
    BY <1>3, <2>1 DEF Version
<1>6. version' = [version EXCEPT ![<<d, n>>] = r] /\ doc' = doc
  BY <1>1, <1>2, <1>5 DEF Decide, IInv, TypeOK
<1>7a. Exists(<<d, n>>)
  BY <1>1, <1>2
<1>7. /\ n \in 1..Len(Histories[d]) /\ Histories[d][n] = Entry(<<d, n>>)
      /\ Histories' = Rewritten(Histories, d, n, [verification |-> r.verification, scan |-> r.scan])
  BY <1>7a, <1>5, <1>6, EntryWrite
<1>8. n = Len(Histories[d])
  <2>1. v \in Newest(d)
    <3>1. v \in Current(d)
      BY <1>1, <1>2, <1>4 DEF Current, Of
    <3> QED
      BY <3>1 DEF IInv, NewestIsCurrent
  <2>2. Len(Histories[d]) = Last(d) /\ Last(d) \in 0..MaxVersions
    BY HistoryIs
  <2>3. n <= Last(d)
    BY <1>1, <1>2, LastIs
  <2>4. CASE Last(d) # n
    <3>1. Last(d) \in 1..MaxVersions /\ Last(d) > n
      BY <2>2, <2>3, <2>4, DocumentsAssumption
    <3>2. <<d, Last(d)>> \in Of(d)
      BY <3>1, LastIs DEF Of, Versions
    <3>3. Last(d) <= n
      BY <1>2, <2>1, <3>2 DEF Newest
    <3> QED
      BY <3>1, <3>3
  <2> QED
    BY <2>2, <2>4
<1>9. [Entry(v) EXCEPT !.verification = txn[w].arg] = [verification |-> r.verification, scan |-> r.scan]
  BY <1>5 DEF Entry
<1>10. Histories[d] # <<>> /\ Histories[d][n].scan = version[v].scan
  <2>1. Len(Histories[d]) # 0 /\ Len(<<>>) = 0
    BY <1>7, <1>8, EmptySeq, DocumentsAssumption
  <2> QED
    BY <1>2, <1>7, <2>1 DEF Entry
<1>11. History!Decide(d, txn[w].arg)
  <2>1. Histories' = [Histories EXCEPT ![d][n].verification = txn[w].arg]
    BY <1>2, <1>7, <1>9, DecisionOfEntry DEF Rewritten
  <2> QED
    BY <1>4, <1>6, <1>8, <1>10, <2>1 DEF History!Decide
<1> QED
  BY <1>1, <1>11

\* A scan result is recorded on a version of some history.
LEMMA RecordsResult ==
    ASSUME IInv, NoGaps, NEW w \in Workers, RecordResult(w)
    PROVE  \E d \in Docs : \E n \in DOMAIN Histories[d], result \in Results : History!Record(d, n, result)
<1> DEFINE v == txn[w].version
<1>1. v \in Versions /\ Exists(v) /\ txn[w].arg \in Results
  BY DEF RecordResult, IInv, Sound, Placed, VersionOps
<1>2. PICK d \in Docs, n \in 1..MaxVersions : v = <<d, n>>
  BY <1>1 DEF Versions
<1>3. version[v] \in Version
  BY <1>1 DEF IInv, TypeOK, Exists
<1>4. PICK r \in Version : /\ r = [version[v] EXCEPT !.scan = txn[w].arg]
                          /\ r.verification = version[v].verification /\ r.scan = txn[w].arg
  <2>1. [version[v] EXCEPT !.scan = txn[w].arg] \in Version
    BY <1>1, <1>3 DEF Version
  <2> QED
    BY <1>3, <2>1 DEF Version
<1>5. version' = [version EXCEPT ![<<d, n>>] = r] /\ doc' = doc
  BY <1>1, <1>2, <1>4 DEF RecordResult, IInv, TypeOK
<1>6a. Exists(<<d, n>>)
  BY <1>1, <1>2
<1>6. /\ n \in 1..Len(Histories[d]) /\ Histories[d][n] = Entry(<<d, n>>)
      /\ Histories' = Rewritten(Histories, d, n, [verification |-> r.verification, scan |-> r.scan])
  BY <1>6a, <1>4, <1>5, EntryWrite
<1>7. [Entry(v) EXCEPT !.scan = txn[w].arg] = [verification |-> r.verification, scan |-> r.scan]
  BY <1>4 DEF Entry
<1>8. Histories' = [Histories EXCEPT ![d][n].scan = txn[w].arg]
  BY <1>2, <1>6, <1>7, ResultOfEntry DEF Rewritten
<1>9. n \in DOMAIN Histories[d]
  BY <1>6, HistoryIs, LenProperties
<1> QED
  BY <1>1, <1>5, <1>8, <1>9 DEF History!Record

\* An update or a deletion moves a document that has not been deleted.
LEMMA MovesDocument ==
    ASSUME IInv, HistoryInv, NEW w \in Workers, Update(w) \/ Delete(w)
    PROVE  \E d \in Docs, s \in {"active", "archived", "deleted"} : History!Move(d, s)
<1>1. /\ txn[w].pc = "work" /\ txn[w].op \in {"update", "delete"} /\ version' = version
      /\ txn[w].op = "update" => txn[w].arg \in {"active", "archived"}
  BY DEF Update, Delete, IInv, Sound, Placed
<1>2. txn[w].doc \in Docs /\ doc[txn[w].doc] = txn[w].lifecycle
  BY <1>1 DEF IInv, Sound, Owns
<1>3. txn[w].lifecycle # "deleted"
  BY <1>1 DEF HistoryInv, Follows, VersionOps, Scans
<1>4. doc[txn[w].doc] # "absent"
  BY <1>1, <1>2 DEF IInv, Sound, Owns
<1>5. doc[txn[w].doc] \in {"active", "archived"}
  BY <1>2, <1>3, <1>4 DEF IInv, TypeOK, DocStates
<1>6. \E s \in {"active", "archived", "deleted"} : doc' = [doc EXCEPT ![txn[w].doc] = s]
  BY <1>1 DEF Update, Delete
<1>7. Histories' = Histories
  BY <1>1 DEF Histories, Existing, Exists, Entry
<1> QED
  BY <1>2, <1>5, <1>6, <1>7 DEF History!Move

LEMMA NextOnHistories ==
    ASSUME IInv, HistoryInv, [Next]_vars
    PROVE  [History!Next]_<<doc, Histories>>
<1>1. ASSUME UNCHANGED <<doc, version>>
      PROVE  UNCHANGED <<doc, Histories>>
  BY <1>1 DEF Histories, Existing, Exists, Entry
<1>2. ASSUME NEW w \in Workers, Upload(w) PROVE History!Next
  BY <1>2, UploadAdds DEF History!Next
<1>3. ASSUME NEW w \in Workers, Decide(w) PROVE History!Next
  BY <1>3, DecidesLast DEF HistoryInv, History!Next, Decisions
<1>4. ASSUME NEW w \in Workers, RecordResult(w) PROVE History!Next
  BY <1>4, RecordsResult DEF HistoryInv, History!Next, Results
<1>5. ASSUME NEW w \in Workers, Update(w) \/ Delete(w) PROVE History!Next
  BY <1>5, MovesDocument DEF History!Next
<1>6. \/ UNCHANGED <<doc, version>>
      \/ \E w \in Workers : Upload(w) \/ RecordResult(w) \/ Decide(w) \/ Update(w) \/ Delete(w)
  BY DEF vars, Next, Step, Begin, LockFound, Create, RefuseDocument, RefuseVersion, LockVersion, LockDoc,
       LockShared, LockCurrent, DecisionRefused, Open, BeginSubmit, BeginUpload,
       BeginUpdate, BeginDelete, BeginDoc, BeginDecision, BeginCallback, BeginVersion, BeginCommand,
       Victim, Fail, Kill, Raise, Quiet
<1> QED
  BY <1>1, <1>2, <1>3, <1>4, <1>5, <1>6

LEMMA InitOnHistories == Init => History!Init
<1> SUFFICES ASSUME Init PROVE History!Init
  OBVIOUS
<1>1. ASSUME NEW d \in Docs PROVE Histories[d] = <<>>
  <2>1. \A k \in 1..MaxVersions : ~Exists(<<d, k>>) /\ ~(k <= 0)
    BY DocumentsAssumption DEF Init, Exists, Versions
  <2>2. Existing(d) = 1..0
    BY <2>1, ExistingUpTo, DocumentsAssumption
  <2>3. Histories[d] = [k \in 1..0 |-> Entry(<<d, k>>)]
    BY <2>2, HistoryOf
  <2> DEFINE h == Histories[d]
  <2>4. h \in [1..0 -> Entries]
    BY <2>3
  <2> HIDE DEF h
  <2>5. h \in Seq(Entries) /\ Len(h) = 0
    BY <2>4, FunctionIsSequence
  <2>6. h = <<>>
    BY <2>5, EmptySeq
  <2> QED
    BY <2>6 DEF h
<1>2. Histories = [d \in Docs |-> <<>>]
  BY <1>1 DEF Histories
<1> QED
  BY <1>2 DEF Init, History!Init

\* The document tables keep every promise of VersionHistory: whatever requests,
\* scans, failures and kills interleave, histories grow only at their end and only
\* for active documents, decisions fall on the last version alone, and a deleted
\* document stays deleted.
THEOREM Refinement == Spec => ImplementsHistory
<1>1. IInv /\ HistoryInv /\ [Next]_vars => [History!Next]_<<doc, Histories>>
  BY NextOnHistories
<1> QED
  BY <1>1, InitOnHistories, HistoryInitially, HistoryPreserved, Invariant, PTL
     DEF Spec, ImplementsHistory, History!Spec, History!historyVars

=============================================================================
