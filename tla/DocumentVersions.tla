-------------------------- MODULE DocumentVersions --------------------------
(***************************************************************************)
(* The documents of one employee in one single-instance category           *)
(* (allow_multiple = False): submission, new file versions, malware scans, *)
(* verification decisions, archiving and deletion (documents/services/,    *)
(* their repositories, the rules of documents/models.py and the command    *)
(* scan_pending_versions).                                                 *)
(*                                                                         *)
(* A worker is a request, Cron the scheduled command.  As in AuthSessions, *)
(* a transaction locks its rows one by one and what it writes appears at   *)
(* its commit.  Two queries matter: get_for_update on documents locks      *)
(* document, employee and category, in this order, and get_for_update on   *)
(* versions locks version, document, employee and category, since both     *)
(* join with select_related and no `of'.  The employee and category rows   *)
(* are one lock here, shared by all documents of the model.                *)
(***************************************************************************)
EXTENDS Integers, FiniteSets

CONSTANTS
    Docs,          \* documents that may ever exist (a bound)
    MaxVersions,   \* versions a document may get here (a bound)
    Workers,       \* requests served at the same time (a bound), and Cron
    Cron,          \* the process that runs scan_pending_versions
    None,
    Mode,          \* the category's verification_mode
    EmployeeCanUpload, \* the category's employee_can_upload; the category is active
    ScanOnUpload,  \* DOCUMENT_SCAN_ON_UPLOAD
    Serves,        \* the kinds of request each worker gets (a bound on the workload)
    Failures       \* may a request meet a database error or be killed at any point?

ASSUME DocumentsAssumption ==
    /\ MaxVersions \in Nat \ {0}
    /\ Cron \in Workers
    /\ Mode \in {"required", "trusted_uploader", "not_required"}
    /\ {EmployeeCanUpload, ScanOnUpload, Failures} \subseteq BOOLEAN

VARIABLES
    doc,      \* committed documents: absent, deleted, or their lifecycle status
    version,  \* committed document versions, by document and version number
    files,    \* the versions whose file is in the storage
    txn       \* each worker's open transaction

vars == <<doc, version, files, txn>>

-----------------------------------------------------------------------------
Versions == Docs \X (1..MaxVersions)

DocStates == {"absent", "active", "archived", "deleted"}    \* revoked is as archived
Decisions == {"verified", "rejected"}
Results   == {"clean", "infected", "failed"}                \* RECORDABLE_STATUSES
Verdicts  == {"clean", "infected", "failed"}                \* ClamAVScanner.scan
Sources   == {"employee", "hr"}                             \* system is as hr

\* What a version needs before it is verified; a trusted uploader's waits as well.
FirstStatus == IF Mode = "not_required" THEN "not_required" ELSE "pending"

Version == [is_current : BOOLEAN, verification : {FirstStatus} \cup Decisions,
            scan : {"pending"} \cup Results]

NewVersion == [is_current |-> TRUE, verification |-> FirstStatus, scan |-> "pending"]

\* upload_scan and submit_scan are the on-commit scan of an upload: the first runs
\* inside upload_new_version's try block, the second after submit's transaction.
Uploads    == {"upload", "submit"}
Scans      == {"upload_scan", "submit_scan", "command", "callback"}
VersionOps == Scans \cup {"decide"}
Ops        == Uploads \cup VersionOps \cup {"update", "delete"}

ASSUME NoneAssumption == None \notin Docs \cup Versions \cup Version \cup Ops

Txn == [pc : {"idle", "lock_found", "create", "open", "lock_version", "lock_doc",
              "lock_shared", "lock_current", "work"},
        op : Ops \cup {None},
        doc : Docs \cup {None},          \* the document worked on
        held : SUBSET Docs,              \* the document rows locked
        lifecycle : DocStates \cup {None},   \* the document's, as read under its lock
        version : Versions \cup {None},  \* the version worked on; an upload's: the current one
        row : Version \cup {None},       \* that version, as read under its lock
        number : 0..MaxVersions + 1,     \* an upload's next_version_number
        arg : Sources \cup DocStates \cup Decisions \cup Results \cup {None},
        todo : SUBSET Versions]          \* the versions the command has still to scan

Idle == [pc |-> "idle", op |-> None, doc |-> None, held |-> {}, lifecycle |-> None,
         version |-> None, row |-> None, number |-> 0, arg |-> None, todo |-> {}]

Init ==
    /\ doc = [d \in Docs |-> "absent"]
    /\ version = [v \in Versions |-> None]
    /\ files = {}
    /\ txn = [w \in Workers |-> Idle]

-----------------------------------------------------------------------------
\* Locks and waiting.

Exists(v)   == version[v] # None
Of(d)       == {v \in Versions : v[1] = d /\ Exists(v)}
Newest(d)   == {v \in Of(d) : \A u \in Of(d) : u[2] <= v[2]}
Current(d)  == {v \in Of(d) : version[v].is_current}
ActiveDocs  == {d \in Docs : doc[d] = "active"}

HoldsVersion(w, v) ==
    /\ txn[w].version = v
    /\ \/ txn[w].op \in VersionOps /\ txn[w].pc \in {"lock_doc", "lock_shared", "work"}
       \/ txn[w].op \in Uploads /\ txn[w].pc = "work"
HoldsDoc(w, d) == d \in txn[w].held
HoldsShared(w) == txn[w].pc \in {"lock_current", "work"}

VersionFree(w, v) == \A x \in Workers \ {w} : ~HoldsVersion(x, v)
DocFree(w, d)     == \A x \in Workers \ {w} : ~HoldsDoc(x, d)
SharedFree(w)     == \A x \in Workers \ {w} : ~HoldsShared(x)

WaitsFor(w, x) ==
    /\ w # x
    /\ \/ txn[w].pc = "lock_version" /\ HoldsVersion(x, txn[w].version)
       \/ txn[w].pc \in {"lock_doc", "lock_found"} /\ HoldsDoc(x, txn[w].doc)
       \/ txn[w].pc = "lock_shared" /\ HoldsShared(x)
       \/ txn[w].pc = "lock_current" /\ \E v \in Current(txn[w].doc) : HoldsVersion(x, v)

Deadlocked(w) ==
    \E S \in SUBSET Workers :
        /\ w \in S
        /\ \A x \in S : (\E y \in S : WaitsFor(x, y)) /\ (\E y \in S : WaitsFor(y, x))

-----------------------------------------------------------------------------
Goto(w, t) == txn' = [txn EXCEPT ![w] = t]
Quiet      == UNCHANGED <<doc, version, files>>

\* The command goes on with one of the versions S.  DocumentVersion.Meta.ordering
\* puts a document's newest version first; the order of documents is left open.
ScanNext(S) ==
    IF S = {} THEN Goto(Cron, Idle)
    ELSE \E v \in S :
            /\ \A u \in S : u[1] = v[1] => u[2] <= v[2]
            /\ Goto(Cron, [Idle EXCEPT !.pc = "open", !.op = "command",
                                      !.version = v, !.todo = S])

\* _upload_source_for: those who may write (DocumentPermission) have the source hr.
SourceOfWriter == "hr"

\* submit has its document, found or new, and calls upload_new_version.
Submitting(w, d) == [txn[w] EXCEPT !.pc = "lock_shared", !.doc = d, !.held = {d},
                                   !.lifecycle = "active", !.arg = SourceOfWriter]

-----------------------------------------------------------------------------
\* Requests arrive.

BeginDoc(w, op, d, arg) ==
    /\ txn[w] = Idle
    /\ op \in Serves[w]
    /\ doc[d] # "absent"
    /\ Goto(w, [Idle EXCEPT !.pc = "lock_doc", !.op = op, !.doc = d, !.arg = arg])
    /\ Quiet

BeginVersion(w, op, v, arg) ==
    /\ txn[w] = Idle
    /\ op \in Serves[w]
    /\ Exists(v)
    /\ Goto(w, [Idle EXCEPT !.pc = "lock_version", !.op = op, !.doc = v[1],
                            !.version = v, !.arg = arg])
    /\ Quiet

\* An upload names its source.
BeginUpload(w, d)   == \E source \in Sources : BeginDoc(w, "upload", d, source)
BeginUpdate(w, d)   == \E s \in {"active", "archived"} : BeginDoc(w, "update", d, s)
BeginDelete(w, d)   == BeginDoc(w, "delete", d, None)
BeginDecision(w, v) == \E a \in Decisions : BeginVersion(w, "decide", v, a)
BeginCallback(w, v) == \E r \in Results : BeginVersion(w, "callback", v, r)

\* submit runs get_active_for_category_for_update, which waits for the row it found.
BeginSubmit(w) ==
    /\ txn[w] = Idle
    /\ "submit" \in Serves[w]
    /\ IF ActiveDocs = {}
       THEN Goto(w, [Idle EXCEPT !.pc = "create", !.op = "submit"])
       ELSE \E d \in ActiveDocs :
                Goto(w, [Idle EXCEPT !.pc = "lock_found", !.op = "submit", !.doc = d])
    /\ Quiet

\* Mutation: only current versions are selected.
BeginCommandCurrentOnly ==
    /\ txn[Cron] = Idle
    /\ ScanNext({v \in Versions : Exists(v) /\ version[v].is_current
                                  /\ version[v].scan = "pending"})
    /\ Quiet

BeginCommand ==
    /\ txn[Cron] = Idle
    /\ "command" \in Serves[Cron]
    /\ \E S \in {{"pending"}, {"pending", "failed"}} :        \* --include-failed
          ScanNext({v \in Versions : Exists(v) /\ version[v].scan \in S})
    /\ Quiet

-----------------------------------------------------------------------------
\* Lock by lock.

\* A found row that is no longer active when its lock is granted is dropped; the
\* query goes on with another active document of its snapshot, or finds none.
LockFound(w) ==
    /\ txn[w].pc = "lock_found"
    /\ DocFree(w, txn[w].doc)
    /\ LET d == txn[w].doc
       IN  IF doc[d] = "active"
           THEN Goto(w, Submitting(w, d)) \/ Goto(w, Idle)     \* refused by clean
           ELSE \/ Goto(w, [Idle EXCEPT !.pc = "create", !.op = "submit"])
                \/ \E e \in ActiveDocs : Goto(w, [txn[w] EXCEPT !.doc = e])
    /\ Quiet

\* The new row is the transaction's own until it commits.
Create(w, d) ==
    /\ txn[w].pc = "create"
    /\ doc[d] = "absent"
    /\ \A x \in Workers : txn[x].doc # d
    /\ Goto(w, Submitting(w, d))
    /\ Quiet

\* Mutation: the version is read without select_for_update.
LockVersionNoWait(w) ==
    /\ txn[w].pc = "lock_version"
    /\ Goto(w, [txn[w] EXCEPT !.pc = "lock_doc", !.row = version[txn[w].version]])
    /\ Quiet

LockVersion(w) ==
    /\ txn[w].pc = "lock_version"
    /\ VersionFree(w, txn[w].version)
    /\ Goto(w, [txn[w] EXCEPT !.pc = "lock_doc", !.row = version[txn[w].version]])
    /\ Quiet

\* Mutation: documents are read without select_for_update.
LockDocNoWait(w) ==
    /\ txn[w].pc = "lock_doc"
    /\ Goto(w, [txn[w] EXCEPT !.pc = "lock_shared", !.lifecycle = doc[txn[w].doc]])
    /\ Quiet

\* A deleted document is not found by its own queries; joined to a version it is.
LockDoc(w) ==
    /\ txn[w].pc = "lock_doc"
    /\ DocFree(w, txn[w].doc)
    /\ LET d == txn[w].doc
       IN  IF doc[d] = "deleted" /\ txn[w].op \notin VersionOps
           THEN Goto(w, Idle)
           ELSE Goto(w, [txn[w] EXCEPT !.pc = "lock_shared", !.held = {d},
                                       !.lifecycle = doc[d]])
    /\ Quiet

\* _validate_upload_policy.
UploadAllowed(w) ==
    /\ txn[w].lifecycle = "active"
    /\ txn[w].arg = "employee" => EmployeeCanUpload

\* The last lock of get_for_update.
LockShared(w) ==
    /\ txn[w].pc = "lock_shared"
    /\ SharedFree(w)
    /\ Goto(w, IF txn[w].op \notin Uploads THEN [txn[w] EXCEPT !.pc = "work"]
               ELSE IF ~UploadAllowed(w) THEN Idle
               ELSE [txn[w] EXCEPT !.pc = "lock_current"])
    /\ Quiet

\* Mutation: the number is the maximum itself, without the + 1.
LockCurrentNotCounting(w) ==
    /\ txn[w].pc = "lock_current"
    /\ LET d == txn[w].doc
       IN  IF Current(d) = {}
           THEN Goto(w, [txn[w] EXCEPT !.pc = "work", !.number = 0])
           ELSE \E v \in Current(d) :
                   /\ VersionFree(w, v)
                   /\ Goto(w, [txn[w] EXCEPT !.pc = "work", !.number = v[2],
                                             !.version = v, !.row = version[v]])
    /\ Quiet

\* get_current_for_update and next_version_number.
LockCurrent(w) ==
    /\ txn[w].pc = "lock_current"
    /\ LET d    == txn[w].doc
           next == IF Of(d) = {} THEN 1 ELSE (CHOOSE v \in Newest(d) : TRUE)[2] + 1
       IN  IF Current(d) = {}
           THEN Goto(w, [txn[w] EXCEPT !.pc = "work", !.number = next])
           ELSE \E v \in Current(d) :
                   /\ VersionFree(w, v)
                   /\ Goto(w, [txn[w] EXCEPT !.pc = "work", !.number = next,
                                             !.version = v, !.row = version[v]])
    /\ Quiet

\* EmployeeDocument.clean refuses a new document or an update.  (A document beyond the
\* model's bound is always refused.)
RefuseDocument(w) ==
    /\ \/ txn[w].pc = "create"
       \/ txn[w].pc = "work" /\ txn[w].op = "update"
    /\ Goto(w, Idle)
    /\ Quiet

\* DocumentVersion.clean refuses the file for its size or its extension.  (A version
\* beyond the model's bound is always refused.)
RefuseVersion(w) ==
    /\ txn[w].pc = "work"
    /\ txn[w].op \in Uploads
    /\ Goto(w, Idle)
    /\ Quiet

-----------------------------------------------------------------------------
\* Commits.

\* Mutation: the old current version is not demoted.
UploadKeepingCurrent(w) ==
    /\ txn[w].pc = "work"
    /\ txn[w].op \in Uploads
    /\ txn[w].number <= MaxVersions
    /\ doc' = [doc EXCEPT ![txn[w].doc] = IF @ = "absent" THEN "active" ELSE @]
    /\ version' = [version EXCEPT ![<<txn[w].doc, txn[w].number>>] = NewVersion]
    /\ files' = files \cup {<<txn[w].doc, txn[w].number>>}
    /\ Goto(w, Idle)

\* upload_new_version, and submit around it.
Upload(w) ==
    /\ txn[w].pc = "work"
    /\ txn[w].op \in Uploads
    /\ txn[w].number <= MaxVersions
    /\ LET t   == txn[w]
           new == <<t.doc, t.number>>
       IN  /\ doc' = [doc EXCEPT ![t.doc] = IF @ = "absent" THEN "active" ELSE @]
           /\ version' = [v \in Versions |->
                            IF v = new THEN NewVersion
                            ELSE IF v = t.version THEN [version[v] EXCEPT !.is_current = FALSE]
                            ELSE version[v]]
           /\ files' = files \cup {new}
           /\ Goto(w, IF ScanOnUpload
                      THEN [Idle EXCEPT !.pc = "open", !.doc = t.doc, !.version = new,
                              !.op = IF t.op = "upload" THEN "upload_scan" ELSE "submit_scan"]
                      ELSE Idle)

\* scan_version up to record_result: the file is read and the scanner answers.  If
\* the file is missing, the exception ends the command.
Open(w, result) ==
    /\ txn[w].pc = "open"
    /\ Goto(w, IF txn[w].version \in files
               THEN [txn[w] EXCEPT !.pc = "lock_version", !.doc = txn[w].version[1],
                                   !.arg = result]
               ELSE Idle)
    /\ Quiet

\* Mutation: the command's loop does not advance.
RecordResultAgain(w) ==
    /\ txn[w].pc = "work"
    /\ txn[w].op \in Scans
    /\ version' = [version EXCEPT ![txn[w].version].scan = txn[w].arg]
    /\ IF txn[w].op = "command" THEN ScanNext(txn[w].todo) ELSE Goto(w, Idle)
    /\ UNCHANGED <<doc, files>>

RecordResult(w) ==
    /\ txn[w].pc = "work"
    /\ txn[w].op \in Scans
    /\ version' = [version EXCEPT ![txn[w].version].scan = txn[w].arg]
    /\ IF txn[w].op = "command" THEN ScanNext(txn[w].todo \ {txn[w].version})
                                ELSE Goto(w, Idle)
    /\ UNCHANGED <<doc, files>>

\* DocumentVerification.clean passes on the locked version; the event and the status.
Decide(w) ==
    /\ txn[w].pc = "work"
    /\ txn[w].op = "decide"
    /\ txn[w].row.is_current
    /\ txn[w].arg = "verified" => txn[w].row.scan = "clean"
    /\ version' = [version EXCEPT ![txn[w].version].verification = txn[w].arg]
    /\ Goto(w, Idle)
    /\ UNCHANGED <<doc, files>>

DecisionRefused(w) ==
    /\ txn[w].pc = "work"
    /\ txn[w].op = "decide"
    /\ ~txn[w].row.is_current \/ (txn[w].arg = "verified" /\ txn[w].row.scan # "clean")
    /\ Goto(w, Idle)
    /\ Quiet

\* Of an update's fields the lifecycle status is the one the others depend on.
Update(w) ==
    /\ txn[w].pc = "work"
    /\ txn[w].op = "update"
    /\ doc' = [doc EXCEPT ![txn[w].doc] = txn[w].arg]
    /\ Goto(w, Idle)
    /\ UNCHANGED <<version, files>>

\* The row is only marked; its versions and their files stay.
Delete(w) ==
    /\ txn[w].pc = "work"
    /\ txn[w].op = "delete"
    /\ doc' = [doc EXCEPT ![txn[w].doc] = "deleted"]
    /\ Goto(w, Idle)
    /\ UNCHANGED <<version, files>>

-----------------------------------------------------------------------------
\* An exception rolls the transaction back.  In upload_new_version it may come
\* from the on-commit scan: the handler then deletes the committed version's file.
Raise(w) ==
    /\ files' = IF txn[w].op = "upload_scan" THEN files \ {txn[w].version} ELSE files
    /\ Goto(w, Idle)
    /\ UNCHANGED <<doc, version>>

Victim(w) == Deadlocked(w) /\ Raise(w)
Fail(w)   == Failures /\ txn[w] # Idle /\ Raise(w)
Kill(w)   == Failures /\ txn[w] # Idle /\ Goto(w, Idle) /\ Quiet

Step(w) ==
    \/ LockFound(w) \/ (\E d \in Docs : Create(w, d))
    \/ RefuseDocument(w) \/ RefuseVersion(w)
    \/ LockVersion(w) \/ LockDoc(w) \/ LockShared(w) \/ LockCurrent(w)
    \/ Upload(w) \/ Update(w) \/ Delete(w) \/ Decide(w) \/ DecisionRefused(w)
    \/ (\E r \in Verdicts : Open(w, r)) \/ RecordResult(w)

Begin(w) ==
    \/ BeginSubmit(w)
    \/ \E d \in Docs : BeginUpload(w, d) \/ BeginUpdate(w, d) \/ BeginDelete(w, d)
    \/ \E v \in Versions : BeginDecision(w, v) \/ BeginCallback(w, v)

Next ==
    \/ \E w \in Workers : Step(w) \/ Victim(w) \/ Fail(w) \/ Kill(w)
    \/ \E w \in Workers \ {Cron} : Begin(w)
    \/ BeginCommand

Spec == Init /\ [][Next]_vars

\* Lock queues are fair (Step), PostgreSQL ends every deadlock by some victim,
\* and the command is run on a schedule.
FairSpec ==
    /\ Spec
    /\ \A w \in Workers : SF_vars(Step(w))
    /\ WF_vars(\E w \in Workers : Victim(w))
    /\ WF_vars(BeginCommand)

-----------------------------------------------------------------------------
(***************************************************************************)
(* Properties                                                              *)
(***************************************************************************)

\* Every variable keeps its type.
TypeOK ==
    /\ doc \in [Docs -> DocStates]
    /\ version \in [Versions -> Version \cup {None}]
    /\ files \subseteq Versions
    /\ txn \in [Workers -> Txn]

\* A document's current version is its newest one and no other is current,
\* whatever uploads, decisions and scan results run beside each other; and whatever
\* fails in submit, no document is left without a version.
NewestIsCurrent ==
    \A d \in Docs : /\ Current(d) = Newest(d)
                    /\ doc[d] # "absent" => Newest(d) # {}

\* Under the document's lock next_version_number is still free at the insert, and
\* the version demoted is the only current one: an upload never meets the unique
\* constraints (upload_new_version's IntegrityError handler is not reached).
UploadsNeverConflict ==
    \A w \in Workers :
        txn[w].pc = "work" /\ txn[w].op \in Uploads =>
            /\ <<txn[w].doc, txn[w].number>> \notin Of(txn[w].doc)
            /\ Current(txn[w].doc) \subseteq {txn[w].version}

\* A version becomes verified only while it is the current version and its last
\* scan result is clean: neither a new upload nor an infected result that comes
\* between the reviewer's request and its commit is overlooked.
VerifiedOnlyWhenCleanAndCurrent ==
    [][\A v \in Versions :
          /\ Exists(v) /\ version[v].verification # "verified"
          /\ version'[v].verification = "verified"
          => version[v].is_current /\ version[v].scan = "clean"]_vars

\* A file version is added to an active document only (or to one created with
\* it): an upload does not slip in behind a concurrent archiving or deletion.
VersionsOnlyForActive ==
    [][\A v \in Versions :
          ~Exists(v) /\ version'[v] # None =>
              doc[v[1]] \in {"active", "absent"} /\ doc'[v[1]] = "active"]_vars

\* _schedule_scan's promise: a scanner failure never undoes a committed upload.
CommittedFilesKept == \A v \in Versions : Exists(v) => v \in files

\* submit's promise: in a single-instance category an existing active document is
\* reused, so the employee never has two.
SingleActiveDocument == Cardinality(ActiveDocs) <= 1

\* Every request and every run of the command comes to its end.
RequestsFinish == \A w \in Workers : (txn[w] # Idle) ~> (txn[w] = Idle)

\* A version whose file is gone: whatever reads it raises, and ends the command.
Unreadable(v) == Exists(v) /\ v \notin files /\ version[v].scan \in {"pending", "failed"}

\* The command gets to a version: nothing it may come to before is unreadable, be it of
\* another document or newer (line 46 has no handler for what scan_version raises).
Reached(v) ==
    /\ Exists(v) /\ v \in files
    /\ \A u \in Versions : Unreadable(u) => u[1] = v[1] /\ u[2] < v[2]

\* scan_pending_versions: when no more requests arrive, the scheduled command scans
\* every version it gets to, however many of its runs and of the scans on upload end in
\* a deadlock.
RequestsPause == \A w \in Workers \ {Cron} : txn[w] = Idle => txn'[w] = Idle
CommandScansAll ==
    <>[][RequestsPause]_vars =>
        \A v \in Versions : <>[](Reached(v) => version[v].scan # "pending")
-----------------------------------------------------------------------------
(***************************************************************************)
(* Deadlocks                                                               *)
(***************************************************************************)

\* w, an upload, has locked the document and waits for its current version; x has
\* locked that version, for a decision or a scan result, and waits for the document.
UploadAgainstVersion(w, x) ==
    /\ txn[w].op \in Uploads /\ txn[w].pc = "lock_current"
    /\ txn[x].op \in VersionOps /\ txn[x].pc = "lock_doc"
    /\ txn[x].doc = txn[w].doc /\ txn[x].version \in Current(txn[w].doc)

\* However many requests are under way, a deadlock is always between two of them,
\* an upload and a decision or scan result on the same document: an archiving, a
\* deletion or a request on an old version is never its victim.
DeadlocksArePairs ==
    \A w \in Workers : Deadlocked(w) =>
        \E x \in Workers : UploadAgainstVersion(w, x) \/ UploadAgainstVersion(x, w)

-----------------------------------------------------------------------------
(***************************************************************************)
(* The rows keep the promise of VersionHistory.                            *)
(***************************************************************************)

\* A document's versions are numbered from one without a gap.
NoGaps ==
    \A d \in Docs : \A k \in 1..MaxVersions :
        Exists(<<d, k>>) => \A j \in 1..k : Exists(<<d, j>>)

\* An upload's number follows those in use, and a request that needs its document
\* alive has not locked a deleted one.
Follows(w) ==
    /\ txn[w].op \in Uploads /\ txn[w].pc = "work" =>
          \A j \in 1..(txn[w].number - 1) : Exists(<<txn[w].doc, j>>)
    /\ txn[w].op \notin VersionOps /\ txn[w].pc \in {"lock_shared", "lock_current", "work"} =>
          txn[w].lifecycle # "deleted"

HistoryInv == NoGaps /\ \A w \in Workers : Follows(w)

Existing(d) == {n \in 1..MaxVersions : Exists(<<d, n>>)}

Entry(v) == [verification |-> version[v].verification, scan |-> version[v].scan]
Histories == [d \in Docs |-> [n \in Existing(d) |-> Entry(<<d, n>>)]]

History == INSTANCE VersionHistory WITH state <- doc, history <- Histories, First <- FirstStatus

\* Whatever requests, scans and failures interleave, every step appends a version to
\* an active document's history, decides its last version, records a scan result,
\* archives or deletes a document, or leaves the histories alone.
ImplementsHistory == History!Spec

=============================================================================
