# TLA+ models of the G-HRMS backend

G-HRMS is a Django REST backend: accounts and sessions, an organisation catalogue, employees,
their documents, attendance and leave, and payroll. This directory holds TLA+ models of the parts of it
where requests meet each other, TLC configurations that check them on small instances, and
proofs, checked by TLAPS, that the central invariants hold for instances of every size.

    tlc -workers 2 -config auth_safety.cfg MCAuthSessions.tla
    tlapm AuthSessions_proofs.tla

`PROJECT.json` lists, for tools, what is told here: components, runs, mutations, the
source lines each definition stands for, findings, hazards and theorems.

## 1. Inventory

State lives in PostgreSQL, in the default cache, and in the document storage. Several web workers serve
requests at once; nothing is shared between them except these three. Whether two
requests can disturb each other therefore depends on three things: transactions and row locks
(`select_for_update`), which the services take by hand; `row_version`, which django-concurrency compares when an `AuditModel` is saved;
and the foreign keys and unique constraints of the database. `ATOMIC_REQUESTS` is not set, so a view that opens no transaction saves row after row.

| Component | State | Operations | What makes it correct |
|---|---|---|---|
| Sessions and lockout (`authentication/services/authentication.py`, `refresh_tokens.py`) | `User.failed_login_count`, `locked_until`; `RefreshToken` rows; `AuthEvent` | login, refresh (rotation, reuse detection), logout | one live token per family; reuse closes the family; every failure counts; a lock ends |
| User administration (`user_admin.py`, `seed_superadmin`, `createsuperuser`) | `User.role`, `status`, `is_active`, `is_superuser` | create, update, set status, deactivate | an account that is not active has no session; a superadmin remains |
| Access tokens (`access_tokens.py`, `authentication.py`) | none; claims | issue, decode, authenticate a request | an expired token, or one of a suspended account, is refused |
| Signup (`registration.py`) | one cache entry per address; `User` | start, verify, resend | an account needs the code mailed to its address; limits; replacement |
| Account model, RBAC (`account/models.py`, `*/permissions.py`) | roles | permission checks | a role is allowed what its table says |
| Base models (`core/models.py`) | `is_deleted`, `row_version` | save, delete, restore | no update is lost, nothing deleted comes back |
| Documents (`documents/`) | documents, file versions, verification events, stored files | submit, upload, scan, scan callback, scan command, decide, update, delete | the newest version is the one current version; decisions are on what the reviewer saw; rows and files agree |
| Organisation catalogue (`organizations/`) | organizations, services, categories, subcategories, levels, positions | create, update, delete of each | no cycle; nothing deleted is referred to; positions agree with the classification |
| Employees (`employees/`) | supervisor links, organization, status, history rows | create, update, delete; admin forms; signals | no cycle; history tells what happened |
| Attendance, leave, reports (`employees/views.py`) | attendance, leave requests | record, edit, approve, reject, report | a decision stands; marks follow arrivals |
| Payroll (`payroll/`) | entries, payments | create, edit, pay, delete | an entry is paid exactly when it was paid for, within its net pay |
| Middleware, logging, errors (`core/`) | none between requests | | |
| Views, serializers, settings, routes, migrations | none | | |

How they interact: a view calls one service method per request, or saves a serializer itself (attendance, leave, payroll). A service
talks to its own repositories only; the exceptions are the session service, which reads and writes `User` as user administration does;
`submit`, which calls the upload service inside its own transaction; an upload, which starts a scan when its transaction
commits; the catalogue and the employee service, which count each other's rows before a deletion; a payment, which marks its entry; and the employee
signals, which write history rows around each save outside the service. Every request reads its account once, when it is
authenticated. Signup and administration create the accounts sessions are opened on.

Hard behaviours, with the lines where they bite, are listed under `hazards` in `PROJECT.json`. In
short: lock orders that oppose each other (sessions, documents, hierarchies); UPDATE
statements with a snapshot of their own (revocation); values read, decided on and stored without a lock (signup, hierarchies,
classification, leave); objects a serializer loaded and a later validation under the lock does not load again (hierarchies, classification, heads);
forms as old as their tab, and deletions the admin site asks nothing about (organizations, employees); partial failures after a commit (documents) or between two saves (payroll).

## 2. Modules

| Module | Models |
|---|---|
| `AuthSessions` | sessions, lockout, status changes |
| `TokenFamilies` | what refresh tokens promise, without locks or transactions; `AuthSessions` implements it |
| `Signup` | registration behind a one-time code |
| `DocumentVersions` | documents, versions, scans, decisions, files |
| `VersionHistory` | what a document promises: a history that grows at its end, decided at its end; `DocumentVersions` implements it |
| `Hierarchy` | parents of organizations, supervisors of employees |
| `Taxonomy` | services, categories, subcategories, levels, positions, and the employees who name them |
| `Personnel` | organization and status of employees, their history, admin forms, heads of organizations |
| `Careers` | what the employees' records promise: every change with its history, as if each writer were alone; `Personnel` implements it |
| `Payroll` | an entry, its payments, its mark |
| `AccessControl` | accounts, roles, access tokens, administration |
| `StaffRecords` | leave requests and attendance, written by the accounts of `AccessControl`, which it extends |
| `X_proofs` | the proofs about `X` |
| `MCX` | the same module with the symmetry sets and values of its configurations |

Each model contains, beside its actions, variants marked "Mutation": the action as a plausible mistake would
write it. They occur in no specification. Each property fails when one of them replaces the
action it mutates, which shows that the property depends on the code.

In all modules a worker is a request in flight; its record in `txn` (`req` in `Signup`) says where it is and what it has read. What a transaction
wrote becomes visible at its commit, which is sound because every row it writes is locked until then, or, where no lock is taken, because the
statement that writes is the step. `Fail` and `Abandon` are a refusal, a database error or a killed process at any point.

### AuthSessions

Variables: `user` (status, `is_active`, `failed_login_count`, and what remains of `locked_until`), `rows` and
`token` (the rows of `RefreshToken` inserted so far and their columns), `txn` (each request's
transaction: what it locked, what it read, the UPDATE it is in) and `done` (the last commit: operation, reply, event).

A request begins (`BeginForUser`, `BeginForToken`), locks its rows one at a time in the order of the code
(`LockToken`, `LockUser`), may run an UPDATE over many rows, which fixes its target
rows at its start and then locks and rechecks them one by one (`StartRevokeFamily`, `StartRevokeAll`, `UpdateRow`), and commits in
one step that stands for the rest of the service method: `Login`, `FailedLogin`, `Rotate`,
`RotateExpired`, `ReuseDetected`, `Logout`, `Activate`, `Suspend`, `Deactivate`. PostgreSQL's part: a request waits for
a lock another one holds; when requests wait in a circle, one of them is the `Victim` and
is rolled back. Time is a number of ticks left on each lock and each token; `Tick` counts them down. The access
token is issued after `rotate` has committed: a failure there is a lost answer, and the client's retry is a reuse.

### Signup

Nothing is locked in `registration.py`, so each cache and database command is an action and a request
keeps the record it read between two of them (`req[w].rec`). `start`: `Start` (the
serializer's checks and the drawing of a code), `Store`, `Deliver`. `verify`: `Verify` (the read and
the comparison), then `Store` (a wrong code counted), `Delete` (too many), or `Persist` / `UsernameTaken` and `Delete`. `resend`: `Resend`, `Store`,
`Deliver`. A request may end at any command (`Fail`): mail refused, process killed. A code is a model value. Clients present codes that
were mailed to the address, or wrong ones; so the models say nothing about guessing.
`first` (the code a registration was started with) and `latest` are there for the properties only.

### DocumentVersions

One employee, one single-instance category. Variables: `doc`, `version` (is it current, its
verification and scan status), `files` (the stored files), `txn`. As in `AuthSessions` a request locks its rows one at a
time: `get_for_update` of a document locks document, employee and category; of a version, the version first and then these three (no
`of=` in either query); `get_current_for_update` locks the current version. Employee and category are one lock. `Upload` commits `submit` or
`upload_new_version` and, with `DOCUMENT_SCAN_ON_UPLOAD`, goes on with the on-commit scan (`Open`, the locks, `RecordResult`). The scan after a plain upload
still runs inside that method's `try`, so its failure deletes a file (`Raise`); after `submit` it runs at the end of the outer transaction and does
not. `Cron` runs the scheduled command. `Decide` and `DecisionRefused` are `record_decision`. `DocumentPermission` lets only HR and
superadmins write, so a submission's source is always `hr` (`SourceOfWriter`) and `employee_can_upload` matters for uploads that name the
source `employee`. The mode `trusted_uploader` behaves like `required`. A scan result that arrives late is recorded over a newer one: the last recorded counts.

### Hierarchy

`Organization.parent_org` and `Employee.supervisor` are written alike: the serializer fetches the new parent and walks up (`Walk`, one query per
ancestor), then the service locks the row (`Lock`) and validates again. Django keeps the fetched
parents on the objects, so the second walk reads nothing again, unless the body does not name the parent (`BeginEdit`).
At the commit the deferred foreign key takes `FOR KEY SHARE` on a changed parent and so waits for whoever holds it `FOR UPDATE`: two rows moved under each other
deadlock. `read` holds the rows fetched with the parents they had; `ChainStands` says that nobody has moved them since.
The services' deletion counts the children first (`BeginDelete`, `Lock`, `Check`). The admin site's does not: its delete view (`BeginRemove`), the box
`is_deleted` of its change form (`BeginForm`) and its action `delete selected` (`DeleteSelected`, one UPDATE) take any living row, whatever refers to it, and
a form can also bring a deleted row back.

### Taxonomy

Rows are hard-deleted, employees only hidden. `link` is the foreign keys of each row. The deletion of the API counts dependants while it holds the row `FOR UPDATE`, which
excludes the key lock of a new dependant, so it is one step (`Delete`), as is a write that only its foreign keys can refuse (`Create`,
`Move`, `Assign`). `Remove` is what the database does: CASCADE from a service to its categories and on to their subcategories, SET NULL elsewhere. Positions are checked against categories nobody locks: `Load` (serializer), `Check` (the row locked, `full_clean` with the objects
loaded before), `Commit`. The admin site deletes levels and positions without asking (`AdminDelete`).

### Personnel

Two ways to a row. The API: `BeginUpdate`, `Lock` (`SELECT FOR UPDATE`, old values remembered, `full_clean`), `Commit`; a deletion counts the organizations
the employee heads in between (`Check`). The admin site: `OpenForm`, `PostForm` (the box `is_deleted` posted with the rest; the `pre_save` signal reads the old values without a lock),
`UpdateVersion` (the UPDATE waits for the row and applies only at the form's `row_version`), `Commit` (with the `post_save` signal); the delete view, which
saves the row it loaded and asks about no heads (`BeginRemove`); and `DeleteSelected`, one UPDATE that leaves `row_version` alone.
`SaveUpdate` writes the row and the history of both. `BeginHead` and `BeginActivate`, or the admin site's form (`BeginUnit`), are the updates of an organization that matter to employees. `transfers` is the rows of `OfficeTransfer` that the code writes by itself.

### Payroll

No transaction spans a request. It loads the entry (`BeginPay`, `BeginEdit`), saves the payment (`SavePayment`), and if that is PAID
saves the entry's mark twice (`Mark`: `PayrollPayment.save`, then the view). A save applies at the `row_version` loaded; writing every column raises it,
the mark writes `payment_status` alone and does not. `Transfer` is an employee's move, which the entry's `clean` may meet. `unmarked` records, for the
properties only, the PAID payments whose mark failed or was overwritten by a full edit.

### AccessControl and StaffRecords

`AccessControl` has the accounts' role, status, `is_active` and `is_superuser`, and the ticks left of each access token. The accounts of before the status column (`Earlier`) have any role, may be superusers, and are invited, as the
column's default made them; so are those that sign up, and the superusers of `createsuperuser` (`CreateSuperuser`). `SeedSuperadmin` makes any account, found or created, an active one. A request is authenticated once (`Admitted`, `Receive`: token,
account, permission), and acts later, whatever has become of its actor. `Administer` is the commit of the four handlers; `UpdateUser` never
clears `is_superuser`. A change of password leaves access tokens valid: authentication looks at
the account's status, nothing else. `StaffRecords` adds one row, a leave request or an attendance record. A PATCH saves the whole row as it was
loaded (`SavePatch`), inserting it again if it is gone; a body may name any attendance mark, the empty one included, which stays if there is no arrival to derive it from; `approve` and `reject` write their own columns (`Decide`).

## 3. Runs

| Run | Shows | Instance | Distinct states |
|---|---|---|---|
| `auth_safety` | session, lockout and commit properties, under failures at every step | 1 account, 3 token rows, 3 requests, limit 2 | 848,313 |
| `auth_liveness` | every request ends; the sessions implement `TokenFamilies`; a lockout ends though wrong passwords keep coming | 1 account, 2 rows, 2 requests | 118,737 |
| `auth_reuse_deadlock` | **violated**: reuse detection can be the victim of a deadlock and leave the family live | 2 requests | |
| `signup` | limits, the code an account needs, no registration pending for ever | 1 address, 2 usernames, 2 codes, 2 requests | 276,400 |
| `docs_safety` | which version is current, what is decided, documents as histories (`VersionHistory`), under failures at every lock | 1 document, 2 versions, 2 requests | 1,445,180 |
| `docs_liveness` | every request ends; the command scans every version that no missing file keeps it from | 1 document, 2 versions, a submission, an upload and the command | 68,779 |
| `docs_file_lost` | **violated**: a committed version loses its file | the same, with uploads by both | |
| `hierarchy` | who can make a cycle, counted deletions take no parent, every request ends | 3 rows, 2 requests, 1 deletion | 768,289 |
| `taxonomy` | when a position leaves the classification, what a deletion takes | 2 services, 2 categories, 1 of the rest, 1 request on positions | 123,210 |
| `personnel` | histories, stale forms, heads, the records as careers (`Careers`) | 1 employee, 2 organizations, 2 statuses, 2 requests, 3 versions | 2,821,749 |
| `payroll` | when payment and mark part, what marks an entry | 1 entry, 2 payments, 2 requests, net pay -1 or 2, amounts -1, 0, 2 | 3,740,426 |
| `staff` | coherent records, the last superadmin | 2 accounts, 1 record, 2 requests, arrivals 9:30 and 9:31 | 1,630,028 |

**Bounds.** Rows are never shared between accounts, and every interaction in the sessions is between requests on one
account, so one account is enough for TLC (the proofs do not need the bound). Three rows
give a family of three generations, or two families; three requests are what a deadlock over token and user with a
bystander takes; the limit of 2 separates a first failure from the one that locks. A signup interaction is between
two requests on one address; two codes allow a replacement or a resend. `signup` gives the second that `_store` grants at least
two ticks (`MinTimeout`), so that an answer can come within it and the entry be stored again. Two versions allow one replacement, which is what decisions, scans
and uploads race with; the on-commit scan and the next upload, with which it deadlocks, are two requests. Three rows of a hierarchy are a move of an ancestor
that is neither end of the new link; `hierarchy` allows one deletion (`MaxDeletes`, `delete selected` of several rows being one). `Serves` says which requests a worker takes. In
`hierarchy` one takes moves and counted deletions, the other everything but these deletions; in `personnel` one takes what the employees' API does, the other the deletions of the admin site and the
organizations' requests, and both take forms; in `docs_liveness` one submits and one uploads. What does not meet so is two requests of a kind that the row's lock or its `row_version` lets through one
after the other; the proofs have no such bound. In `taxonomy` a second request on a position would wait for
the first's row; what a request meets are moves of categories, and those are steps of their own; the level of a slow request is left out, since no check looks at it. In `personnel` three versions are a form, an
API update and a second form between them. In `payroll` two payments are one that marks and one whose mark fails. Other time limits are one to three
ticks: the code only asks whether they have passed. In `AuthSessions` a login or rotation that would insert a row begins only while one is left
(`RoomForToken`); a repeated refresh with a rotated token inserts none and may begin at any time. When codes, rows or versions are used up, requests that need a new one are refused, which
is a behaviour of the code as well. `taxonomy` runs with `CHECK_DEADLOCK FALSE`: its rows are never used twice, so all of them may be gone at the end.

**Symmetry** is used for requests, rows, codes and documents, in runs without liveness properties only. `auth_safety`'s view leaves out `done`, which no guard and no
assignment reads; the action properties are evaluated on every step all the same.

**Fairness.** PostgreSQL grants row locks in the order of waiting and a request runs to its end while it
is not blocked: strong fairness on each worker's `Step` (in `Signup`, where nothing
blocks, weak fairness). The deadlock detector ends each deadlock after `deadlock_timeout`: weak fairness on some worker being
`Victim`. Time passes: weak fairness of `Tick`. The scan command "runs on a schedule" (its docstring): weak fairness of `BeginCommand`. No run assumes that
requests arrive, that a failure stops happening, or who a deadlock's victim is. `CommandScansAll` speaks of behaviours in which requests stop arriving.

**Findings.** Two are runs:

1. `auth_reuse_deadlock`: `rotate` revokes a family while it holds the presented token and the account. A logout or refresh of the
   family's current token holds that row and waits for the account. PostgreSQL rolls one back; if
   it is the reuse detection, the revocation and the event are lost (`account/models.py:169`: reuse "revokes the whole token family").
2. `docs_file_lost`: the handler that deletes the file of an upload that failed also sees what its on-commit scan
   raises (`uploads.py:117`: "never rolls back the upload").

Three more statements of the code about itself are stated in the models as invariants that no run checks, because they are false:

3. `ReplacedStaysReplaced` (add `INVARIANT ReplacedStaysReplaced` to `signup.cfg`): `verify` writes the record it read back over a newer registration (`registration.py:82`: any
   earlier registration "is replaced").
4. `OneAccountPerEmail` (add it to `signup.cfg`): the insert is guarded by the username only (`users.py:116`: "Email uniqueness is enforced when accounts are created").
5. `SingleActiveDocument` (add it to `docs_safety.cfg`, with `Docs = {d1, d2}`): when there is no active document there is nothing to lock (`documents.py:53`: "an existing active document is reused").

Others follow from what the properties except, and from what the models leave alone:

6. `ForestKept`: a request overtaken by the move of an ancestor does make a cycle (`organizations/models.py:67`). `RequestsFinish` holds all the same.
7. `PositionsFollow`: moving a category or subcategory leaves its positions outside the classification, which `organizations/views.py:232` says they keep to; a later edit of such a position
   that does not repair it is refused. The same happens to a unit whose head moves away: its next update is refused (`LockUnit` of `Personnel`).
8. `MovesRecorded`: the service records the first organization of a legacy employee as a transfer, the admin site does not (`RecordsMove`).
9. `PaidPaymentsMark`: a full edit that started after the mark and names another status, or started before it, puts the entry back to unpaid; the mark does not raise
   `row_version`, so the stale edit is not refused, against `core/models.py:16`. A closed run is enforced by nothing.
10. `DecisionKept`: a stale PATCH takes a decision back. `SavePatch`: a PATCH that meets a deletion inserts the row again.
11. `DeletedHaveNoChildren` and `DeletedHeadNothing` are about the services' deletions: a deletion on the admin site (`organizations/admin.py:6`, `employees/admin.py:7`) asks nothing, and
    leaves living rows under a deleted parent, and units headed by a deleted employee. A form can also bring a deleted row back under a parent whose deletion has counted it out, since its key does not change.
12. `DeletedStay` excepts `delete selected` (`core/models.py:38`), which leaves `row_version` alone: a form opened before it and saved after it brings the employee back, and if it was posted after it, the signal
    finds no old values and records neither a move nor a change of status.
13. `CommandScansAll` excepts what comes after a version whose file is missing: `scans.py:64` raises, the loop at `scan_pending_versions.py:46` has no handler, and each run of the command ends at the same place. Finding 2
    is how such a version comes about.
14. `RightsComeFromSeed`: the account that `createsuperuser` makes, by which `README.md:117` sets the project up, is invited, so it enters the admin site but not the API, and nobody can activate it there. Without
    `seed_superadmin`, which the same README does not mention, no account is ever activated.

## 4. Proofs

All theorems hold for every finite or infinite set of accounts, rows, codes, requests, and every value of the settings that
satisfies the modules' assumptions: limits are at least one, times are naturals, `None` is no element
of the sets, kinds of rows are disjoint. Each module has an inductive invariant `IInv` that
conjoins its type invariant, its other invariants, and what must hold of the requests in flight. Each proof has a lemma per action, over frame lemmas
for steps that only load or only commit; the temporal theorems combine `Init => IInv`, `IInv /\ [Next]_vars => IInv'` and a consequence. What a theorem
needs beyond `IInv` is a second invariant, proved over the first.

**AuthSessions.** `DataInv`: the families are well formed, with `OneLiveTokenPerFamily`, `RotatedOnce`,
`LiveTokenOwnerActive`, `LockoutMatchesCount`. `TxnInv`: a transaction's locks belong to its step (`TxnWellFormed`), no row is locked by two, what it read under a
lock still stands (`ReadsCurrent`), and an UPDATE has every row it must change among those it has still to visit or has visited
(`UpdateCoversTargets`). `TxnInv` is what makes it inductive: `LiveTokenOwnerActive` is kept by a suspension only because no token of the account can appear after
the UPDATE took its snapshot; that holds because login and rotation hold the account's row, which the suspension has
locked. The action properties are a theorem each. `EndedSessions`: a family without a live token gets none again, so a retried or overtaken refresh revives nothing.
`Refinement` maps every step to a step of `TokenFamilies` or a stutter, with the live token of each family as the mapping.

**Signup.** `HeldCopies`: a copy that will be stored is within the
limits, and one that will be inserted carries a code that was mailed for it. `CodesIdentify`: wherever a code is carried, in a
message, an entry or a request's copy, it goes with the same address and username. The second is needed because the request that checks a code reads an entry that
some other request may have written from a stale copy: that copy still says of its code what the message said, so the account is the one the
message announced (`CodeSafety`), even in the behaviours in which a replaced registration comes back.

**DocumentVersions.** Per request: what it names and holds (`Placed`), that the document it holds is still as read (`Owns`), that its version is (`Reads`), and that an upload's
number is above those in use and the version it will demote the current one (`Numbers`); across requests, that no document and no version is held by two (`Exclusive`). What an upload or a decision relies on at its commit was
read under a lock that nobody else has had since. `CurrentIsNewest`, `NumbersAreFree` (the `IntegrityError` handler of `upload_new_version` is never reached), `VerifiedSoundly`
and `VersionsForActive` follow. `HistoryInv` adds that the upload under way names the very next number, so versions have no gaps (`Unbroken`) and the rows of a document are a sequence; `Refinement` maps them to
`VersionHistory`. It is stronger than the properties it implies: a decision falls on the last version of the sequence, and nothing else in the histories moves.

**Hierarchy.** `WalkSound`: the rows a request has fetched are closed under the parents it saw, contain the new parent and not the row to be moved. If these parents still stand at the
commit, the new link closes no cycle (`MovesKeepForest`), at any depth. `ChildlessAtCommit`: what a deletion has counted is still so, since a new child needs the lock it holds, or is a deleted one that a form brings back (`DeletionsTakeNoChild`).
`UnovertakenForest` puts the moves together: if no request is overtaken, there is never a cycle.

**Taxonomy.** No key names a row that is not there; a request about to commit has keys that belong together in what it has seen. `DeletionsTakeNone` follows the cascades: if the count found nothing, they reach only
hidden employees. `PositionsOnlyFollow` goes through every write of a row. `UnmovedCoherent`, over `Informed` (what a request saw of the rows its body names still holds): as long as no category and no subcategory is moved, no position is outside its
classification, though rows are created and deleted between what a request loaded and what it commits.

**Personnel.** `FormSound`: while a row still has the form's version, what the signal read is what the row holds, because every write raises the version. `HolderKnows`: a request at its save
knows the row's values while the employee lives. So the history is a path (`HistoryIsPath`) whoever writes it, and `Refinement` can map every save to a single step of `Careers`, which compares with the record as it stands at that moment; a
deletion is its `Leave`, a form that brings an employee back its `Resume`. `DeletedRowsStay`: a save that deletes the row leaves every form that is open at an older version. `Headless` is `ChildlessAtCommit` for heads, of the API's deletion.

**Payroll.** `CopySound`: a loaded entry is never ahead of its row, and while it is not behind it has the row's net pay. With `Valid`, which no step undoes, that bounds what marks the entry (`MarksWithinNet`).

**AccessControl and StaffRecords.** `Sound`: what a request carries could be saved at any time without making a record incoherent, and no change of status has its own actor as the target (`SoleAdminStays`).
No request gives or takes `is_superuser` (`SuperusersStand`), so a superuser loses their rights to a change of status by somebody else, never to a demotion (`SuperusersStay`). And
nobody is activated but by an administrator or the seed command: unless it is run, no account can log in (`RightsComeFromSeed`), whatever superusers there are. What these three say of accounts and `DecisionKept` of
leave requests (`DecisionsStand`) is proved only; no run checks it.

**Deadlocks.** The models let PostgreSQL find them; the theorems say which there are, for any number of requests. `Deadlocked` is membership in a set of requests that all wait for each other; from the order in which each
operation takes its locks it follows that in `AuthSessions` an UPDATE over an account's tokens meets a refresh or logout of one of them (over `UpdatesStayInAccount`: such an UPDATE visits one account), that in `DocumentVersions` an upload meets a decision or
scan result on its current version, and that in `Hierarchy` only moves take part, each of a row under the row of the next. No login, archiving, deletion or edit is ever a victim. These are the theorems `DeadlockSafety`.

**One request at a time.** Several properties are false of the code, or hold with an exception for overtaken requests. That the interleaving is to blame, and not
the handler, is a theorem too: with a single worker (`Workers = {w}`; everything else unbounded) there is no cycle (`SerialForest`), replaced registrations stay replaced and an address has one account (`SerialSignup`, findings 3
and 4), deleted records stay deleted and decisions stand (`SerialRecords`, finding 10), a superadmin remains if none gives up the role (`SerialAdmins`), and paid payments mark their entry while employees stay, no mark fails and
no edit takes PAID back (`SerialMarks`, finding 9). The invariant is in each case that what the one request has read is what is stored; for `SerialSignup`, that its copy belongs to the registration pending, or that none is pending
(an entry may expire under it). For each claim TLC finds a violation with two workers, and for `SerialMarks` and `SerialAdmins` one as soon as the hypothesis is dropped; with one worker, and the hypothesis as an `ACTION_CONSTRAINT`, it finds none.

**Left to TLC.** Liveness (fairness and ENABLED are not supported by the prover): `RequestsFinish` of three modules, `LockoutEnds`, `PendingEnds`,
`CommandScansAll`; and the findings, which are counterexamples. Everything else the runs check is proved.

## 5. Not modelled

Cryptography (password hashes, PASETO, HMAC of codes) is a library's: a presented token or code is or is not a stored one. Throttling
only removes requests. The audit history tables (`HistoricalRecords`) and logs record and decide nothing.

*Accounts.* `RoleModuleAccess` and `has_perm_code` are used by no view. `RefreshToken.rotate` of the model class is called by nothing; the service has its own.

*Base models.* `row_version` is compared wherever `Personnel` and `Payroll` save a row. Rows older than the column have version 0, at which the library compares nothing; the models start above it. `QuerySet.update` and bulk
deletion pass `row_version` by: `delete selected` of the admin site, which `Hierarchy` and `Personnel` model, and SET NULL (deleting a position). `restore` and `hard_delete` are called by nothing; the trigger that
`core/models.py:204` mentions does not exist. `CurrentUserMiddleware` decides `created_by` and `updated_by`, and sees requests with an access token as anonymous; no property reads these columns.

*Documents.* Categories that allow several documents create a new
document per submission, so nothing interacts. No code in `src/` changes a category. Moving a document to another category by `update` is left out. No
operation deletes a version. The immutable fields of `DocumentVersion.clean` are checked on no path of the services.

*Organisations and employees.* `OrganizationPosition`, which only the admin site writes and whose `sanctioned_count` nothing enforces. `Employee.clean` compares an employee's level with that of
the position, and the position with those sanctioned, in rows it does not lock, as `Position.clean` does with categories; `Assign` of `Taxonomy` leaves the two comparisons out and so allows more than the code. The form of a unit saves at its `row_version` too, which `BeginUnit` leaves to `Fail`; a row added with the box `is_deleted` set, and in `Personnel` the deletion of organizations (a deleted unit keeps its head), are left out. Left out are also transfers entered, edited or deleted by hand; contacts and the service book, which nothing else reads.

*Attendance and leave.* Departure times, the order of dates, the arrival of who is absent. Reports read only, in two queries without a common snapshot.

*Payroll.* A client that names `row_version` names one it has read. Moving an entry to another run or employee, moving a payment to another entry (a body that names its own is modelled), and a run's own columns, are left out.

*Views.* Parsing, formatting, filtering, envelopes, and the heuristics for e-mail domains, which only choose the requests that begin.

*Configuration, routes, migrations* declare; the settings are the models' constants.

## 6. Plan

Done: sessions, signup, documents, hierarchies, classification, personnel, payroll, staff records and administration, each with its proofs, three
abstract specifications with theorems that they are implemented, and the shapes of all deadlocks. What could follow, proofs first:

1. An abstract specification of payroll and of leave requests, to which the serial theorems would be refinements.
2. `SingleActiveDocument` one request at a time (finding 5), for two documents of a category.
3. Files and rows: that a failed scan is the only way a committed version loses its file.
4. Categories in motion, and documents moved between them, once the code lets a category be changed.
5. Transfers entered by hand beside the automatic ones: the list then no longer follows the moves.
6. Reports as two reads beside `StaffRecords`: does a total agree with its rows?
7. A composition of `Personnel` and `Taxonomy` over the employee's row, where SET NULL passes `row_version` by.
