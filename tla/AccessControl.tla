--------------------------- MODULE AccessControl ---------------------------
(***************************************************************************)
(* Who may do what: accounts, the access tokens they hold, and the         *)
(* administration of accounts (authentication/services/user_admin.py).     *)
(*                                                                         *)
(* Every request reads its account once, when it is authenticated; the     *)
(* role and status found then decide, and what becomes of the account      *)
(* before the request commits is not looked at again.                      *)
(***************************************************************************)
EXTENDS Integers

CONSTANTS
    Users,        \* accounts
    Workers,      \* requests served at the same time (a bound)
    Lifetime,     \* PASETO_ACCESS_TOKEN_LIFETIME, in ticks
    None

\* VIEWER stands for the roles that may only read.
Roles == {"SUPERADMIN", "HR_PERSONNEL", "VIEWER"}

Statuses == {"active", "suspended", "invited"}

AdminOps == {"create_user", "update_user", "deactivate_user", "set_status"}

ASSUME AccessAssumption ==
    /\ Lifetime \in Nat \ {0}
    /\ None \notin Users \cup Roles \cup Statuses \cup AdminOps

VARIABLES
    users,    \* the rows of User
    token,    \* ticks until the account's latest access token expires
    txn       \* each worker's request

access == <<users, token, txn>>

-----------------------------------------------------------------------------
Account == [exists : BOOLEAN, role : Roles, status : Statuses, is_active : BOOLEAN,
            is_superuser : BOOLEAN]

Nobody == [exists |-> FALSE, role |-> "VIEWER", status |-> "invited", is_active |-> TRUE,
           is_superuser |-> FALSE]

\* A request of the administration, and what it says.
AdminTxn == [op : AdminOps, actor : Users, target : Users, value : Roles \cup Statuses \cup {None}]

Idle == [op |-> None, actor |-> None, target |-> None, value |-> None]

\* The accounts that may be there already: with the roles and the superusers of before the
\* status column (migration 0001), and what its default made of their status (0002).
Earlier == [exists : {TRUE}, role : Roles, status : {"invited"}, is_active : {TRUE},
            is_superuser : BOOLEAN]

InitAccess ==
    /\ users \in [Users -> {Nobody} \cup Earlier]
    /\ token = [u \in Users |-> 0]
    /\ txn = [w \in Workers |-> Idle]

-----------------------------------------------------------------------------
\* Authentication and permission.

\* PasetoAuthentication._resolve_user.
Usable(row) == row.exists /\ row.is_active /\ row.status = "active"

\* IsSuperAdmin, for the administration; EmployeePermission, for the rest.
Permits(row, op) ==
    row.is_superuser \/ row.role \in IF op \in AdminOps THEN {"SUPERADMIN"}
                                     ELSE {"SUPERADMIN", "HR_PERSONNEL"}

\* The claims of a token hold until exp <= now.
Verified(u) == token[u] > 0

MayAct(u, op) == Verified(u) /\ Usable(users[u]) /\ Permits(users[u], op)

Admins == {u \in Users : Usable(users[u]) /\ Permits(users[u], "set_status")}

Goto(w, t) == txn' = [txn EXCEPT ![w] = t]

\* Who creates, edits or deletes a record is not looked at once they are admitted.
Who(op, u) == IF op \in AdminOps \cup {"approve", "reject"} THEN u ELSE None

Admitted(w, op, u) == txn[w] = Idle /\ MayAct(u, op)

Receive(w, op, u, t, v) ==
    /\ Goto(w, [op |-> op, actor |-> Who(op, u), target |-> t, value |-> v])
    /\ UNCHANGED <<users, token>>

\* A login or a refresh (AuthSessions) issues an access token to a usable account.
Issue(u) ==
    /\ Usable(users[u])
    /\ token' = [token EXCEPT ![u] = Lifetime]
    /\ UNCHANGED <<users, txn>>

Tick ==
    /\ \E u \in Users : token[u] > 0
    /\ token' = [u \in Users |-> IF token[u] > 0 THEN token[u] - 1 ELSE 0]
    /\ UNCHANGED <<users, txn>>

-----------------------------------------------------------------------------
\* The handlers of UserAdminViewSet.  The account is locked from the read to the save,
\* so what happens in between is one step.

CreateUser(w) ==
    LET t == txn[w].target
    IN /\ txn[w].op = "create_user"
       /\ ~users[t].exists
       /\ users' = [users EXCEPT ![t] = [exists |-> TRUE, role |-> txn[w].value, status |-> "active",
                                         is_active |-> TRUE, is_superuser |-> FALSE]]

\* The role may be anyone's, also one's own; is_superuser stays.
UpdateUser(w) ==
    /\ txn[w].op = "update_user"
    /\ users[txn[w].target].exists
    /\ users' = [users EXCEPT ![txn[w].target].role = txn[w].value]

\* Mutation: a status outside the vocabulary.
DeactivateToInactive(w) ==
    /\ txn[w].op = "deactivate_user"
    /\ users[txn[w].target].exists
    /\ users' = [users EXCEPT ![txn[w].target].status = "inactive",
                              ![txn[w].target].is_active = FALSE]

DeactivateUser(w) ==
    /\ txn[w].op = "deactivate_user"
    /\ users[txn[w].target].exists
    /\ users' = [users EXCEPT ![txn[w].target].status = "suspended",
                              ![txn[w].target].is_active = FALSE]

\* The statuses from which each may be reached.
Allowed(status) ==
    IF status = "active" THEN {"invited", "suspended"} ELSE {"active", "invited"}

SetStatus(w) ==
    LET t == txn[w].target
    IN /\ txn[w].op = "set_status"
       /\ users[t].exists
       /\ users[t].status \in Allowed(txn[w].value)
       /\ users' = [users EXCEPT ![t].status = txn[w].value,
                                 ![t].is_active = txn[w].value = "active" \/ users[t].is_active]

Administer(w) ==
    /\ CreateUser(w) \/ UpdateUser(w) \/ DeactivateUser(w) \/ SetStatus(w)
    /\ Goto(w, Idle)
    /\ UNCHANGED token

\* seed_superadmin creates the account of the address it is given, or saves every column
\* of the one it finds, all of these set.
SeedSuperadmin(u) ==
    /\ users' = [users EXCEPT ![u] = [exists |-> TRUE, role |-> "SUPERADMIN", status |-> "active",
                                      is_active |-> TRUE, is_superuser |-> TRUE]]
    /\ UNCHANGED <<token, txn>>

\* Django's createsuperuser, by which src/README.md sets the project up: role and status
\* keep their defaults.
CreateSuperuser(u) ==
    /\ ~users[u].exists
    /\ users' = [users EXCEPT ![u] = [Nobody EXCEPT !.exists = TRUE, !.is_superuser = TRUE]]
    /\ UNCHANGED <<token, txn>>

\* Signup creates an invited account that may only read.
SignUp(u) ==
    /\ ~users[u].exists
    /\ users' = [users EXCEPT ![u] = [Nobody EXCEPT !.exists = TRUE]]
    /\ UNCHANGED <<token, txn>>

\* A request is refused, fails or is killed: nothing is saved.
Abandon(w) ==
    /\ txn[w] # Idle
    /\ Goto(w, Idle)
    /\ UNCHANGED <<users, token>>

\* Mutation: an administrator may suspend themselves.
NotOneself(op, u, t) == op = "deactivate_user" => t # u

\* SelfStatusChangeError.
NotSelf(op, u, t) == op \in {"deactivate_user", "set_status"} => t # u

\* The username of a new account must be free, other requests name an account.
ReceiveAdmin(w, u, t) ==
    \E op \in AdminOps :
        /\ Admitted(w, op, u)
        /\ op = "create_user" <=> ~users[t].exists
        /\ NotSelf(op, u, t)
        /\ \E v \in CASE op \in {"create_user", "update_user"} -> Roles
                       [] op = "set_status" -> {"active", "suspended"}
                       [] OTHER -> {None} : Receive(w, op, u, t, v)

NextAccess ==
    \/ \E w \in Workers : Administer(w) \/ \E u, t \in Users : ReceiveAdmin(w, u, t)
    \/ \E u \in Users : Issue(u) \/ SignUp(u) \/ SeedSuperadmin(u) \/ CreateSuperuser(u)
    \/ Tick

-----------------------------------------------------------------------------
\* No request by an administrator who still is one leaves the system without a
\* superadmin, unless they give up their own role: the last one can only fall to a
\* request whose actor was suspended or demoted after it was authenticated (two
\* superadmins suspending each other), or by their own hand (the self guard, line 160,
\* which the role update lacks, line 102).
SoleAdminSafe ==
    [][Admins # {} /\ Admins' = {} =>
         \E w \in Workers : /\ txn[w] # Idle /\ txn'[w] = Idle
                            /\ \/ txn[w].actor \notin Admins
                               \/ txn[w].op = "update_user" /\ txn[w].target = txn[w].actor]_access

\* A superuser is one for good, and only the two commands make one: neither signup nor
\* the administration of accounts gives or takes is_superuser (UPDATABLE_FIELDS, line 31).
SuperusersForGood ==
    [][\A u \in Users :
          /\ users[u].is_superuser => users'[u].is_superuser
          /\ users'[u].is_superuser /\ ~users[u].is_superuser =>
                SeedSuperadmin(u) \/ CreateSuperuser(u)]_access

\* Nobody can log in and no request that writes is under way: who signs up, and the
\* superuser the documented setup creates, is invited, and who is invited needs an
\* administrator to be activated.
NobodyIn ==
    /\ \A u \in Users : ~Usable(users[u]) /\ token[u] = 0
    /\ \A w \in Workers : txn[w] = Idle

\* A superuser's rights end only by a change of status by somebody else: a demotion takes
\* the role and leaves is_superuser.
SuperusersKept ==
    [][\A u \in Admins : users[u].is_superuser /\ u \notin Admins' =>
         \E w \in Workers : /\ txn[w] # Idle /\ txn'[w] = Idle
                            /\ txn[w].op \in {"deactivate_user", "set_status"}
                            /\ txn[w].target = u /\ txn[w].actor # u]_access

\* Nobody changes their own role (update_user, line 102, lets them).
NoneStepsDown ==
    \A w \in Workers : Administer(w) => ~(txn[w].op = "update_user" /\ txn[w].target = txn[w].actor)

\* A system with a superadmin keeps one.
AdminStays == [][Admins # {} => Admins' # {}]_access

=============================================================================
