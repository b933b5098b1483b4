---------------------------- MODULE AuthSessions ----------------------------
(***************************************************************************)
(* Login, lockout, refresh-token rotation, logout and the administrator's  *)
(* status changes, as concurrent PostgreSQL transactions (READ COMMITTED): *)
(* authentication/services/authentication.py, services/refresh_tokens.py,  *)
(* services/user_admin.py, their repositories and seed_superadmin.         *)
(*                                                                         *)
(* A worker is a request being served on its own connection.  A request    *)
(* locks its rows one by one (SELECT ... FOR UPDATE), reads them, may run  *)
(* one bulk UPDATE over refresh tokens, whose target rows are fixed when   *)
(* the statement starts and are locked one by one, and commits.  What a    *)
(* transaction writes is visible to the others at its commit, so each      *)
(* commit is one action; what it has read is kept in txn[w] and may be     *)
(* stale if the row was not locked.  The lock manager and the rollback of  *)
(* deadlock victims belong to PostgreSQL.                                  *)
(*                                                                         *)
(* Deadlines are kept as the time that remains (ticks), wherever they are  *)
(* stored, so the state space needs no bound on the clock.                 *)
(***************************************************************************)
EXTENDS Integers, FiniteSets

CONSTANTS
    Users,       \* accounts, created beforehand
    Tokens,      \* refresh-token rows that may ever be inserted (a bound)
    Workers,     \* requests served at the same time (a bound)
    None,        \* NULL
    MaxFailed,   \* AUTH_MAX_FAILED_LOGIN_ATTEMPTS
    Lockout,     \* AUTH_LOCKOUT_DURATION, in ticks
    Lifetime,    \* AUTH_REFRESH_TOKEN_LIFETIME, in ticks
    DbFailures   \* may a transaction be rolled back by a failure at any point?

ASSUME SettingsAssumption ==
    /\ MaxFailed \in Nat \ {0}
    /\ Lockout \in Nat \ {0}
    /\ Lifetime \in Nat \ {0}
    /\ DbFailures \in BOOLEAN

VARIABLES
    user,    \* committed account_user rows
    rows,    \* the primary keys present in account_refreshtoken
    token,   \* committed account_refreshtoken rows, by key
    txn,     \* each worker's open transaction
    done     \* the request that ended in the last step, with its reply and event

vars == <<user, rows, token, txn, done>>

-----------------------------------------------------------------------------
Statuses == {"active", "suspended", "invited"}
NotLocked == -1                      \* locked_until IS NULL; 0 is a past deadline

UserRow == [status : Statuses, is_active : BOOLEAN,
            failed_login_count : Nat, locked_for : NotLocked..Lockout]

TokenRow == [user : Users \cup {None}, family : Tokens \cup {None},
             parent : Tokens \cup {None}, is_revoked : BOOLEAN,
             expires_in : 0..Lifetime]

UserOps  == {"login", "bad_login", "activate", "suspend", "deactivate", "seed"}
TokenOps == {"rotate", "logout"}
Ops == UserOps \cup TokenOps
Replies == {"ok", "InvalidCredentials", "AccountLocked", "AccountInactive",
            "InvalidRefreshToken", "TokenReuseDetected",
            "InvalidStatusTransition", "failed"}
Events == {"login", "lockout", "logout", "token_reuse"}

ASSUME NoneAssumption == None \notin Users \cup Tokens \cup Ops \cup Events

Txn == [pc : {"idle", "lock_token", "lock_user", "work", "update"},
        op : Ops \cup {None}, user : Users \cup {None}, token : Tokens \cup {None},
        row : UserRow,               \* the account as read under its lock
        revoked : BOOLEAN,           \* the presented token's is_revoked as read
        todo : SUBSET Tokens,        \* rows the UPDATE has still to visit
        next : Tokens \cup {None},   \* the row of todo it is locking
        hit : SUBSET Tokens]         \* rows it has locked and updated

Outcome == [op : Ops, user : Users, token : Tokens \cup {None},
            reply : Replies, event : Events \cup {None}]

NewUser(s) == [status |-> s, is_active |-> TRUE,
               failed_login_count |-> 0, locked_for |-> NotLocked]
NoRow == [user |-> None, family |-> None, parent |-> None,
          is_revoked |-> FALSE, expires_in |-> 0]
Idle == [pc |-> "idle", op |-> None, user |-> None, token |-> None,
         row |-> NewUser("active"), revoked |-> FALSE,
         todo |-> {}, next |-> None, hit |-> {}]

Init ==
    /\ user \in [Users -> {NewUser(s) : s \in {"active", "invited"}}]
    /\ rows = {}
    /\ token = [t \in Tokens |-> NoRow]
    /\ txn = [w \in Workers |-> Idle]
    /\ done = None

-----------------------------------------------------------------------------
\* Row locks.  They are held until the transaction ends, so they can be read
\* off the transaction's progress.

HoldsUser(w, u) == txn[w].pc \in {"work", "update"} /\ txn[w].user = u
HoldsToken(w, t) ==
    \/ txn[w].pc \in {"lock_user", "work", "update"} /\ txn[w].token = t
    \/ t \in txn[w].hit

UserFree(w, u)  == \A v \in Workers \ {w} : ~HoldsUser(v, u)
TokenFree(w, t) == \A v \in Workers \ {w} : ~HoldsToken(v, t)

WaitsFor(w, v) ==
    /\ v # w
    /\ \/ txn[w].pc = "lock_user" /\ HoldsUser(v, txn[w].user)
       \/ txn[w].pc = "lock_token" /\ HoldsToken(v, txn[w].token)
       \/ txn[w].pc = "update" /\ txn[w].next # None /\ HoldsToken(v, txn[w].next)

Deadlocked(w) ==
    \E S \in SUBSET Workers :
        /\ w \in S
        /\ \A v \in S : (\E x \in S : WaitsFor(v, x)) /\ (\E x \in S : WaitsFor(x, v))

-----------------------------------------------------------------------------
\* Helpers

Live(t) == t \in rows /\ ~token[t].is_revoked
Locked(u) == user[u].locked_for > 0

\* Mutation: the expired lock is dropped but not the count.
ClearExpiredLockKeepingCount(r) ==
    IF r.locked_for = 0 THEN [r EXCEPT !.locked_for = NotLocked] ELSE r

\* login, lines 89-91: an expired lock is dropped, and the count with it, in memory.
ClearExpiredLock(r) ==
    IF r.locked_for = 0
    THEN [r EXCEPT !.locked_for = NotLocked, !.failed_login_count = 0]
    ELSE r

NewToken(u, f, p) == [user |-> u, family |-> f, parent |-> p,
                      is_revoked |-> FALSE, expires_in |-> Lifetime]

Revoke(T) == [t \in Tokens |-> IF t \in T THEN [token[t] EXCEPT !.is_revoked = TRUE]
                                          ELSE token[t]]

\* A request ends: its locks are released, its reply is known, its event is stored.
Finish(w, reply, event) ==
    /\ txn' = [txn EXCEPT ![w] = Idle]
    /\ done' = [op |-> txn[w].op, user |-> txn[w].user, token |-> txn[w].token,
                reply |-> reply, event |-> event]

Working(w, op) == txn[w].pc = "work" /\ txn[w].op = op

\* A bound, not in the code: a request that inserts a row starts only while one is left.
Inserting(w) ==
    \/ txn[w].op = "login"
    \/ txn[w].op = "rotate" /\ ~token[txn[w].token].is_revoked
RoomForToken ==
    Cardinality(rows) + Cardinality({w \in Workers : Inserting(w)}) < Cardinality(Tokens)

-----------------------------------------------------------------------------
\* A request arrives.  Clients may present any token they were ever given: a
\* retry after a lost response, or a second tab, presents one already rotated.

BeginForUser(w, op, u) ==
    /\ txn[w].pc = "idle"
    /\ op = "login" => RoomForToken
    /\ txn' = [txn EXCEPT ![w] = [Idle EXCEPT !.pc = "lock_user", !.op = op, !.user = u]]
    /\ done' = None
    /\ UNCHANGED <<user, rows, token>>

BeginForToken(w, op, t) ==
    /\ txn[w].pc = "idle"
    /\ t \in rows
    /\ op = "rotate" /\ ~token[t].is_revoked => RoomForToken
    /\ txn' = [txn EXCEPT ![w] = [Idle EXCEPT !.pc = "lock_token", !.op = op,
                                              !.user = token[t].user, !.token = t]]
    /\ done' = None
    /\ UNCHANGED <<user, rows, token>>

\* Mutation: the token row is read without select_for_update.
LockTokenNoWait(w) ==
    /\ txn[w].pc = "lock_token"
    /\ txn' = [txn EXCEPT ![w] = [@ EXCEPT !.pc = "lock_user",
                                           !.revoked = token[txn[w].token].is_revoked]]
    /\ done' = None
    /\ UNCHANGED <<user, rows, token>>

\* find_for_update_by_hash locks the token row, then (select_related) its user.
LockToken(w) ==
    /\ txn[w].pc = "lock_token"
    /\ TokenFree(w, txn[w].token)
    /\ txn' = [txn EXCEPT ![w] = [@ EXCEPT !.pc = "lock_user",
                                           !.revoked = token[txn[w].token].is_revoked]]
    /\ done' = None
    /\ UNCHANGED <<user, rows, token>>

\* Mutation: select_for_update(of=("self",)) in rotate, no lock in the others.
LockUserNoWait(w) ==
    /\ txn[w].pc = "lock_user"
    /\ txn' = [txn EXCEPT ![w] = [@ EXCEPT !.pc = "work", !.row = user[txn[w].user]]]
    /\ done' = None
    /\ UNCHANGED <<user, rows, token>>

LockUser(w) ==
    /\ txn[w].pc = "lock_user"
    /\ UserFree(w, txn[w].user)
    /\ txn' = [txn EXCEPT ![w] = [@ EXCEPT !.pc = "work", !.row = user[txn[w].user]]]
    /\ done' = None
    /\ UNCHANGED <<user, rows, token>>

\* A bulk UPDATE starts: its target rows are those of its snapshot.
StartUpdate(w, T) ==
    /\ txn[w].pc = "work"
    /\ \E n \in T \cup {None} :
         /\ n = None <=> T = {}
         /\ txn' = [txn EXCEPT ![w] = [@ EXCEPT !.pc = "update", !.todo = T, !.next = n]]
    /\ done' = None
    /\ UNCHANGED <<user, rows, token>>

\* Mutation: the UPDATE selects by parent instead of family_id.
StartRevokeChildren(w) ==
    /\ Working(w, "rotate")
    /\ txn[w].revoked
    /\ StartUpdate(w, {t \in rows : Live(t) /\ token[t].parent = txn[w].token})

\* revoke_family, in rotate when the presented token was already revoked.
StartRevokeFamily(w) ==
    /\ Working(w, "rotate")
    /\ txn[w].revoked
    /\ StartUpdate(w, {t \in rows : Live(t) /\ token[t].family = token[txn[w].token].family})

\* revoke_all_for_user, in set_status(SUSPENDED) and deactivate_user.
StartRevokeAll(w) ==
    /\ \/ Working(w, "suspend") /\ txn[w].row.status \in {"active", "invited"}
       \/ Working(w, "deactivate")
    /\ StartUpdate(w, {t \in rows : Live(t) /\ token[t].user = txn[w].user})

\* The UPDATE locks its next row, waiting for whoever holds it, and goes on.
UpdateRow(w) ==
    /\ txn[w].pc = "update"
    /\ txn[w].next # None
    /\ TokenFree(w, txn[w].next)
    /\ LET rest == txn[w].todo \ {txn[w].next}
       IN \E n \in rest \cup {None} :
            /\ n = None <=> rest = {}
            /\ txn' = [txn EXCEPT ![w] = [@ EXCEPT !.todo = rest, !.next = n,
                                                   !.hit = txn[w].hit \cup {txn[w].next}]]
    /\ done' = None
    /\ UNCHANGED <<user, rows, token>>

UpdateDone(w, op) == txn[w].pc = "update" /\ txn[w].op = op /\ txn[w].todo = {}

-----------------------------------------------------------------------------
\* login

\* Mutation: login without the lock's check, lines 101-104.
LoginIgnoringLock(w) ==
    /\ Working(w, "login")
    /\ txn[w].row.is_active /\ txn[w].row.status = "active"
    /\ user' = [user EXCEPT ![txn[w].user] = [@ EXCEPT !.failed_login_count = 0, !.locked_for = NotLocked]]
    /\ \E t \in Tokens \ rows :
         /\ rows' = rows \cup {t}
         /\ token' = [token EXCEPT ![t] = NewToken(txn[w].user, t, None)]
    /\ Finish(w, "ok", "login")

Login(w) ==
    /\ Working(w, "login")
    /\ LET u == txn[w].user
           r == ClearExpiredLock(txn[w].row)
       IN \/ /\ r.locked_for > 0
             /\ Finish(w, "AccountLocked", None)
             /\ UNCHANGED <<user, rows, token>>
          \/ /\ r.locked_for <= 0
             /\ ~r.is_active \/ r.status # "active"
             /\ Finish(w, "AccountInactive", None)
             /\ UNCHANGED <<user, rows, token>>
          \/ /\ r.locked_for <= 0
             /\ r.is_active /\ r.status = "active"
             /\ user' = [user EXCEPT ![u] = [@ EXCEPT !.failed_login_count = 0, !.locked_for = NotLocked]]
             /\ \E t \in Tokens \ rows :
                  /\ rows' = rows \cup {t}
                  /\ token' = [token EXCEPT ![t] = NewToken(u, t, None)]
             /\ Finish(w, "ok", "login")

\* Mutation: a wrong password on a locked account counts and locks again.
FailedLoginExtendsLock(w) ==
    /\ Working(w, "bad_login")
    /\ LET u == txn[w].user
           r == ClearExpiredLock(txn[w].row)
           n == IF r.locked_for > 0 THEN MaxFailed ELSE r.failed_login_count + 1
       IN \/ /\ n >= MaxFailed
             /\ user' = [user EXCEPT ![u] = [@ EXCEPT !.failed_login_count = n, !.locked_for = Lockout]]
             /\ Finish(w, "AccountLocked", "lockout")
          \/ /\ n < MaxFailed
             /\ user' = [user EXCEPT ![u] = [@ EXCEPT !.failed_login_count = n, !.locked_for = r.locked_for]]
             /\ Finish(w, "InvalidCredentials", None)
    /\ UNCHANGED <<rows, token>>

\* login with a wrong password: _handle_failed_login, on the row login has read.
FailedLogin(w) ==
    /\ Working(w, "bad_login")
    /\ LET u == txn[w].user
           r == ClearExpiredLock(txn[w].row)
           n == r.failed_login_count + 1
       IN \/ /\ r.locked_for > 0
             /\ Finish(w, "InvalidCredentials", None)
             /\ UNCHANGED user
          \/ /\ r.locked_for <= 0
             /\ n >= MaxFailed
             /\ user' = [user EXCEPT ![u] = [@ EXCEPT !.failed_login_count = n, !.locked_for = Lockout]]
             /\ Finish(w, "AccountLocked", "lockout")
          \/ /\ r.locked_for <= 0
             /\ n < MaxFailed
             /\ user' = [user EXCEPT ![u] = [@ EXCEPT !.failed_login_count = n, !.locked_for = r.locked_for]]
             /\ Finish(w, "InvalidCredentials", None)
    /\ UNCHANGED <<rows, token>>

-----------------------------------------------------------------------------
\* RefreshTokenService.rotate, after find_for_update_by_hash

\* Mutation: the child is created without its parent's family_id.
RotateIntoNewFamily(w) ==
    /\ Working(w, "rotate")
    /\ ~txn[w].revoked
    /\ LET t == txn[w].token
       IN /\ token[t].expires_in > 0
          /\ \E c \in Tokens \ rows :
               /\ rows' = rows \cup {c}
               /\ token' = [Revoke({t}) EXCEPT ![c] = NewToken(token[t].user, c, t)]
    /\ Finish(w, "ok", None)
    /\ UNCHANGED user

Rotate(w) ==
    /\ Working(w, "rotate")
    /\ ~txn[w].revoked
    /\ LET t == txn[w].token
       IN /\ token[t].expires_in > 0
          /\ \E c \in Tokens \ rows :
               /\ rows' = rows \cup {c}
               /\ token' = [Revoke({t}) EXCEPT ![c] = NewToken(token[t].user, token[t].family, t)]
    /\ Finish(w, "ok", None)
    /\ UNCHANGED user

RotateExpired(w) ==
    /\ Working(w, "rotate")
    /\ ~txn[w].revoked
    /\ token[txn[w].token].expires_in = 0
    /\ token' = Revoke({txn[w].token})
    /\ Finish(w, "InvalidRefreshToken", None)
    /\ UNCHANGED <<user, rows>>

\* The TOKEN_REUSE event is stored and the revocation commits before the error is raised.
ReuseDetected(w) ==
    /\ UpdateDone(w, "rotate")
    /\ token' = Revoke(txn[w].hit)
    /\ Finish(w, "TokenReuseDetected", "token_reuse")
    /\ UNCHANGED <<user, rows>>

\* Mutation: a repeated logout returns without ending its transaction.
LogoutLeavingTransaction(w) ==
    /\ Working(w, "logout")
    /\ ~txn[w].revoked
    /\ token' = Revoke({txn[w].token})
    /\ Finish(w, "ok", "logout")
    /\ UNCHANGED <<user, rows>>

\* Mutation: the event is stored without looking at was_already_revoked.
LogoutAlwaysRecorded(w) ==
    /\ Working(w, "logout")
    /\ token' = Revoke({txn[w].token})
    /\ Finish(w, "ok", "logout")
    /\ UNCHANGED <<user, rows>>

\* logout: RefreshTokenService.revoke, and the event of the first revocation.
Logout(w) ==
    /\ Working(w, "logout")
    /\ IF txn[w].revoked
       THEN Finish(w, "ok", None) /\ UNCHANGED token
       ELSE Finish(w, "ok", "logout") /\ token' = Revoke({txn[w].token})
    /\ UNCHANGED <<user, rows>>

-----------------------------------------------------------------------------
\* UserAdminService and seed_superadmin

SetStatusRejected(w) ==
    /\ \/ Working(w, "activate") /\ txn[w].row.status \notin {"invited", "suspended"}
       \/ Working(w, "suspend") /\ txn[w].row.status \notin {"active", "invited"}
    /\ Finish(w, "InvalidStatusTransition", None)
    /\ UNCHANGED <<user, rows, token>>

\* Mutation: activation resets the count and forgets the lock.
ActivateKeepingLock(w) ==
    /\ \/ Working(w, "activate") /\ txn[w].row.status \in {"invited", "suspended"}
       \/ Working(w, "seed")
    /\ user' = [user EXCEPT ![txn[w].user] = [NewUser("active") EXCEPT
                                                !.locked_for = user[txn[w].user].locked_for]]
    /\ Finish(w, "ok", None)
    /\ UNCHANGED <<rows, token>>

\* set_status(ACTIVE) clears the lockout; seed_superadmin writes every column so.
Activate(w) ==
    /\ \/ Working(w, "activate") /\ txn[w].row.status \in {"invited", "suspended"}
       \/ Working(w, "seed")
    /\ user' = [user EXCEPT ![txn[w].user] = NewUser("active")]
    /\ Finish(w, "ok", None)
    /\ UNCHANGED <<rows, token>>

Suspend(w) ==
    /\ UpdateDone(w, "suspend")
    /\ user' = [user EXCEPT ![txn[w].user].status = "suspended"]
    /\ token' = Revoke(txn[w].hit)
    /\ Finish(w, "ok", None)
    /\ UNCHANGED rows

\* Mutation: the status written is none of User.Status, which save() accepts.
DeactivateWithUnknownStatus(w) ==
    /\ UpdateDone(w, "deactivate")
    /\ user' = [user EXCEPT ![txn[w].user].status = "deactivated"]
    /\ token' = Revoke(txn[w].hit)
    /\ Finish(w, "ok", None)
    /\ UNCHANGED rows

Deactivate(w) ==
    /\ UpdateDone(w, "deactivate")
    /\ user' = [user EXCEPT ![txn[w].user] = [@ EXCEPT !.status = "suspended", !.is_active = FALSE]]
    /\ token' = Revoke(txn[w].hit)
    /\ Finish(w, "ok", None)
    /\ UNCHANGED rows

-----------------------------------------------------------------------------
\* PostgreSQL rolls back one transaction of a deadlock; a lost connection or a
\* killed worker rolls back any.  The request answers 500 or nothing.

Victim(w) ==
    /\ Deadlocked(w)
    /\ Finish(w, "failed", None)
    /\ UNCHANGED <<user, rows, token>>

Fail(w) ==
    /\ DbFailures
    /\ txn[w].pc # "idle"
    /\ Finish(w, "failed", None)
    /\ UNCHANGED <<user, rows, token>>

\* A tick of the clock brings every deadline nearer, also those already read.
Dec(n) == IF n > 0 THEN n - 1 ELSE n

Tick ==
    /\ (\E u \in Users : Locked(u)) \/ (\E t \in rows : Live(t) /\ token[t].expires_in > 0)
    /\ user' = [u \in Users |-> [user[u] EXCEPT !.locked_for = Dec(@)]]
    /\ token' = [t \in Tokens |-> IF Live(t) THEN [token[t] EXCEPT !.expires_in = Dec(@)]
                                             ELSE token[t]]
    /\ txn' = [w \in Workers |-> [txn[w] EXCEPT !.row.locked_for = Dec(@)]]
    /\ done' = None
    /\ UNCHANGED rows

Commit(w) ==
    \/ Login(w) \/ FailedLogin(w)
    \/ Rotate(w) \/ RotateExpired(w) \/ ReuseDetected(w) \/ Logout(w)
    \/ SetStatusRejected(w) \/ Activate(w) \/ Suspend(w) \/ Deactivate(w)

\* A request that has begun goes on.
Step(w) ==
    \/ LockToken(w) \/ LockUser(w)
    \/ StartRevokeFamily(w) \/ StartRevokeAll(w) \/ UpdateRow(w)
    \/ Commit(w)

Next ==
    \/ \E w \in Workers :
         \/ \E op \in UserOps, u \in Users : BeginForUser(w, op, u)
         \/ \E op \in TokenOps, t \in Tokens : BeginForToken(w, op, t)
         \/ Step(w) \/ Victim(w) \/ Fail(w)
    \/ Tick

Spec == Init /\ [][Next]_vars

\* A lock queue is served in order, so a request that keeps being able to take
\* its lock takes it; statements and commits run; deadlocks are detected after
\* deadlock_timeout; the clock advances.  Clients owe nothing.
Fairness ==
    /\ \A w \in Workers : SF_vars(Step(w))
    /\ WF_vars(\E w \in Workers : Victim(w))
    /\ WF_vars(Tick)

FairSpec == Spec /\ Fairness

-----------------------------------------------------------------------------
(* Properties *)

TypeOK ==
    /\ user \in [Users -> UserRow]
    /\ rows \subseteq Tokens
    /\ token \in [Tokens -> TokenRow]
    /\ txn \in [Workers -> Txn]
    /\ done \in Outcome \cup {None}

\* However refreshes, logouts, reuse detection and suspensions interleave, a
\* token family never has two tokens that can both still be rotated.
OneLiveTokenPerFamily ==
    \A s, t \in rows : Live(s) /\ Live(t) /\ token[s].family = token[t].family => s = t

\* rotate's promise: two requests never both rotate the same token, at once or later.
RotatedOnce ==
    \A s, t \in rows : token[s].parent # None /\ token[s].parent = token[t].parent => s = t

\* rotate never looks at the account's status; it need not, because an account
\* that is suspended or disabled has no token left that can be rotated, not
\* even one inserted by a rotation that was under way when it was suspended.
LiveTokenOwnerActive ==
    \A t \in rows : Live(t) => /\ user[token[t].user].status = "active"
                               /\ user[token[t].user].is_active

\* The failure count never passes its limit, reaches it exactly when a lock is
\* set, and does not outlive the lock: one more failure after it does not lock again.
LockoutMatchesCount ==
    \A u \in Users :
        /\ user[u].failed_login_count <= MaxFailed
        /\ user[u].failed_login_count = MaxFailed <=> user[u].locked_for # NotLocked

\* When reuse is detected, no token of the family survives the commit.
ReuseStep ==
    done' # None /\ done'.event = "token_reuse"
    => \A t \in rows' : token'[t].family = token'[done'.token].family => token'[t].is_revoked
ReuseRevokesFamily == [][ReuseStep]_vars

\* One LOGOUT event per token, and only from the request that revoked it.
LogoutStep ==
    done' # None /\ done'.event = "logout"
    => Live(done'.token) /\ token'[done'.token].is_revoked
LogoutRecordedOnce == [][LogoutStep]_vars

\* No wrong password is lost: each raises the committed count by one (from zero
\* after an expired lock), unless the account is locked at that moment.
FailureStep ==
    done' # None /\ done'.op = "bad_login" /\ done'.reply # "failed"
    => \/ Locked(done'.user)
       \/ user'[done'.user].failed_login_count
            = ClearExpiredLock(user[done'.user]).failed_login_count + 1
EveryFailureCounts == [][FailureStep]_vars

\* A correct password opens a session only on the state the account has when
\* the session is committed: unlocked, enabled and active.
LoginStep ==
    done' # None /\ done'.op = "login" /\ done'.reply = "ok"
    => /\ ~Locked(done'.user)
       /\ user[done'.user].is_active /\ user[done'.user].status = "active"
LoginOnUnlockedAccount == [][LoginStep]_vars

\* A session that has ended stays ended: a family without a live token never gets
\* one again, neither from a retried refresh nor from one that was under way when
\* the family was logged out, revoked or suspended.
SessionsStayEnded ==
    [][\A f \in rows : (\A t \in rows : token[t].family = f => ~Live(t))
                      => \A t \in rows' : token'[t].family = f => token'[t].is_revoked]_vars

\* w runs a bulk UPDATE of an account's tokens and waits for the one that v, a
\* refresh or logout, presented; v waits for the account, which w has locked.
UpdateAgainstToken(w, v) ==
    /\ txn[w].pc = "update" /\ txn[w].next # None /\ txn[w].next = txn[v].token
    /\ txn[v].pc = "lock_user" /\ txn[v].op \in TokenOps /\ txn[v].user = txn[w].user

\* However many requests are under way, a deadlock is always between two of them:
\* a reuse detection, suspension or deactivation and a refresh or logout on the
\* same account.  A login, a wrong password or an activation is never its victim.
DeadlocksArePairs ==
    \A w \in Workers : Deadlocked(w) =>
        \E v \in Workers : UpdateAgainstToken(w, v) \/ UpdateAgainstToken(v, w)

\* What the token model's docstring promises: presenting a revoked token leaves its family without
\* a live token once the request has ended.  The code does not keep it.
ReuseContained ==
    [][\A w \in Workers :
        txn[w].op = "rotate" /\ txn[w].revoked /\ txn'[w].pc = "idle"
        => \A t \in rows' : token'[t].family = token'[txn[w].token].family
                             => token'[t].is_revoked]_vars

\* Every request ends, whatever it waits for: a deadlock is always broken.
RequestsFinish == \A w \in Workers : txn[w].pc # "idle" ~> txn[w].pc = "idle"

\* A lockout ends by itself, also if wrong passwords keep arriving.
LockoutEnds == \A u \in Users : Locked(u) ~> ~Locked(u)

-----------------------------------------------------------------------------
(* The inductive invariant behind them *)

\* A family is named after a row of the same account that has not gone.
FamiliesWellFormed ==
    \A t \in rows : /\ token[t].user \in Users
                    /\ token[t].family \in rows
                    /\ token[token[t].family].user = token[t].user

\* A token that has a child was revoked when the child was inserted.
ParentsRevoked ==
    \A t \in rows : token[t].parent # None
                     => token[t].parent \in rows /\ token[token[t].parent].is_revoked

\* What a transaction may hold at each point of its progress.
TxnWellFormed(w) ==
    /\ txn[w].pc # "idle" => txn[w].op \in Ops /\ txn[w].user \in Users
    /\ txn[w].op \in TokenOps => /\ txn[w].token \in rows
                                 /\ token[txn[w].token].user = txn[w].user
    /\ txn[w].op \notin TokenOps => txn[w].token = None /\ txn[w].pc # "lock_token"
    /\ txn[w].pc # "update" => txn[w].hit = {} /\ txn[w].todo = {}
    /\ txn[w].pc = "update" => /\ txn[w].op \in {"rotate", "suspend", "deactivate"}
                               /\ txn[w].op = "rotate" => txn[w].revoked
    /\ txn[w].hit \cup txn[w].todo \subseteq rows
    /\ txn[w].next # None => txn[w].next \in txn[w].todo

\* No row is locked by two transactions.
LocksExclusive ==
    \A v, w \in Workers : v # w =>
        /\ \A u \in Users : ~(HoldsUser(v, u) /\ HoldsUser(w, u))
        /\ \A t \in Tokens : ~(HoldsToken(v, t) /\ HoldsToken(w, t))

\* What was read under a lock is still so.
ReadsCurrent(w) ==
    /\ txn[w].pc \in {"work", "update"} => txn[w].row = user[txn[w].user]
    /\ txn[w].pc \in {"lock_user", "work", "update"} /\ txn[w].op \in TokenOps
        => txn[w].revoked = token[txn[w].token].is_revoked

\* The rows a bulk UPDATE must hit.
Targets(w) ==
    {t \in rows : /\ Live(t)
                  /\ IF txn[w].op = "rotate"
                     THEN token[t].family = token[txn[w].token].family
                     ELSE token[t].user = txn[w].user}

\* The snapshot of a bulk UPDATE misses no row: whoever could insert one, as the
\* child of a rotation or in a login, needs the account's lock to commit.
UpdateCoversTargets(w) ==
    txn[w].pc = "update" => Targets(w) \subseteq txn[w].todo \cup txn[w].hit

\* A bulk UPDATE visits the rows of one account only, revoke_family's too.
UpdateOnOneAccount(w) ==
    \A t \in txn[w].todo \cup txn[w].hit : token[t].user = txn[w].user
UpdatesStayInAccount == \A w \in Workers : UpdateOnOneAccount(w)

DataInv ==
    /\ FamiliesWellFormed /\ ParentsRevoked
    /\ OneLiveTokenPerFamily /\ RotatedOnce /\ LiveTokenOwnerActive
    /\ LockoutMatchesCount

TxnInv ==
    /\ \A w \in Workers : TxnWellFormed(w) /\ ReadsCurrent(w) /\ UpdateCoversTargets(w)
    /\ LocksExclusive

IInv == TypeOK /\ DataInv /\ TxnInv

-----------------------------------------------------------------------------
\* The refresh-token rows keep the promise of TokenFamilies.

OneOf(S) == IF S = {} THEN None ELSE CHOOSE t \in S : TRUE

LiveTokens == [f \in Tokens |-> {t \in rows : Live(t) /\ token[t].family = f}]
CurrentToken == [f \in Tokens |-> OneOf(LiveTokens[f])]
SpentTokens == {t \in rows : token[t].is_revoked}

Families == INSTANCE TokenFamilies WITH current <- CurrentToken, spent <- SpentTokens

\* Every step of the sessions is a login, a rotation or a closing of families,
\* as TokenFamilies allows them, or leaves the families alone.
ImplementsFamilies == Families!Spec
=============================================================================
