------------------------- MODULE AuthSessions_proofs ------------------------
(***************************************************************************)
(* Proofs about AuthSessions, for every set of accounts, of token rows and *)
(* of concurrent requests.                                                 *)
(***************************************************************************)
EXTENDS AuthSessions, TLAPS

USE SettingsAssumption, NoneAssumption

-----------------------------------------------------------------------------
(* Type correctness *)

\* The constant rows are rows.
LEMMA ConstantRows ==
    /\ \A s \in Statuses : NewUser(s) \in UserRow
    /\ NoRow \in TokenRow
    /\ Idle \in Txn
    /\ \A u \in Users, f \in Tokens, p \in Tokens \cup {None} : NewToken(u, f, p) \in TokenRow
BY DEF NewUser, UserRow, Statuses, NotLocked, NoRow, TokenRow, Idle, Txn, NewToken

\* A bulk revocation keeps rows rows.
LEMMA RevokeType ==
    ASSUME token \in [Tokens -> TokenRow], NEW T
    PROVE  Revoke(T) \in [Tokens -> TokenRow]
BY DEF Revoke, TokenRow

\* Ending a request leaves well-typed transactions and a well-typed outcome.
LEMMA FinishType ==
    ASSUME TypeOK, NEW w \in Workers, NEW reply \in Replies, NEW event \in Events \cup {None},
           txn[w].op \in Ops, txn[w].user \in Users, Finish(w, reply, event)
    PROVE  txn' \in [Workers -> Txn] /\ done' \in Outcome \cup {None}
<1>1. txn' \in [Workers -> Txn]
  BY ConstantRows DEF Finish, TypeOK
<1>2. txn[w].token \in Tokens \cup {None}
  BY DEF TypeOK, Txn
<1>3. done' \in Outcome
  BY <1>2 DEF Finish, Outcome
<1> QED
  BY <1>1, <1>3

-----------------------------------------------------------------------------
(* Steps that write no row *)

\* A step that leaves the tables alone keeps what is said of them.
LEMMA DataUnchanged ==
    ASSUME DataInv, UNCHANGED <<user, rows, token>>
    PROVE  DataInv'
BY DEF DataInv, FamiliesWellFormed, ParentsRevoked, OneLiveTokenPerFamily, RotatedOnce,
       LiveTokenOwnerActive, LockoutMatchesCount, Live

\* In such a step the other transactions stand as they stood.
LEMMA OthersUnchanged ==
    ASSUME TxnInv, UNCHANGED <<user, rows, token>>, NEW v \in Workers, txn'[v] = txn[v]
    PROVE  TxnWellFormed(v)' /\ ReadsCurrent(v)' /\ UpdateCoversTargets(v)'
BY DEF TxnInv, TxnWellFormed, ReadsCurrent, UpdateCoversTargets, Targets, Live

\* If w takes only locks that are free, no row is locked twice.
LEMMA LockStep ==
    ASSUME TxnInv, NEW w \in Workers, \A v \in Workers \ {w} : txn'[v] = txn[v],
           \A u \in Users : HoldsUser(w, u)' => HoldsUser(w, u) \/ UserFree(w, u),
           \A t \in Tokens : HoldsToken(w, t)' => HoldsToken(w, t) \/ TokenFree(w, t)
    PROVE  LocksExclusive'
BY DEF TxnInv, LocksExclusive, HoldsUser, HoldsToken, UserFree, TokenFree

\* A request that ends without writing.
LEMMA FinishUnchanged ==
    ASSUME IInv, NEW w \in Workers, txn[w].pc # "idle", NEW reply \in Replies,
           NEW event \in Events \cup {None}, Finish(w, reply, event),
           UNCHANGED <<user, rows, token>>
    PROVE  IInv'
<1>1. txn[w].op \in Ops /\ txn[w].user \in Users
  BY DEF IInv, TxnInv, TxnWellFormed
<1>2. TypeOK'
  BY <1>1, FinishType DEF IInv, TypeOK
<1>3. DataInv'
  BY DataUnchanged DEF IInv
<1>4. /\ txn'[w] = Idle
      /\ \A v \in Workers \ {w} : txn'[v] = txn[v]
  BY DEF Finish, IInv, TypeOK
<1>5. ASSUME NEW v \in Workers
      PROVE  TxnWellFormed(v)' /\ ReadsCurrent(v)' /\ UpdateCoversTargets(v)'
  <2>1. CASE v = w
    BY <1>4, <2>1, NoneAssumption DEF Idle, TxnWellFormed, ReadsCurrent, UpdateCoversTargets, Ops
  <2>2. CASE v # w
    BY <1>4, <2>2, OthersUnchanged DEF IInv
  <2> QED
    BY <2>1, <2>2
<1>6. LocksExclusive'
  <2>1. \A u \in Users : ~HoldsUser(w, u)'
    BY <1>4 DEF HoldsUser, Idle
  <2>2. \A t \in Tokens : ~HoldsToken(w, t)'
    BY <1>4 DEF HoldsToken, Idle
  <2> QED
    BY <1>4, <2>1, <2>2, LockStep DEF IInv
<1> QED
  BY <1>2, <1>3, <1>5, <1>6 DEF IInv, TxnInv

\* A step of one transaction that writes no row keeps the invariant if it keeps
\* what is said of that transaction and takes only free locks.
LEMMA LocalStep ==
    ASSUME IInv, NEW w \in Workers, NEW x \in Txn, txn' = [txn EXCEPT ![w] = x],
           done' = None, UNCHANGED <<user, rows, token>>,
           TxnWellFormed(w)', ReadsCurrent(w)', UpdateCoversTargets(w)',
           \A u \in Users : HoldsUser(w, u)' => HoldsUser(w, u) \/ UserFree(w, u),
           \A t \in Tokens : HoldsToken(w, t)' => HoldsToken(w, t) \/ TokenFree(w, t)
    PROVE  IInv'
<1>1. TypeOK'
  BY DEF IInv, TypeOK
<1>2. DataInv'
  BY DataUnchanged DEF IInv
<1>3. \A v \in Workers \ {w} : txn'[v] = txn[v]
  BY DEF IInv, TypeOK
<1>4. \A v \in Workers : TxnWellFormed(v)' /\ ReadsCurrent(v)' /\ UpdateCoversTargets(v)'
  BY <1>3, OthersUnchanged DEF IInv
<1>5. LocksExclusive'
  BY <1>3, LockStep DEF IInv
<1> QED
  BY <1>1, <1>2, <1>4, <1>5 DEF IInv, TxnInv

LEMMA BeginForUserInv ==
    ASSUME IInv, NEW w \in Workers, NEW op \in UserOps, NEW u \in Users, BeginForUser(w, op, u)
    PROVE  IInv'
<1> DEFINE x == [Idle EXCEPT !.pc = "lock_user", !.op = op, !.user = u]
<1>1. x \in Txn /\ x.pc = "lock_user" /\ x.op = op /\ x.user = u /\ x.token = None
      /\ x.hit = {} /\ x.todo = {} /\ x.next = None
  BY ConstantRows DEF Txn, Ops, Idle
<1>2. txn' = [txn EXCEPT ![w] = x] /\ txn'[w] = x
  BY DEF BeginForUser, IInv, TypeOK
<1>3. op \in Ops /\ op \notin TokenOps
  BY DEF Ops, UserOps, TokenOps
<1> HIDE DEF x
<1>4. TxnWellFormed(w)' /\ ReadsCurrent(w)' /\ UpdateCoversTargets(w)'
  BY <1>1, <1>2, <1>3 DEF TxnWellFormed, ReadsCurrent, UpdateCoversTargets
<1>5. \A y \in Users : ~HoldsUser(w, y)'
  BY <1>1, <1>2 DEF HoldsUser
<1>6. \A t \in Tokens : ~HoldsToken(w, t)'
  BY <1>1, <1>2, NoneAssumption DEF HoldsToken
<1> QED
  BY <1>1, <1>2, <1>4, <1>5, <1>6, LocalStep DEF BeginForUser

LEMMA BeginForTokenInv ==
    ASSUME IInv, NEW w \in Workers, NEW op \in TokenOps, NEW t \in Tokens, BeginForToken(w, op, t)
    PROVE  IInv'
<1> DEFINE x == [Idle EXCEPT !.pc = "lock_token", !.op = op, !.user = token[t].user, !.token = t]
<1>1. t \in rows /\ token[t].user \in Users
  BY DEF BeginForToken, IInv, DataInv, FamiliesWellFormed
<1>2. x \in Txn /\ x.pc = "lock_token" /\ x.op = op /\ x.user = token[t].user /\ x.token = t
      /\ x.hit = {} /\ x.todo = {} /\ x.next = None
  BY <1>1, ConstantRows DEF Txn, Ops, Idle
<1>3. txn' = [txn EXCEPT ![w] = x] /\ txn'[w] = x
  BY DEF BeginForToken, IInv, TypeOK
<1> HIDE DEF x
<1>4. TxnWellFormed(w)' /\ ReadsCurrent(w)' /\ UpdateCoversTargets(w)'
  BY <1>1, <1>2, <1>3 DEF TxnWellFormed, ReadsCurrent, UpdateCoversTargets, BeginForToken, Ops
<1>5. \A y \in Users : ~HoldsUser(w, y)'
  BY <1>2, <1>3 DEF HoldsUser
<1>6. \A y \in Tokens : ~HoldsToken(w, y)'
  BY <1>2, <1>3 DEF HoldsToken
<1> QED
  BY <1>2, <1>3, <1>4, <1>5, <1>6, LocalStep DEF BeginForToken

LEMMA LockTokenInv ==
    ASSUME IInv, NEW w \in Workers, LockToken(w)
    PROVE  IInv'
<1> DEFINE x == [txn[w] EXCEPT !.pc = "lock_user", !.revoked = token[txn[w].token].is_revoked]
<1>1. /\ txn[w] \in Txn /\ TxnWellFormed(w) /\ txn[w].pc = "lock_token"
      /\ txn[w].op \in TokenOps /\ txn[w].token \in rows /\ rows \subseteq Tokens
  BY DEF IInv, TypeOK, TxnInv, TxnWellFormed, LockToken
<1>2. token[txn[w].token].is_revoked \in BOOLEAN
  BY <1>1 DEF IInv, TypeOK, TokenRow
<1>3. /\ x \in Txn /\ x.pc = "lock_user" /\ x.op = txn[w].op /\ x.user = txn[w].user
      /\ x.token = txn[w].token /\ x.hit = txn[w].hit /\ x.todo = txn[w].todo /\ x.next = txn[w].next
      /\ x.revoked = token[txn[w].token].is_revoked
  BY <1>1, <1>2 DEF Txn
<1>4. txn' = [txn EXCEPT ![w] = x] /\ txn'[w] = x
  BY DEF LockToken, IInv, TypeOK
<1> HIDE DEF x
<1>5. TxnWellFormed(w)' /\ ReadsCurrent(w)' /\ UpdateCoversTargets(w)'
  BY <1>1, <1>3, <1>4 DEF TxnWellFormed, ReadsCurrent, UpdateCoversTargets, LockToken
<1>6. \A y \in Users : ~HoldsUser(w, y)'
  BY <1>3, <1>4 DEF HoldsUser
<1>7. \A y \in Tokens : HoldsToken(w, y)' => TokenFree(w, y)
  BY <1>1, <1>3, <1>4 DEF HoldsToken, LockToken, TxnWellFormed
<1> QED
  BY <1>3, <1>4, <1>5, <1>6, <1>7, LocalStep DEF LockToken

LEMMA LockUserInv ==
    ASSUME IInv, NEW w \in Workers, LockUser(w)
    PROVE  IInv'
<1> DEFINE x == [txn[w] EXCEPT !.pc = "work", !.row = user[txn[w].user]]
<1>1. /\ txn[w] \in Txn /\ TxnWellFormed(w) /\ ReadsCurrent(w) /\ txn[w].pc = "lock_user"
      /\ txn[w].user \in Users
  BY DEF IInv, TypeOK, TxnInv, TxnWellFormed, LockUser
<1>2. user[txn[w].user] \in UserRow
  BY <1>1 DEF IInv, TypeOK
<1>3. /\ x \in Txn /\ x.pc = "work" /\ x.op = txn[w].op /\ x.user = txn[w].user
      /\ x.token = txn[w].token /\ x.hit = txn[w].hit /\ x.todo = txn[w].todo /\ x.next = txn[w].next
      /\ x.revoked = txn[w].revoked /\ x.row = user[txn[w].user]
  BY <1>1, <1>2 DEF Txn
<1>4. txn' = [txn EXCEPT ![w] = x] /\ txn'[w] = x
  BY DEF LockUser, IInv, TypeOK
<1> HIDE DEF x
<1>5. TxnWellFormed(w)' /\ ReadsCurrent(w)' /\ UpdateCoversTargets(w)'
  BY <1>1, <1>3, <1>4 DEF TxnWellFormed, ReadsCurrent, UpdateCoversTargets, LockUser
<1>6. \A y \in Users : HoldsUser(w, y)' => UserFree(w, y)
  BY <1>3, <1>4 DEF HoldsUser, LockUser
<1>7. \A y \in Tokens : HoldsToken(w, y)' => HoldsToken(w, y)
  BY <1>1, <1>3, <1>4 DEF HoldsToken
<1> QED
  BY <1>3, <1>4, <1>5, <1>6, <1>7, LocalStep DEF LockUser

\* A bulk UPDATE that starts on exactly its targets covers them.
LEMMA StartUpdateInv ==
    ASSUME IInv, NEW w \in Workers, StartUpdate(w, Targets(w)),
           txn[w].op \in {"rotate", "suspend", "deactivate"},
           txn[w].op = "rotate" => txn[w].revoked
    PROVE  IInv'
<1>1. /\ txn[w] \in Txn /\ TxnWellFormed(w) /\ ReadsCurrent(w) /\ txn[w].pc = "work"
      /\ txn[w].hit = {} /\ rows \subseteq Tokens
  BY DEF IInv, TypeOK, TxnInv, TxnWellFormed, StartUpdate
<1>2. Targets(w) \subseteq rows
  BY DEF Targets
<1>3. PICK n \in Targets(w) \cup {None} :
        txn' = [txn EXCEPT ![w] = [@ EXCEPT !.pc = "update", !.todo = Targets(w), !.next = n]]
  BY DEF StartUpdate
<1> DEFINE x == [txn[w] EXCEPT !.pc = "update", !.todo = Targets(w), !.next = n]
<1>4. /\ x \in Txn /\ x.pc = "update" /\ x.op = txn[w].op /\ x.user = txn[w].user
      /\ x.token = txn[w].token /\ x.hit = {} /\ x.todo = Targets(w) /\ x.next = n
      /\ x.revoked = txn[w].revoked /\ x.row = txn[w].row
  BY <1>1, <1>2 DEF Txn
<1>5. txn' = [txn EXCEPT ![w] = x] /\ txn'[w] = x
  BY <1>3 DEF IInv, TypeOK
<1> HIDE DEF x
<1>6. UNCHANGED <<user, rows, token>> /\ done' = None
  BY DEF StartUpdate
<1>7. TxnWellFormed(w)'
  BY <1>1, <1>2, <1>4, <1>5, <1>6 DEF TxnWellFormed, TokenOps
<1>8. ReadsCurrent(w)'
  BY <1>1, <1>4, <1>5, <1>6 DEF ReadsCurrent
<1>9. Targets(w)' = Targets(w)
  BY <1>4, <1>5, <1>6 DEF Targets, Live
<1>10. UpdateCoversTargets(w)'
  BY <1>4, <1>5, <1>9 DEF UpdateCoversTargets
<1>11. \A y \in Users : HoldsUser(w, y)' => HoldsUser(w, y)
  BY <1>1, <1>4, <1>5 DEF HoldsUser
<1>12. \A y \in Tokens : HoldsToken(w, y)' => HoldsToken(w, y)
  BY <1>1, <1>4, <1>5 DEF HoldsToken
<1> QED
  BY <1>4, <1>5, <1>6, <1>7, <1>8, <1>10, <1>11, <1>12, LocalStep

LEMMA UpdateRowInv ==
    ASSUME IInv, NEW w \in Workers, UpdateRow(w)
    PROVE  IInv'
<1> DEFINE rest == txn[w].todo \ {txn[w].next}
<1>1. /\ txn[w] \in Txn /\ TxnWellFormed(w) /\ ReadsCurrent(w) /\ UpdateCoversTargets(w)
      /\ txn[w].pc = "update" /\ rows \subseteq Tokens /\ txn[w].next # None
  BY DEF IInv, TypeOK, TxnInv, UpdateRow
<1>2. txn[w].next \in Tokens
  BY <1>1 DEF Txn
<1>3. PICK n \in rest \cup {None} :
        txn' = [txn EXCEPT ![w] = [@ EXCEPT !.todo = rest, !.next = n,
                                            !.hit = txn[w].hit \cup {txn[w].next}]]
  BY DEF UpdateRow
<1> DEFINE x == [txn[w] EXCEPT !.todo = rest, !.next = n, !.hit = txn[w].hit \cup {txn[w].next}]
<1>4. /\ x \in Txn /\ x.pc = "update" /\ x.op = txn[w].op /\ x.user = txn[w].user
      /\ x.token = txn[w].token /\ x.hit = txn[w].hit \cup {txn[w].next} /\ x.todo = rest /\ x.next = n
      /\ x.revoked = txn[w].revoked /\ x.row = txn[w].row
  BY <1>1, <1>2 DEF Txn
<1>5. txn' = [txn EXCEPT ![w] = x] /\ txn'[w] = x
  BY <1>3 DEF IInv, TypeOK
<1> HIDE DEF x
<1>6. UNCHANGED <<user, rows, token>> /\ done' = None
  BY DEF UpdateRow
<1>7. TxnWellFormed(w)'
  BY <1>1, <1>4, <1>5, <1>6 DEF TxnWellFormed
<1>8. ReadsCurrent(w)'
  BY <1>1, <1>4, <1>5, <1>6 DEF ReadsCurrent
<1>9. Targets(w)' = Targets(w)
  BY <1>4, <1>5, <1>6 DEF Targets, Live
<1>10. UpdateCoversTargets(w)'
  BY <1>1, <1>4, <1>5, <1>9 DEF UpdateCoversTargets
<1>11. \A y \in Users : HoldsUser(w, y)' => HoldsUser(w, y)
  BY <1>1, <1>4, <1>5 DEF HoldsUser
<1>12. \A y \in Tokens : HoldsToken(w, y)' => HoldsToken(w, y) \/ TokenFree(w, y)
  BY <1>1, <1>4, <1>5 DEF HoldsToken, UpdateRow
<1> QED
  BY <1>4, <1>5, <1>6, <1>7, <1>8, <1>10, <1>11, <1>12, LocalStep

-----------------------------------------------------------------------------
(* Commits that write *)

\* What a commit may write while the other transactions rely on their locks:
\* its own account, tokens it holds, new tokens of its own account.
LEMMA CommitFrame ==
    ASSUME IInv, NEW w \in Workers, txn[w].pc \in {"work", "update"}, NEW reply \in Replies,
           NEW event \in Events \cup {None}, Finish(w, reply, event),
           user' \in [Users -> UserRow], token' \in [Tokens -> TokenRow],
           rows \subseteq rows', rows' \subseteq Tokens,
           \A u \in Users \ {txn[w].user} : user'[u] = user[u],
           \A t \in rows : /\ token'[t].user = token[t].user
                           /\ token'[t].family = token[t].family
                           /\ token[t].is_revoked => token'[t].is_revoked
                           /\ HoldsToken(w, t) \/ token'[t].is_revoked = token[t].is_revoked,
           \A t \in rows' \ rows : token'[t].user = txn[w].user,
           DataInv'
    PROVE  IInv'
<1>1. /\ txn[w].op \in Ops /\ txn[w].user \in Users
      /\ HoldsUser(w, txn[w].user)
  BY DEF IInv, TxnInv, TxnWellFormed, HoldsUser
<1>2. TypeOK'
  BY <1>1, FinishType DEF IInv, TypeOK
<1>3. /\ txn'[w] = Idle
      /\ \A v \in Workers \ {w} : txn'[v] = txn[v]
  BY DEF Finish, IInv, TypeOK
<1>4. TxnWellFormed(w)' /\ ReadsCurrent(w)' /\ UpdateCoversTargets(w)'
  BY <1>3, NoneAssumption DEF Idle, TxnWellFormed, ReadsCurrent, UpdateCoversTargets, Ops
<1>5. ASSUME NEW v \in Workers \ {w}
      PROVE  TxnWellFormed(v)' /\ ReadsCurrent(v)' /\ UpdateCoversTargets(v)'
  <2>1. /\ TxnWellFormed(v) /\ ReadsCurrent(v) /\ UpdateCoversTargets(v) /\ txn'[v] = txn[v]
        /\ txn[v] \in Txn
    BY <1>3 DEF IInv, TxnInv, TypeOK
  <2>2. TxnWellFormed(v)'
    BY <2>1 DEF TxnWellFormed
  <2>3. ASSUME txn[v].pc \in {"work", "update"}
        PROVE  txn[v].user \in Users /\ txn[v].user # txn[w].user
    BY <1>1, <2>1, <2>3 DEF IInv, TxnInv, LocksExclusive, HoldsUser, TxnWellFormed
  <2>4. ASSUME txn[v].pc \in {"lock_user", "work", "update"}, txn[v].op \in TokenOps
        PROVE  token'[txn[v].token].is_revoked = token[txn[v].token].is_revoked
    <3>1. txn[v].token \in rows /\ rows \subseteq Tokens /\ HoldsToken(v, txn[v].token)
      BY <2>1, <2>4 DEF TxnWellFormed, HoldsToken, IInv, TypeOK
    <3>2. ~HoldsToken(w, txn[v].token)
      BY <3>1 DEF IInv, TxnInv, LocksExclusive
    <3> QED
      BY <3>1, <3>2
  <2>5. ReadsCurrent(v)'
    BY <2>1, <2>3, <2>4 DEF ReadsCurrent
  <2>6. UpdateCoversTargets(v)'
    <3> SUFFICES ASSUME txn[v].pc = "update", NEW t \in Targets(v)'
                 PROVE  t \in txn[v].todo \cup txn[v].hit
      BY <2>1 DEF UpdateCoversTargets
    <3>1. /\ t \in rows' /\ ~token'[t].is_revoked
          /\ IF txn[v].op = "rotate" THEN token'[t].family = token'[txn[v].token].family
                                     ELSE token'[t].user = txn[v].user
      BY <2>1 DEF Targets, Live
    <3>2. token'[t].user = txn[v].user
      <4>1. CASE txn[v].op = "rotate"
        <5>1. txn[v].token \in rows /\ token[txn[v].token].user = txn[v].user
          BY <2>1, <4>1 DEF TxnWellFormed, TokenOps
        <5>2. token'[txn[v].token].user = txn[v].user /\ txn[v].token \in rows'
          BY <5>1
        <5>3. /\ token'[token'[t].family].user = token'[t].user
              /\ token'[token'[txn[v].token].family].user = token'[txn[v].token].user
          BY <3>1, <5>2 DEF DataInv, FamiliesWellFormed
        <5> QED
          BY <3>1, <4>1, <5>2, <5>3
      <4>2. CASE txn[v].op # "rotate"
        BY <3>1, <4>2
      <4> QED
        BY <4>1, <4>2
    <3>3. t \in rows
      BY <2>3, <3>1, <3>2
    <3>4. txn[v].op = "rotate" => txn[v].token \in rows
      BY <2>1 DEF TxnWellFormed, TokenOps
    <3>5. t \in Targets(v)
      BY <3>1, <3>3, <3>4 DEF Targets, Live
    <3> QED
      BY <2>1, <3>5 DEF UpdateCoversTargets
  <2> QED
    BY <2>2, <2>5, <2>6
<1>6. LocksExclusive'
  <2>1. \A u \in Users : ~HoldsUser(w, u)'
    BY <1>3 DEF HoldsUser, Idle
  <2>2. \A t \in Tokens : ~HoldsToken(w, t)'
    BY <1>3 DEF HoldsToken, Idle
  <2> QED
    BY <1>3, <2>1, <2>2, LockStep DEF IInv
<1> QED
  BY <1>2, <1>4, <1>5, <1>6 DEF IInv, TxnInv

\* Revoke(T) revokes T and changes nothing else.
LEMMA RevokeEffect ==
    ASSUME token \in [Tokens -> TokenRow], NEW T, NEW t \in Tokens
    PROVE  /\ Revoke(T)[t].user = token[t].user
           /\ Revoke(T)[t].family = token[t].family
           /\ Revoke(T)[t].parent = token[t].parent
           /\ Revoke(T)[t].is_revoked <=> (token[t].is_revoked \/ t \in T)
           /\ Revoke(T)[t].expires_in = token[t].expires_in
BY DEF Revoke, TokenRow

\* A commit that revokes tokens it holds, and writes at most its own account,
\* leaving the account's active state or no live token of it.
LEMMA RevokingCommit ==
    ASSUME IInv, NEW w \in Workers, txn[w].pc \in {"work", "update"}, NEW reply \in Replies,
           NEW event \in Events \cup {None}, Finish(w, reply, event),
           NEW T \in SUBSET rows, \A t \in T : HoldsToken(w, t),
           token' = Revoke(T), rows' = rows,
           user' \in [Users -> UserRow], \A u \in Users \ {txn[w].user} : user'[u] = user[u],
           LockoutMatchesCount', LiveTokenOwnerActive'
    PROVE  IInv'
<1>1. /\ rows \subseteq Tokens /\ token \in [Tokens -> TokenRow]
      /\ token' \in [Tokens -> TokenRow]
  BY RevokeType DEF IInv, TypeOK
<1>2. \A t \in rows : /\ token'[t].user = token[t].user
                      /\ token'[t].family = token[t].family
                      /\ token'[t].parent = token[t].parent
                      /\ token'[t].is_revoked <=> (token[t].is_revoked \/ t \in T)
  BY <1>1, RevokeEffect
<1>3. FamiliesWellFormed'
  BY <1>2 DEF IInv, DataInv, FamiliesWellFormed
<1>4. ParentsRevoked'
  BY <1>2 DEF IInv, DataInv, ParentsRevoked
<1>5. OneLiveTokenPerFamily'
  BY <1>2 DEF IInv, DataInv, OneLiveTokenPerFamily, Live
<1>6. RotatedOnce'
  BY <1>2 DEF IInv, DataInv, RotatedOnce
<1>7. DataInv'
  BY <1>3, <1>4, <1>5, <1>6 DEF DataInv
<1>8. \A t \in rows : /\ token[t].is_revoked => token'[t].is_revoked
                      /\ HoldsToken(w, t) \/ token'[t].is_revoked = token[t].is_revoked
  <2> SUFFICES ASSUME NEW t \in rows
               PROVE  /\ token[t].is_revoked => token'[t].is_revoked
                      /\ HoldsToken(w, t) \/ token'[t].is_revoked = token[t].is_revoked
    OBVIOUS
  <2>1. CASE t \in T
    BY <1>2, <2>1
  <2>2. CASE t \notin T
    <3>1. token'[t] = token[t]
      BY <1>1, <2>2 DEF Revoke
    <3> QED
      BY <3>1
  <2> QED
    BY <2>1, <2>2
<1> QED
  BY <1>1, <1>2, <1>7, <1>8, CommitFrame

LEMMA RotateExpiredInv ==
    ASSUME IInv, NEW w \in Workers, RotateExpired(w)
    PROVE  IInv'
<1> DEFINE T == {txn[w].token}
<1>1. /\ txn[w].pc = "work" /\ txn[w].token \in rows /\ rows \subseteq Tokens
      /\ token' = Revoke(T) /\ UNCHANGED <<user, rows>>
      /\ Finish(w, "InvalidRefreshToken", None)
  BY DEF RotateExpired, Working, IInv, TypeOK, TxnInv, TxnWellFormed, TokenOps
<1>2. \A t \in T : HoldsToken(w, t)
  BY <1>1 DEF HoldsToken
<1>3. LockoutMatchesCount'
  BY <1>1 DEF IInv, DataInv, LockoutMatchesCount
<1>4. LiveTokenOwnerActive'
  BY <1>1, RevokeEffect DEF IInv, TypeOK, DataInv, LiveTokenOwnerActive, Live
<1>5. "InvalidRefreshToken" \in Replies
  BY DEF Replies
<1>6. user' \in [Users -> UserRow]
  BY <1>1 DEF IInv, TypeOK
<1> HIDE DEF T
<1> QED
  BY <1>1, <1>2, <1>3, <1>4, <1>5, <1>6, RevokingCommit DEF T

LEMMA LogoutInv ==
    ASSUME IInv, NEW w \in Workers, Logout(w)
    PROVE  IInv'
<1>1. "ok" \in Replies /\ "logout" \in Events
  BY DEF Replies, Events
<1>2. txn[w].pc = "work" /\ txn[w].op = "logout"
  BY DEF Logout, Working
<1>3. CASE txn[w].revoked
  <2>1. Finish(w, "ok", None) /\ UNCHANGED <<user, rows, token>>
    BY <1>3 DEF Logout
  <2> QED
    BY <1>1, <1>2, <2>1, FinishUnchanged
<1>4. CASE ~txn[w].revoked
  <2> DEFINE T == {txn[w].token}
  <2>1. /\ txn[w].token \in rows /\ rows \subseteq Tokens
        /\ token' = Revoke(T) /\ UNCHANGED <<user, rows>> /\ Finish(w, "ok", "logout")
    BY <1>2, <1>4 DEF Logout, IInv, TypeOK, TxnInv, TxnWellFormed, TokenOps
  <2>2. \A t \in T : HoldsToken(w, t)
    BY <1>2 DEF HoldsToken
  <2>3. LockoutMatchesCount'
    BY <2>1 DEF IInv, DataInv, LockoutMatchesCount
  <2>4. LiveTokenOwnerActive'
    BY <2>1, RevokeEffect DEF IInv, TypeOK, DataInv, LiveTokenOwnerActive, Live
  <2>5. user' \in [Users -> UserRow]
    BY <2>1 DEF IInv, TypeOK
  <2> HIDE DEF T
  <2> QED
    BY <1>1, <1>2, <2>1, <2>2, <2>3, <2>4, <2>5, RevokingCommit DEF T
<1> QED
  BY <1>3, <1>4

\* What a finished bulk UPDATE has hit: rows, all held, among them every target.
LEMMA UpdateHits ==
    ASSUME IInv, NEW w \in Workers, NEW op, UpdateDone(w, op)
    PROVE  /\ txn[w].hit \in SUBSET rows
           /\ \A t \in txn[w].hit : HoldsToken(w, t)
           /\ Targets(w) \subseteq txn[w].hit
           /\ txn[w].row = user[txn[w].user]
           /\ txn[w].user \in Users /\ txn[w].pc = "update" /\ txn[w].op = op
BY DEF UpdateDone, IInv, TxnInv, TxnWellFormed, ReadsCurrent, UpdateCoversTargets, HoldsToken

LEMMA ReuseDetectedInv ==
    ASSUME IInv, NEW w \in Workers, ReuseDetected(w)
    PROVE  IInv'
<1>1. /\ UpdateDone(w, "rotate") /\ token' = Revoke(txn[w].hit) /\ UNCHANGED <<user, rows>>
      /\ Finish(w, "TokenReuseDetected", "token_reuse")
  BY DEF ReuseDetected
<1>2. LockoutMatchesCount'
  BY <1>1 DEF IInv, DataInv, LockoutMatchesCount
<1>3. LiveTokenOwnerActive'
  BY <1>1, RevokeEffect DEF IInv, TypeOK, DataInv, LiveTokenOwnerActive, Live
<1>4. "TokenReuseDetected" \in Replies /\ "token_reuse" \in Events
  BY DEF Replies, Events
<1>5. user' \in [Users -> UserRow]
  BY <1>1 DEF IInv, TypeOK
<1> QED
  BY <1>1, <1>2, <1>3, <1>4, <1>5, UpdateHits, RevokingCommit

\* Suspending an account by either way leaves it no live token.
LEMMA SuspendingInv ==
    ASSUME IInv, NEW w \in Workers, NEW op \in {"suspend", "deactivate"}, UpdateDone(w, op),
           user' \in [Users -> UserRow], \A u \in Users \ {txn[w].user} : user'[u] = user[u],
           LockoutMatchesCount', token' = Revoke(txn[w].hit), rows' = rows,
           Finish(w, "ok", None)
    PROVE  IInv'
<1>1. /\ txn[w].hit \in SUBSET rows /\ \A t \in txn[w].hit : HoldsToken(w, t)
      /\ Targets(w) \subseteq txn[w].hit /\ txn[w].pc = "update" /\ txn[w].op = op
  BY UpdateHits
<1>2. ASSUME NEW t \in rows, Live(t)'
      PROVE  /\ user'[token'[t].user].status = "active"
             /\ user'[token'[t].user].is_active
  <2>1. t \in Tokens /\ token \in [Tokens -> TokenRow]
    BY DEF IInv, TypeOK
  <2>2. token'[t].user = token[t].user /\ Live(t) /\ t \notin txn[w].hit
    BY <1>2, <2>1, RevokeEffect DEF Live
  <2>3. token[t].user # txn[w].user
    BY <1>1, <2>2 DEF Targets
  <2>4. token[t].user \in Users
    BY DEF IInv, DataInv, FamiliesWellFormed
  <2> QED
    BY <2>2, <2>3, <2>4 DEF IInv, DataInv, LiveTokenOwnerActive
<1>3. LiveTokenOwnerActive'
  BY <1>2 DEF LiveTokenOwnerActive
<1>4. "ok" \in Replies
  BY DEF Replies
<1> QED
  BY <1>1, <1>3, <1>4, RevokingCommit

LEMMA SuspendInv ==
    ASSUME IInv, NEW w \in Workers, Suspend(w)
    PROVE  IInv'
<1> DEFINE r == [user[txn[w].user] EXCEPT !.status = "suspended"]
<1>1. /\ UpdateDone(w, "suspend") /\ txn[w].user \in Users /\ user \in [Users -> UserRow]
      /\ token' = Revoke(txn[w].hit) /\ rows' = rows /\ Finish(w, "ok", None)
      /\ user' = [user EXCEPT ![txn[w].user] = r]
  BY UpdateHits DEF Suspend, IInv, TypeOK
<1>2. /\ r \in UserRow /\ r.failed_login_count = user[txn[w].user].failed_login_count
      /\ r.locked_for = user[txn[w].user].locked_for
  BY <1>1 DEF UserRow, Statuses
<1> HIDE DEF r
<1>3. LockoutMatchesCount'
  BY <1>1, <1>2 DEF IInv, DataInv, LockoutMatchesCount
<1> QED
  BY <1>1, <1>2, <1>3, SuspendingInv

LEMMA DeactivateInv ==
    ASSUME IInv, NEW w \in Workers, Deactivate(w)
    PROVE  IInv'
<1> DEFINE r == [user[txn[w].user] EXCEPT !.status = "suspended", !.is_active = FALSE]
<1>1. /\ UpdateDone(w, "deactivate") /\ txn[w].user \in Users /\ user \in [Users -> UserRow]
      /\ token' = Revoke(txn[w].hit) /\ rows' = rows /\ Finish(w, "ok", None)
      /\ user' = [user EXCEPT ![txn[w].user] = r]
  BY UpdateHits DEF Deactivate, IInv, TypeOK
<1>2. /\ r \in UserRow /\ r.failed_login_count = user[txn[w].user].failed_login_count
      /\ r.locked_for = user[txn[w].user].locked_for
  BY <1>1 DEF UserRow, Statuses
<1> HIDE DEF r
<1>3. LockoutMatchesCount'
  BY <1>1, <1>2 DEF IInv, DataInv, LockoutMatchesCount
<1> QED
  BY <1>1, <1>2, <1>3, SuspendingInv

\* A commit that writes only the account, which stays as active as it was.
LEMMA AccountCommit ==
    ASSUME IInv, NEW w \in Workers, txn[w].pc = "work", NEW reply \in Replies,
           NEW event \in Events \cup {None}, Finish(w, reply, event),
           NEW r \in UserRow, user' = [user EXCEPT ![txn[w].user] = r],
           user[txn[w].user].status = "active" => r.status = "active",
           user[txn[w].user].is_active => r.is_active,
           r.failed_login_count <= MaxFailed,
           r.failed_login_count = MaxFailed <=> r.locked_for # NotLocked,
           UNCHANGED <<rows, token>>
    PROVE  IInv'
<1>1. /\ txn[w].user \in Users /\ user \in [Users -> UserRow] /\ token \in [Tokens -> TokenRow]
      /\ rows \subseteq Tokens
  BY DEF IInv, TypeOK, TxnInv, TxnWellFormed
<1>2. LockoutMatchesCount'
  BY <1>1 DEF IInv, DataInv, LockoutMatchesCount
<1>3. LiveTokenOwnerActive'
  BY <1>1 DEF IInv, DataInv, LiveTokenOwnerActive, FamiliesWellFormed, Live
<1>4. DataInv'
  BY <1>2, <1>3 DEF IInv, DataInv, FamiliesWellFormed, ParentsRevoked, OneLiveTokenPerFamily,
                    RotatedOnce, Live
<1> QED
  BY <1>1, <1>4, CommitFrame

LEMMA ActivateInv ==
    ASSUME IInv, NEW w \in Workers, Activate(w)
    PROVE  IInv'
<1> DEFINE r == NewUser("active")
<1>1. /\ r \in UserRow /\ r.status = "active" /\ r.is_active
      /\ r.failed_login_count = 0 /\ r.locked_for = NotLocked
  BY ConstantRows DEF NewUser, Statuses
<1>2. txn[w].pc = "work" /\ user' = [user EXCEPT ![txn[w].user] = r]
  BY DEF Activate, Working
<1>3. Finish(w, "ok", None) /\ UNCHANGED <<rows, token>> /\ "ok" \in Replies
  BY DEF Activate, Replies
<1>4. /\ r.failed_login_count <= MaxFailed
      /\ r.failed_login_count = MaxFailed <=> r.locked_for # NotLocked
  BY <1>1, SettingsAssumption
<1> HIDE DEF r
<1> QED
  BY <1>1, <1>2, <1>3, <1>4, AccountCommit

LEMMA FailedLoginInv ==
    ASSUME IInv, NEW w \in Workers, FailedLogin(w)
    PROVE  IInv'
<1> DEFINE u == txn[w].user
           a == ClearExpiredLock(txn[w].row)
           n == a.failed_login_count + 1
<1>1. /\ txn[w].pc = "work" /\ u \in Users /\ user \in [Users -> UserRow]
      /\ txn[w].row = user[u] /\ user[u] \in UserRow
  BY DEF FailedLogin, Working, IInv, TypeOK, TxnInv, TxnWellFormed, ReadsCurrent
<1>2. /\ "InvalidCredentials" \in Replies /\ "AccountLocked" \in Replies
      /\ "lockout" \in Events
  BY DEF Replies, Events
<1>3. /\ a.failed_login_count \in Nat /\ a.failed_login_count <= MaxFailed
      /\ a.locked_for \in NotLocked..Lockout
      /\ a.locked_for <= 0 => a.locked_for = NotLocked /\ a.failed_login_count < MaxFailed
  BY <1>1, SettingsAssumption
     DEF ClearExpiredLock, UserRow, IInv, DataInv, LockoutMatchesCount, NotLocked
<1>4. CASE a.locked_for > 0
  <2>1. Finish(w, "InvalidCredentials", None) /\ UNCHANGED <<user, rows, token>>
    BY <1>3, <1>4 DEF FailedLogin, NotLocked
  <2> QED
    BY <1>1, <1>2, <2>1, FinishUnchanged
<1>5. CASE a.locked_for <= 0 /\ n >= MaxFailed
  <2> DEFINE r == [user[u] EXCEPT !.failed_login_count = n, !.locked_for = Lockout]
  <2>1. /\ user' = [user EXCEPT ![u] = r]
        /\ Finish(w, "AccountLocked", "lockout") /\ UNCHANGED <<rows, token>>
    BY <1>3, <1>5 DEF FailedLogin, NotLocked
  <2>2. n = MaxFailed
    BY <1>3, <1>5, SettingsAssumption
  <2>3. /\ r \in UserRow /\ r.status = user[u].status /\ r.is_active = user[u].is_active
        /\ r.failed_login_count = MaxFailed /\ r.locked_for # NotLocked
    <3>1. MaxFailed \in Nat /\ Lockout \in NotLocked..Lockout /\ Lockout # NotLocked
      BY SettingsAssumption DEF NotLocked
    <3> QED
      BY <1>1, <2>2, <3>1, Zenon DEF UserRow
  <2>4. MaxFailed <= MaxFailed
    BY SettingsAssumption
  <2> HIDE DEF r
  <2> QED
    BY <1>1, <1>2, <2>1, <2>3, <2>4, AccountCommit
<1>6. CASE a.locked_for <= 0 /\ n < MaxFailed
  <2> DEFINE r == [user[u] EXCEPT !.failed_login_count = n, !.locked_for = a.locked_for]
  <2>1. /\ user' = [user EXCEPT ![u] = r]
        /\ Finish(w, "InvalidCredentials", None) /\ UNCHANGED <<rows, token>>
    BY <1>3, <1>6 DEF FailedLogin, NotLocked
  <2>2. /\ r \in UserRow /\ r.status = user[u].status /\ r.is_active = user[u].is_active
        /\ r.failed_login_count = n /\ r.locked_for = NotLocked
    <3>1. n \in Nat /\ a.locked_for = NotLocked /\ a.locked_for \in NotLocked..Lockout
      BY <1>3, <1>6
    <3> HIDE DEF a, n
    <3> QED
      BY <1>1, <3>1, Zenon DEF UserRow
  <2>3. n <= MaxFailed /\ n # MaxFailed
    BY <1>3, <1>6, SettingsAssumption
  <2> HIDE DEF r
  <2> QED
    BY <1>1, <1>2, <2>1, <2>2, <2>3, AccountCommit
<1>7. a.locked_for > 0 \/ (a.locked_for <= 0 /\ n >= MaxFailed) \/ (a.locked_for <= 0 /\ n < MaxFailed)
  BY <1>3, SettingsAssumption DEF NotLocked
<1> QED
  BY <1>4, <1>5, <1>6, <1>7

\* A login that succeeds opens a family with a token not used before.
LEMMA LoginOkInv ==
    ASSUME IInv, NEW w \in Workers, txn[w].pc = "work", NEW t \in Tokens \ rows,
           txn[w].row.status = "active", txn[w].row.is_active,
           user' = [user EXCEPT ![txn[w].user] = [@ EXCEPT !.failed_login_count = 0,
                                                           !.locked_for = NotLocked]],
           rows' = rows \cup {t},
           token' = [token EXCEPT ![t] = NewToken(txn[w].user, t, None)],
           Finish(w, "ok", "login")
    PROVE  IInv'
<1> DEFINE u == txn[w].user
           r == [user[u] EXCEPT !.failed_login_count = 0, !.locked_for = NotLocked]
           k == NewToken(u, t, None)
<1>1. /\ u \in Users /\ user \in [Users -> UserRow] /\ token \in [Tokens -> TokenRow]
      /\ rows \subseteq Tokens /\ txn[w].row = user[u]
  BY DEF IInv, TypeOK, TxnInv, TxnWellFormed, ReadsCurrent
<1>2. /\ r \in UserRow /\ r.status = "active" /\ r.is_active
      /\ r.failed_login_count = 0 /\ r.locked_for = NotLocked
  <2>1. 0 \in Nat /\ NotLocked \in NotLocked..Lockout
    BY SettingsAssumption DEF NotLocked
  <2>2. user[u] \in UserRow
    BY <1>1
  <2>3. user[u].status = "active" /\ user[u].is_active
    BY <1>1
  <2> HIDE DEF u
  <2> QED
    BY <2>1, <2>2, <2>3, Zenon DEF UserRow
<1>3. /\ k \in TokenRow /\ k.user = u /\ k.family = t /\ k.parent = None /\ ~k.is_revoked
  BY <1>1, ConstantRows DEF NewToken
<1>4. user' = [user EXCEPT ![u] = r] /\ token' = [token EXCEPT ![t] = k]
  OBVIOUS
<1> HIDE DEF u, r, k
<1>5. /\ user' \in [Users -> UserRow] /\ user'[u] = r
      /\ \A x \in Users \ {u} : user'[x] = user[x]
      /\ token' \in [Tokens -> TokenRow] /\ token'[t] = k
      /\ \A x \in rows : token'[x] = token[x]
  <2>1. user' \in [Users -> UserRow] /\ user'[u] = r /\ \A x \in Users \ {u} : user'[x] = user[x]
    <3>1. r \in UserRow /\ u \in Users /\ user \in [Users -> UserRow] /\ user' = [user EXCEPT ![u] = r]
      BY <1>1, <1>2, <1>4
    <3> QED
      BY <3>1, Zenon
  <2>2. token' \in [Tokens -> TokenRow] /\ token'[t] = k
    BY <1>1, <1>3, <1>4
  <2>3. \A x \in rows : token'[x] = token[x]
    BY <1>1, <1>4
  <2> QED
    BY <2>1, <2>2, <2>3
<1>6. FamiliesWellFormed'
  BY <1>1, <1>3, <1>5 DEF IInv, DataInv, FamiliesWellFormed
<1>7. ParentsRevoked'
  BY <1>3, <1>5 DEF IInv, DataInv, ParentsRevoked
<1>8. OneLiveTokenPerFamily'
  BY <1>3, <1>5 DEF IInv, DataInv, OneLiveTokenPerFamily, FamiliesWellFormed, Live
<1>9. RotatedOnce'
  BY <1>3, <1>5 DEF IInv, DataInv, RotatedOnce
<1>10. LiveTokenOwnerActive'
  BY <1>1, <1>2, <1>3, <1>5 DEF IInv, DataInv, LiveTokenOwnerActive, FamiliesWellFormed, Live
<1>11. LockoutMatchesCount'
  BY <1>1, <1>2, <1>5, SettingsAssumption DEF IInv, DataInv, LockoutMatchesCount
<1>12. "ok" \in Replies /\ "login" \in Events
  BY DEF Replies, Events
<1>13. DataInv'
  BY <1>6, <1>7, <1>8, <1>9, <1>10, <1>11 DEF DataInv
<1> QED
  BY <1>1, <1>3, <1>5, <1>12, <1>13, CommitFrame DEF u

LEMMA LoginInv ==
    ASSUME IInv, NEW w \in Workers, Login(w)
    PROVE  IInv'
<1> DEFINE a == ClearExpiredLock(txn[w].row)
<1>1. txn[w].pc = "work" /\ "AccountLocked" \in Replies /\ "AccountInactive" \in Replies
  BY DEF Login, Working, Replies
<1>2. a.status = txn[w].row.status /\ a.is_active = txn[w].row.is_active
  BY DEF ClearExpiredLock, UserRow, IInv, TypeOK, Txn
<1>3. CASE UNCHANGED <<user, rows, token>> /\ \E reply \in Replies : Finish(w, reply, None)
  BY <1>1, <1>3, FinishUnchanged
<1>4. CASE ~(UNCHANGED <<user, rows, token>> /\ \E reply \in Replies : Finish(w, reply, None))
  <2>1. /\ a.is_active /\ a.status = "active"
        /\ user' = [user EXCEPT ![txn[w].user] = [@ EXCEPT !.failed_login_count = 0,
                                                           !.locked_for = NotLocked]]
        /\ \E t \in Tokens \ rows :
             /\ rows' = rows \cup {t}
             /\ token' = [token EXCEPT ![t] = NewToken(txn[w].user, t, None)]
        /\ Finish(w, "ok", "login")
    BY <1>1, <1>4 DEF Login
  <2> QED
    BY <1>1, <1>2, <2>1, LoginOkInv
<1> QED
  BY <1>3, <1>4

LEMMA RotateInv ==
    ASSUME IInv, NEW w \in Workers, Rotate(w)
    PROVE  IInv'
<1> DEFINE p == txn[w].token
<1>1. PICK c \in Tokens \ rows :
        /\ rows' = rows \cup {c}
        /\ token' = [Revoke({p}) EXCEPT ![c] = NewToken(token[p].user, token[p].family, p)]
  BY DEF Rotate
<1> DEFINE k == NewToken(token[p].user, token[p].family, p)
<1>2. /\ txn[w].pc = "work" /\ txn[w].op = "rotate" /\ ~txn[w].revoked
      /\ user' = user /\ Finish(w, "ok", None)
  BY DEF Rotate, Working
<1>3. /\ p \in rows /\ rows \subseteq Tokens /\ token[p].user = txn[w].user
      /\ ~token[p].is_revoked
  BY <1>2 DEF IInv, TypeOK, TxnInv, TxnWellFormed, ReadsCurrent, TokenOps
<1>4. /\ user \in [Users -> UserRow] /\ token \in [Tokens -> TokenRow]
      /\ Revoke({p}) \in [Tokens -> TokenRow] /\ txn[w].user \in Users
      /\ token[p].family \in rows
  BY <1>2, <1>3, RevokeType DEF IInv, TypeOK, DataInv, FamiliesWellFormed, TxnInv, TxnWellFormed
<1>5. /\ k \in TokenRow /\ k.user = txn[w].user /\ k.family = token[p].family
      /\ k.parent = p /\ ~k.is_revoked
  BY <1>3, <1>4, ConstantRows DEF NewToken
<1> HIDE DEF p, k
<1>6. token' \in [Tokens -> TokenRow] /\ token'[c] = k
  BY <1>1, <1>4, <1>5 DEF k
<1>7. \A x \in rows : /\ token'[x].user = token[x].user
                      /\ token'[x].family = token[x].family
                      /\ token'[x].parent = token[x].parent
                      /\ token'[x].is_revoked <=> (token[x].is_revoked \/ x = p)
  <2> SUFFICES ASSUME NEW x \in rows
               PROVE  /\ token'[x].user = token[x].user
                      /\ token'[x].family = token[x].family
                      /\ token'[x].parent = token[x].parent
                      /\ token'[x].is_revoked <=> (token[x].is_revoked \/ x = p)
    OBVIOUS
  <2>1. token'[x] = Revoke({p})[x]
    BY <1>1, <1>3, <1>4
  <2> QED
    BY <1>3, <1>4, <2>1, RevokeEffect
<1>8. \A x \in rows : HoldsToken(w, x) \/ token'[x].is_revoked = token[x].is_revoked
  BY <1>1, <1>2, <1>3, <1>4 DEF HoldsToken, Revoke, p
<1>20. rows' = rows \cup {c} /\ c \in Tokens \ rows
  BY <1>1
<1>9. FamiliesWellFormed'
  BY <1>20, <1>3, <1>4, <1>5, <1>6, <1>7 DEF IInv, DataInv, FamiliesWellFormed
<1>10. ParentsRevoked'
  BY <1>20, <1>3, <1>5, <1>6, <1>7 DEF IInv, DataInv, ParentsRevoked
<1>11. OneLiveTokenPerFamily'
  BY <1>20, <1>3, <1>5, <1>6, <1>7 DEF IInv, DataInv, OneLiveTokenPerFamily, Live
<1>12. RotatedOnce'
  BY <1>20, <1>3, <1>5, <1>6, <1>7 DEF IInv, DataInv, RotatedOnce, ParentsRevoked
<1>13. LiveTokenOwnerActive'
  BY <1>20, <1>2, <1>3, <1>5, <1>6, <1>7 DEF IInv, DataInv, LiveTokenOwnerActive, Live
<1>14. LockoutMatchesCount'
  BY <1>2 DEF IInv, DataInv, LockoutMatchesCount
<1>15. DataInv'
  BY <1>9, <1>10, <1>11, <1>12, <1>13, <1>14 DEF DataInv
<1>16. "ok" \in Replies /\ None \in Events \cup {None}
  BY DEF Replies
<1>17. \A x \in rows : token[x].is_revoked => token'[x].is_revoked
  BY <1>7
<1>18. \A x \in rows' \ rows : token'[x].user = txn[w].user
  BY <1>20, <1>5, <1>6
<1> QED
  BY <1>2, <1>3, <1>4, <1>6, <1>7, <1>8, <1>20, <1>15, <1>16, <1>17, <1>18, CommitFrame

-----------------------------------------------------------------------------
(* The clock *)

\* The passing of time keeps deadlines in range and does not set or clear a lock.
LEMMA DecRange ==
    ASSUME NEW n \in NotLocked..Lockout
    PROVE  Dec(n) \in NotLocked..Lockout /\ (Dec(n) = NotLocked <=> n = NotLocked)
BY SettingsAssumption DEF Dec, NotLocked

LEMMA DecExpiry ==
    ASSUME NEW n \in 0..Lifetime
    PROVE  Dec(n) \in 0..Lifetime
BY SettingsAssumption DEF Dec

LEMMA TickType ==
    ASSUME TypeOK, Tick
    PROVE  TypeOK'
<1>1. user' \in [Users -> UserRow]
  <2> SUFFICES ASSUME NEW u \in Users
               PROVE  [user[u] EXCEPT !.locked_for = Dec(@)] \in UserRow
    BY DEF Tick
  <2>1. user[u] \in UserRow /\ Dec(user[u].locked_for) \in NotLocked..Lockout
    BY DecRange DEF TypeOK, UserRow
  <2> QED
    BY <2>1, Zenon DEF UserRow
<1>2. token' \in [Tokens -> TokenRow]
  <2> SUFFICES ASSUME NEW t \in Tokens
               PROVE  [token[t] EXCEPT !.expires_in = Dec(@)] \in TokenRow /\ token[t] \in TokenRow
    BY DEF Tick
  <2>1. token[t] \in TokenRow /\ Dec(token[t].expires_in) \in 0..Lifetime
    BY DecExpiry DEF TypeOK, TokenRow
  <2> QED
    BY <2>1, Zenon DEF TokenRow
<1>3. txn' \in [Workers -> Txn]
  <2> SUFFICES ASSUME NEW w \in Workers
               PROVE  [txn[w] EXCEPT !.row.locked_for = Dec(@)] \in Txn
    BY DEF Tick
  <2> DEFINE r == [txn[w].row EXCEPT !.locked_for = Dec(@)]
  <2>1. txn[w] \in Txn /\ txn[w].row \in UserRow
    BY DEF TypeOK, Txn
  <2>2. Dec(txn[w].row.locked_for) \in NotLocked..Lockout
    BY <2>1, DecRange DEF UserRow
  <2>3. r \in UserRow
    BY <2>1, <2>2, Zenon DEF UserRow
  <2>4. [txn[w] EXCEPT !.row.locked_for = Dec(@)] = [txn[w] EXCEPT !.row = r]
    OBVIOUS
  <2> HIDE DEF r
  <2> QED
    BY <2>1, <2>3, <2>4, Zenon DEF Txn
<1> QED
  BY <1>1, <1>2, <1>3 DEF Tick, TypeOK

\* Time changes deadlines only.
LEMMA TickEffect ==
    ASSUME TypeOK, Tick
    PROVE  /\ \A u \in Users : user'[u] = [user[u] EXCEPT !.locked_for = Dec(@)]
           /\ \A t \in Tokens : /\ token'[t].user = token[t].user
                                /\ token'[t].family = token[t].family
                                /\ token'[t].parent = token[t].parent
                                /\ token'[t].is_revoked = token[t].is_revoked
           /\ \A w \in Workers :
                /\ txn'[w].pc = txn[w].pc /\ txn'[w].op = txn[w].op
                /\ txn'[w].user = txn[w].user /\ txn'[w].token = txn[w].token
                /\ txn'[w].revoked = txn[w].revoked /\ txn'[w].todo = txn[w].todo
                /\ txn'[w].next = txn[w].next /\ txn'[w].hit = txn[w].hit
                /\ txn'[w].row = [txn[w].row EXCEPT !.locked_for = Dec(@)]
           /\ rows' = rows
<1>1. \A u \in Users : user'[u] = [user[u] EXCEPT !.locked_for = Dec(@)]
  BY DEF Tick
<1>2. ASSUME NEW t \in Tokens
      PROVE  /\ token'[t].user = token[t].user
             /\ token'[t].family = token[t].family
             /\ token'[t].parent = token[t].parent
             /\ token'[t].is_revoked = token[t].is_revoked
  BY DEF Tick, TypeOK, TokenRow
<1>3. ASSUME NEW w \in Workers
      PROVE  /\ txn'[w].pc = txn[w].pc /\ txn'[w].op = txn[w].op
             /\ txn'[w].user = txn[w].user /\ txn'[w].token = txn[w].token
             /\ txn'[w].revoked = txn[w].revoked /\ txn'[w].todo = txn[w].todo
             /\ txn'[w].next = txn[w].next /\ txn'[w].hit = txn[w].hit
             /\ txn'[w].row = [txn[w].row EXCEPT !.locked_for = Dec(@)]
  <2> DEFINE r == [txn[w].row EXCEPT !.locked_for = Dec(@)]
  <2>1. txn'[w] = [txn[w] EXCEPT !.row = r]
    BY DEF Tick
  <2>2. txn[w] \in Txn
    BY DEF TypeOK
  <2> HIDE DEF r
  <2>3. /\ txn'[w].pc = txn[w].pc /\ txn'[w].op = txn[w].op
        /\ txn'[w].user = txn[w].user /\ txn'[w].token = txn[w].token
        /\ txn'[w].revoked = txn[w].revoked /\ txn'[w].todo = txn[w].todo
        /\ txn'[w].next = txn[w].next /\ txn'[w].hit = txn[w].hit
        /\ txn'[w].row = r
    BY <2>1, <2>2 DEF Txn
  <2> QED
    BY <2>3 DEF r
<1> QED
  BY <1>1, <1>2, <1>3 DEF Tick

LEMMA TickInv ==
    ASSUME IInv, Tick
    PROVE  IInv'
<1>1. TypeOK'
  BY TickType DEF IInv
<1>2. rows \subseteq Tokens /\ user \in [Users -> UserRow] /\ rows' = rows
  BY DEF IInv, TypeOK, Tick
<1>3. \A t \in rows : /\ token'[t].user = token[t].user
                      /\ token'[t].family = token[t].family
                      /\ token'[t].parent = token[t].parent
                      /\ token'[t].is_revoked = token[t].is_revoked
  BY <1>2, TickEffect DEF IInv
<1>4. \A u \in Users : /\ user'[u].status = user[u].status
                       /\ user'[u].is_active = user[u].is_active
                       /\ user'[u].failed_login_count = user[u].failed_login_count
                       /\ user'[u].locked_for = Dec(user[u].locked_for)
  <2> SUFFICES ASSUME NEW u \in Users
               PROVE  /\ user'[u].status = user[u].status
                      /\ user'[u].is_active = user[u].is_active
                      /\ user'[u].failed_login_count = user[u].failed_login_count
                      /\ user'[u].locked_for = Dec(user[u].locked_for)
    OBVIOUS
  <2>1. user'[u] = [user[u] EXCEPT !.locked_for = Dec(@)] /\ user[u] \in UserRow
    BY <1>2, TickEffect DEF IInv
  <2> QED
    BY <2>1, Zenon DEF UserRow
<1>5. FamiliesWellFormed'
  BY <1>2, <1>3 DEF IInv, DataInv, FamiliesWellFormed
<1>6. ParentsRevoked'
  BY <1>2, <1>3 DEF IInv, DataInv, ParentsRevoked
<1>7. OneLiveTokenPerFamily'
  BY <1>2, <1>3 DEF IInv, DataInv, OneLiveTokenPerFamily, Live
<1>8. RotatedOnce'
  BY <1>2, <1>3 DEF IInv, DataInv, RotatedOnce
<1>9. LiveTokenOwnerActive'
  BY <1>2, <1>3, <1>4 DEF IInv, DataInv, LiveTokenOwnerActive, FamiliesWellFormed, Live
<1>10. LockoutMatchesCount'
  <2> SUFFICES ASSUME NEW u \in Users
               PROVE  /\ user'[u].failed_login_count <= MaxFailed
                      /\ user'[u].failed_login_count = MaxFailed <=> user'[u].locked_for # NotLocked
    BY DEF LockoutMatchesCount
  <2>1. user[u].locked_for \in NotLocked..Lockout
    BY <1>2 DEF UserRow
  <2>2. Dec(user[u].locked_for) = NotLocked <=> user[u].locked_for = NotLocked
    BY <2>1, DecRange
  <2> QED
    BY <1>4, <2>2 DEF IInv, DataInv, LockoutMatchesCount
<1>11. ASSUME NEW w \in Workers
       PROVE  TxnWellFormed(w)' /\ ReadsCurrent(w)' /\ UpdateCoversTargets(w)'
  <2>1. TxnWellFormed(w) /\ ReadsCurrent(w) /\ UpdateCoversTargets(w)
    BY DEF IInv, TxnInv
  <2>2. /\ txn'[w].pc = txn[w].pc /\ txn'[w].op = txn[w].op
        /\ txn'[w].user = txn[w].user /\ txn'[w].token = txn[w].token
        /\ txn'[w].revoked = txn[w].revoked /\ txn'[w].todo = txn[w].todo
        /\ txn'[w].next = txn[w].next /\ txn'[w].hit = txn[w].hit
        /\ txn'[w].row = [txn[w].row EXCEPT !.locked_for = Dec(@)]
    BY TickEffect DEF IInv
  <2>3. TxnWellFormed(w)'
    BY <1>2, <1>3, <2>1, <2>2 DEF TxnWellFormed
  <2>4. ReadsCurrent(w)'
    <3>1. txn[w].pc # "idle" => txn[w].user \in Users
      BY <2>1 DEF TxnWellFormed
    <3>2. txn[w].op \in TokenOps => txn[w].token \in rows
      BY <2>1 DEF TxnWellFormed
    <3>3. txn[w].user \in Users
          => user'[txn[w].user] = [user[txn[w].user] EXCEPT !.locked_for = Dec(@)]
      BY TickEffect DEF IInv
    <3> QED
      BY <1>3, <2>1, <2>2, <3>1, <3>2, <3>3 DEF ReadsCurrent
  <2>5. txn[w].op = "rotate" => txn[w].token \in rows
    BY <2>1 DEF TxnWellFormed, TokenOps
  <2>6. Targets(w)' = Targets(w)
    BY <1>2, <1>3, <2>2, <2>5 DEF Targets, Live
  <2>7. UpdateCoversTargets(w)'
    BY <2>1, <2>2, <2>6 DEF UpdateCoversTargets
  <2> QED
    BY <2>3, <2>4, <2>7
<1>12. LocksExclusive'
  <2>1. \A w \in Workers : /\ txn'[w].pc = txn[w].pc /\ txn'[w].user = txn[w].user
                           /\ txn'[w].token = txn[w].token /\ txn'[w].hit = txn[w].hit
    BY TickEffect DEF IInv
  <2> QED
    BY <2>1 DEF IInv, TxnInv, LocksExclusive, HoldsUser, HoldsToken
<1> QED
  BY <1>1, <1>5, <1>6, <1>7, <1>8, <1>9, <1>10, <1>11, <1>12 DEF IInv, DataInv, TxnInv

-----------------------------------------------------------------------------
(* The invariant *)

LEMMA InitInv == Init => IInv
<1> SUFFICES ASSUME Init PROVE IInv
  OBVIOUS
<1>1. TypeOK
  BY ConstantRows DEF Init, TypeOK, Statuses
<1>2. \A u \in Users : user[u].failed_login_count = 0 /\ user[u].locked_for = NotLocked
  BY DEF Init, NewUser
<1>3. DataInv
  BY <1>2, SettingsAssumption
     DEF Init, DataInv, FamiliesWellFormed, ParentsRevoked, OneLiveTokenPerFamily, RotatedOnce,
         LiveTokenOwnerActive, LockoutMatchesCount
<1>4. TxnInv
  BY NoneAssumption DEF Init, Idle, TxnInv, TxnWellFormed, ReadsCurrent, UpdateCoversTargets,
     LocksExclusive, HoldsUser, HoldsToken, Ops
<1> QED
  BY <1>1, <1>3, <1>4 DEF IInv

LEMMA NextInv == IInv /\ [Next]_vars => IInv'
<1> SUFFICES ASSUME IInv, [Next]_vars PROVE IInv'
  OBVIOUS
<1>1. ASSUME NEW w \in Workers, NEW op \in UserOps, NEW u \in Users, BeginForUser(w, op, u)
      PROVE  IInv'
  BY <1>1, BeginForUserInv
<1>2. ASSUME NEW w \in Workers, NEW op \in TokenOps, NEW t \in Tokens, BeginForToken(w, op, t)
      PROVE  IInv'
  BY <1>2, BeginForTokenInv
<1>3. ASSUME NEW w \in Workers, LockToken(w) \/ LockUser(w) \/ UpdateRow(w)
      PROVE  IInv'
  BY <1>3, LockTokenInv, LockUserInv, UpdateRowInv
<1>4. ASSUME NEW w \in Workers, StartRevokeFamily(w)
      PROVE  IInv'
  <2>1. txn[w].op = "rotate" /\ txn[w].revoked
    BY <1>4 DEF StartRevokeFamily, Working
  <2>2. StartUpdate(w, Targets(w))
    BY <1>4, <2>1 DEF StartRevokeFamily, Targets
  <2> QED
    BY <2>1, <2>2, StartUpdateInv
<1>5. ASSUME NEW w \in Workers, StartRevokeAll(w)
      PROVE  IInv'
  <2>1. txn[w].op \in {"suspend", "deactivate"}
    BY <1>5 DEF StartRevokeAll, Working
  <2>2. StartUpdate(w, Targets(w))
    BY <1>5, <2>1 DEF StartRevokeAll, Targets
  <2> QED
    BY <2>1, <2>2, StartUpdateInv
<1>6. ASSUME NEW w \in Workers, Commit(w)
      PROVE  IInv'
  <2>1. ASSUME SetStatusRejected(w) PROVE IInv'
    <3>1. txn[w].pc # "idle" /\ "InvalidStatusTransition" \in Replies
      BY <2>1 DEF SetStatusRejected, Working, Replies
    <3> QED
      BY <2>1, <3>1, FinishUnchanged DEF SetStatusRejected
  <2> QED
    BY <1>6, <2>1, LoginInv, FailedLoginInv, RotateInv, RotateExpiredInv, ReuseDetectedInv,
       LogoutInv, ActivateInv, SuspendInv, DeactivateInv DEF Commit
<1>7. ASSUME NEW w \in Workers, Victim(w) \/ Fail(w)
      PROVE  IInv'
  <2>1. txn[w].pc # "idle"
    BY <1>7 DEF Victim, Fail, Deadlocked, WaitsFor
  <2>2. "failed" \in Replies
    BY DEF Replies
  <2> QED
    BY <1>7, <2>1, <2>2, FinishUnchanged DEF Victim, Fail
<1>8. CASE Tick
  BY <1>8, TickInv
<1>9. CASE UNCHANGED vars
  BY <1>9 DEF vars, IInv, TypeOK, DataInv, FamiliesWellFormed, ParentsRevoked,
     OneLiveTokenPerFamily, RotatedOnce, LiveTokenOwnerActive, LockoutMatchesCount, TxnInv,
     TxnWellFormed, ReadsCurrent, UpdateCoversTargets, Targets, LocksExclusive, Live,
     HoldsUser, HoldsToken
<1> QED
  BY <1>1, <1>2, <1>3, <1>4, <1>5, <1>6, <1>7, <1>8, <1>9 DEF Next, Step

\* The inductive invariant of the sessions.
THEOREM Invariance == Spec => []IInv
BY InitInv, NextInv, PTL DEF Spec

\* Every variable keeps its type: rows hold values of their columns' types.
THEOREM TypeCorrect == Spec => []TypeOK
<1>1. IInv => TypeOK
  BY DEF IInv
<1> QED
  BY <1>1, Invariance, PTL

\* A family never has two tokens that can be rotated: of two requests that
\* present the same token only one gets a successor.
THEOREM FamilySafety == Spec => [](OneLiveTokenPerFamily /\ RotatedOnce)
<1>1. IInv => OneLiveTokenPerFamily /\ RotatedOnce
  BY DEF IInv, DataInv
<1> QED
  BY <1>1, Invariance, PTL

\* A suspended, disabled or invited account has no token that can be rotated.
THEOREM SuspensionSafety == Spec => []LiveTokenOwnerActive
<1>1. IInv => LiveTokenOwnerActive
  BY DEF IInv, DataInv
<1> QED
  BY <1>1, Invariance, PTL

\* A lock is set exactly while the failure count stands at its limit.
THEOREM LockoutSafety == Spec => []LockoutMatchesCount
<1>1. IInv => LockoutMatchesCount
  BY DEF IInv, DataInv
<1> QED
  BY <1>1, Invariance, PTL

-----------------------------------------------------------------------------
(* What the commits do *)

LEMMA FinishOutcome ==
    ASSUME NEW w, NEW reply, NEW event, Finish(w, reply, event)
    PROVE  /\ done'.op = txn[w].op /\ done'.user = txn[w].user /\ done'.token = txn[w].token
           /\ done'.reply = reply /\ done'.event = event
BY DEF Finish

\* A step after which a request has ended is one of its commits or a rollback.
LEMMA OutcomeOfStep ==
    ASSUME Next
    PROVE  \/ done' = None
           \/ \E w \in Workers : Commit(w) \/ Finish(w, "failed", None)
<1>1. ASSUME NEW w \in Workers, NEW op, NEW u, BeginForUser(w, op, u) PROVE done' = None
  BY <1>1 DEF BeginForUser
<1>2. ASSUME NEW w \in Workers, NEW op, NEW t, BeginForToken(w, op, t) PROVE done' = None
  BY <1>2 DEF BeginForToken
<1>3. ASSUME NEW w \in Workers, LockToken(w) \/ LockUser(w) \/ UpdateRow(w) PROVE done' = None
  BY <1>3 DEF LockToken, LockUser, UpdateRow
<1>4. ASSUME NEW w \in Workers, StartRevokeFamily(w) \/ StartRevokeAll(w) PROVE done' = None
  BY <1>4 DEF StartRevokeFamily, StartRevokeAll, StartUpdate
<1>5. ASSUME NEW w \in Workers, Victim(w) \/ Fail(w) PROVE Finish(w, "failed", None)
  BY <1>5 DEF Victim, Fail
<1>6. CASE Tick
  BY <1>6 DEF Tick
<1> QED
  BY <1>1, <1>2, <1>3, <1>4, <1>5, <1>6 DEF Next, Step

\* Which commit gave an outcome.
LEMMA CommitOfOutcome ==
    ASSUME NEW w \in Workers, Commit(w)
    PROVE  /\ done'.event = "token_reuse" => ReuseDetected(w)
           /\ done'.event = "logout" => Logout(w)
           /\ done'.op = "bad_login" => FailedLogin(w)
           /\ done'.op = "login" => Login(w)
           /\ done'.user = txn[w].user /\ done'.token = txn[w].token
<1> USE FinishOutcome, NoneAssumption DEF Events
<1>1. CASE Login(w)
  BY <1>1 DEF Login, Working
<1>2. CASE FailedLogin(w)
  BY <1>2 DEF FailedLogin, Working
<1>3. CASE Rotate(w) \/ RotateExpired(w)
  BY <1>3 DEF Rotate, RotateExpired, Working
<1>4. CASE ReuseDetected(w)
  BY <1>4 DEF ReuseDetected, UpdateDone
<1>5. CASE Logout(w)
  BY <1>5 DEF Logout, Working
<1>6. CASE SetStatusRejected(w) \/ Activate(w)
  BY <1>6 DEF SetStatusRejected, Activate, Working
<1>7. CASE Suspend(w) \/ Deactivate(w)
  BY <1>7 DEF Suspend, Deactivate, UpdateDone
<1> QED
  BY <1>1, <1>2, <1>3, <1>4, <1>5, <1>6, <1>7 DEF Commit

LEMMA ReuseStepHolds ==
    ASSUME IInv, Next
    PROVE  ReuseStep
<1> SUFFICES ASSUME done' # None, done'.event = "token_reuse"
             PROVE  \A t \in rows' : token'[t].family = token'[done'.token].family
                                     => token'[t].is_revoked
  BY DEF ReuseStep
<1>1. PICK w \in Workers : Commit(w)
  BY OutcomeOfStep, FinishOutcome, NoneAssumption DEF Events
<1>2. ReuseDetected(w) /\ done'.token = txn[w].token
  BY <1>1, CommitOfOutcome
<1>3. /\ Targets(w) \subseteq txn[w].hit /\ txn[w].op = "rotate"
      /\ token' = Revoke(txn[w].hit) /\ rows' = rows
  BY <1>2, UpdateHits DEF ReuseDetected
<1>4. txn[w].token \in rows /\ rows \subseteq Tokens /\ token \in [Tokens -> TokenRow]
  BY <1>3 DEF IInv, TypeOK, TxnInv, TxnWellFormed, TokenOps
<1>5. ASSUME NEW t \in rows, token'[t].family = token'[txn[w].token].family
      PROVE  token'[t].is_revoked
  <2>1. token[t].family = token[txn[w].token].family
    BY <1>3, <1>4, <1>5, RevokeEffect
  <2>2. token[t].is_revoked \/ t \in txn[w].hit
    BY <1>3, <2>1 DEF Targets, Live
  <2> QED
    BY <1>3, <1>4, <2>2, RevokeEffect
<1> QED
  BY <1>2, <1>3, <1>5

LEMMA LogoutStepHolds ==
    ASSUME IInv, Next
    PROVE  LogoutStep
<1> SUFFICES ASSUME done' # None, done'.event = "logout"
             PROVE  Live(done'.token) /\ token'[done'.token].is_revoked
  BY DEF LogoutStep
<1>1. PICK w \in Workers : Commit(w)
  BY OutcomeOfStep, FinishOutcome, NoneAssumption DEF Events
<1>2. Logout(w) /\ done'.token = txn[w].token
  BY <1>1, CommitOfOutcome
<1>3. ~txn[w].revoked /\ token' = Revoke({txn[w].token})
  BY <1>2, FinishOutcome, NoneAssumption DEF Logout, Events
<1>4. /\ txn[w].token \in rows /\ rows \subseteq Tokens /\ token \in [Tokens -> TokenRow]
      /\ ~token[txn[w].token].is_revoked
  BY <1>2, <1>3 DEF Logout, Working, IInv, TypeOK, TxnInv, TxnWellFormed, ReadsCurrent, TokenOps
<1>5. token'[txn[w].token].is_revoked
  BY <1>3, <1>4, RevokeEffect
<1> QED
  BY <1>2, <1>4, <1>5 DEF Live

LEMMA FailureStepHolds ==
    ASSUME IInv, Next
    PROVE  FailureStep
<1> SUFFICES ASSUME done' # None, done'.op = "bad_login", done'.reply # "failed"
             PROVE  \/ Locked(done'.user)
                    \/ user'[done'.user].failed_login_count
                         = ClearExpiredLock(user[done'.user]).failed_login_count + 1
  BY DEF FailureStep
<1>1. PICK w \in Workers : Commit(w)
  BY OutcomeOfStep, FinishOutcome
<1>2. FailedLogin(w) /\ done'.user = txn[w].user
  BY <1>1, CommitOfOutcome
<1> DEFINE u == txn[w].user
           a == ClearExpiredLock(user[u])
<1>3. /\ u \in Users /\ user \in [Users -> UserRow] /\ txn[w].row = user[u]
      /\ user[u] \in UserRow
  BY <1>2 DEF FailedLogin, Working, IInv, TypeOK, TxnInv, TxnWellFormed, ReadsCurrent
<1>4. a.locked_for > 0 => Locked(u)
  BY <1>3 DEF ClearExpiredLock, Locked, NotLocked, UserRow
<1>5. \/ a.locked_for > 0
      \/ \E l : user' = [user EXCEPT ![u] = [@ EXCEPT !.failed_login_count = a.failed_login_count + 1,
                                                     !.locked_for = l]]
  BY <1>2, <1>3 DEF FailedLogin
<1>6. ASSUME NEW l, user' = [user EXCEPT ![u] = [@ EXCEPT !.failed_login_count = a.failed_login_count + 1,
                                                        !.locked_for = l]]
      PROVE  user'[u].failed_login_count = a.failed_login_count + 1
  BY <1>3, <1>6 DEF UserRow
<1> QED
  BY <1>2, <1>4, <1>5, <1>6

LEMMA LoginStepHolds ==
    ASSUME IInv, Next
    PROVE  LoginStep
<1> SUFFICES ASSUME done' # None, done'.op = "login", done'.reply = "ok"
             PROVE  /\ ~Locked(done'.user)
                    /\ user[done'.user].is_active /\ user[done'.user].status = "active"
  BY DEF LoginStep
<1>1. PICK w \in Workers : Commit(w)
  BY OutcomeOfStep, FinishOutcome
<1>2. Login(w) /\ done'.user = txn[w].user
  BY <1>1, CommitOfOutcome
<1>3. /\ txn[w].user \in Users /\ txn[w].row = user[txn[w].user]
      /\ user[txn[w].user] \in UserRow
  BY <1>2 DEF Login, Working, IInv, TypeOK, TxnInv, TxnWellFormed, ReadsCurrent
<1> DEFINE a == ClearExpiredLock(user[txn[w].user])
<1>4. a.locked_for <= 0 /\ a.is_active /\ a.status = "active"
  BY <1>2, <1>3, FinishOutcome DEF Login
<1>5. /\ user[txn[w].user].is_active /\ user[txn[w].user].status = "active"
      /\ user[txn[w].user].locked_for <= 0
  BY <1>3, <1>4 DEF ClearExpiredLock, UserRow
<1>6. ~(user[txn[w].user].locked_for > 0)
  BY <1>3, <1>5 DEF UserRow, NotLocked
<1> QED
  BY <1>2, <1>5, <1>6 DEF Locked

\* Reuse detection that commits leaves no live token in the family, whatever
\* logins, refreshes and suspensions run meanwhile.
THEOREM ReuseClosesFamily == Spec => ReuseRevokesFamily
<1>1. IInv /\ [Next]_vars => [ReuseStep]_vars
  BY ReuseStepHolds
<1> QED
  BY <1>1, Invariance, PTL DEF Spec, ReuseRevokesFamily

\* A logout event is stored by the request that revokes the token and by no other.
THEOREM LogoutOnce == Spec => LogoutRecordedOnce
<1>1. IInv /\ [Next]_vars => [LogoutStep]_vars
  BY LogoutStepHolds
<1> QED
  BY <1>1, Invariance, PTL DEF Spec, LogoutRecordedOnce

\* No wrong password goes uncounted: the increment is never lost to another request.
THEOREM FailuresCount == Spec => EveryFailureCounts
<1>1. IInv /\ [Next]_vars => [FailureStep]_vars
  BY FailureStepHolds
<1> QED
  BY <1>1, Invariance, PTL DEF Spec, EveryFailureCounts

\* A session is opened only on an account that is unlocked, enabled and active at
\* that moment, not only when login read it.
THEOREM LoginSafety == Spec => LoginOnUnlockedAccount
<1>1. IInv /\ [Next]_vars => [LoginStep]_vars
  BY LoginStepHolds
<1> QED
  BY <1>1, Invariance, PTL DEF Spec, LoginOnUnlockedAccount

-----------------------------------------------------------------------------
(* Deadlocks *)

\* No step changes whose token a row is, or its family; rows are only inserted.
LEMMA TokensKeepOwner ==
    ASSUME IInv, [Next]_vars
    PROVE  /\ rows \subseteq rows'
           /\ \A t \in rows : token'[t].user = token[t].user /\ token'[t].family = token[t].family
<1>1. /\ rows \subseteq Tokens /\ token \in [Tokens -> TokenRow]
      /\ \A T : \A t \in rows : /\ Revoke(T)[t].user = token[t].user
                              /\ Revoke(T)[t].family = token[t].family
  BY RevokeEffect DEF IInv, TypeOK
<1>2. ASSUME NEW w \in Workers, Commit(w)
      PROVE  /\ rows \subseteq rows'
             /\ \A t \in rows : token'[t].user = token[t].user /\ token'[t].family = token[t].family
  <2>1. CASE Login(w)
    BY <1>1, <2>1 DEF Login
  <2>2. CASE Rotate(w)
    <3>1. PICK c, r :
            /\ c \in Tokens \ rows
            /\ rows' = rows \cup {c}
            /\ token' = [Revoke({txn[w].token}) EXCEPT ![c] = r]
      BY <2>2 DEF Rotate
    <3>2. \A t \in rows : token'[t] = Revoke({txn[w].token})[t]
      BY <1>1, <3>1 DEF Revoke
    <3> QED
      BY <1>1, <3>1, <3>2
  <2>3. CASE RotateExpired(w) \/ Logout(w) \/ ReuseDetected(w) \/ Suspend(w) \/ Deactivate(w)
    BY <1>1, <2>3 DEF RotateExpired, Logout, ReuseDetected, Suspend, Deactivate
  <2>4. CASE FailedLogin(w) \/ SetStatusRejected(w) \/ Activate(w)
    BY <2>4 DEF FailedLogin, SetStatusRejected, Activate
  <2> QED
    BY <1>2, <2>1, <2>2, <2>3, <2>4 DEF Commit
<1>3. CASE Tick
  BY <1>1, <1>3, TickEffect DEF IInv
<1>4. ASSUME NEW w \in Workers, NEW op, NEW u, BeginForUser(w, op, u)
      PROVE  rows' = rows /\ token' = token
  BY <1>4 DEF BeginForUser
<1>5. ASSUME NEW w \in Workers, NEW op, NEW t, BeginForToken(w, op, t)
      PROVE  rows' = rows /\ token' = token
  BY <1>5 DEF BeginForToken
<1>6. ASSUME NEW w \in Workers, LockToken(w) \/ LockUser(w) \/ UpdateRow(w)
      PROVE  rows' = rows /\ token' = token
  BY <1>6 DEF LockToken, LockUser, UpdateRow
<1>7. ASSUME NEW w \in Workers, StartRevokeFamily(w) \/ StartRevokeAll(w)
      PROVE  rows' = rows /\ token' = token
  BY <1>7 DEF StartRevokeFamily, StartRevokeAll, StartUpdate
<1>8. ASSUME NEW w \in Workers, Victim(w) \/ Fail(w)
      PROVE  rows' = rows /\ token' = token
  BY <1>8 DEF Victim, Fail
<1>9. CASE UNCHANGED vars
  BY <1>9 DEF vars
<1> QED
  BY <1>2, <1>3, <1>4, <1>5, <1>6, <1>7, <1>8, <1>9 DEF Next, Step

\* How a step changes the rows that a transaction's UPDATE visits: it goes on
\* with some of them, it has none, or the UPDATE starts on its targets.
LEMMA VisitedAfter ==
    ASSUME IInv, [Next]_vars, NEW v \in Workers
    PROVE  \/ txn'[v].todo \cup txn'[v].hit = {}
           \/ /\ txn'[v].user = txn[v].user
              /\ txn'[v].todo \cup txn'[v].hit \subseteq txn[v].todo \cup txn[v].hit
           \/ /\ txn'[v].user = txn[v].user
              /\ txn'[v].todo \cup txn'[v].hit \subseteq Targets(v)
              /\ txn[v].pc = "work"
<1> DEFINE P == \/ txn'[v].todo \cup txn'[v].hit = {}
                \/ /\ txn'[v].user = txn[v].user
                   /\ txn'[v].todo \cup txn'[v].hit \subseteq txn[v].todo \cup txn[v].hit
                \/ /\ txn'[v].user = txn[v].user
                   /\ txn'[v].todo \cup txn'[v].hit \subseteq Targets(v)
                   /\ txn[v].pc = "work"
<1>1. txn \in [Workers -> Txn] /\ TxnWellFormed(v)
  BY DEF IInv, TypeOK, TxnInv
<1>2. txn'[v] = txn[v] => P
  OBVIOUS
<1>3. ASSUME NEW w \in Workers, NEW reply, NEW event, Finish(w, reply, event) PROVE P
  BY <1>1, <1>3 DEF Finish, Idle
<1>4. ASSUME NEW w \in Workers, Commit(w) \/ Victim(w) \/ Fail(w)
      PROVE  \E reply, event : Finish(w, reply, event)
  BY <1>4 DEF Commit, Login, FailedLogin, Rotate, RotateExpired, ReuseDetected, Logout,
              SetStatusRejected, Activate, Suspend, Deactivate, Victim, Fail
<1>5. ASSUME NEW w \in Workers, Commit(w) \/ Victim(w) \/ Fail(w) PROVE P
  BY <1>3, <1>4, <1>5
<1>6. ASSUME NEW w \in Workers, NEW op, NEW u, BeginForUser(w, op, u) PROVE P
  BY <1>1, <1>6 DEF BeginForUser, Idle
<1>7. ASSUME NEW w \in Workers, NEW op, NEW t, BeginForToken(w, op, t) PROVE P
  BY <1>1, <1>7 DEF BeginForToken, Idle
<1>8. ASSUME NEW w \in Workers, LockToken(w) \/ LockUser(w) PROVE P
  <2>1. txn[w] \in Txn /\ \A u \in Workers \ {w} : txn'[u] = txn[u]
    BY <1>1, <1>8 DEF LockToken, LockUser
  <2>2. \/ txn'[w] = [txn[w] EXCEPT !.pc = "lock_user", !.revoked = token[txn[w].token].is_revoked]
        \/ txn'[w] = [txn[w] EXCEPT !.pc = "work", !.row = user[txn[w].user]]
    BY <1>1, <1>8 DEF LockToken, LockUser
  <2>3. txn'[w].user = txn[w].user /\ txn'[w].todo = txn[w].todo /\ txn'[w].hit = txn[w].hit
    BY <2>1, <2>2 DEF Txn
  <2> QED
    BY <2>1, <2>3
<1>9. ASSUME NEW w \in Workers, NEW T, StartUpdate(w, T), v = w => T = Targets(w) PROVE P
  <2>1. CASE v = w
    <3>1. PICK n : txn' = [txn EXCEPT ![w] = [@ EXCEPT !.pc = "update", !.todo = T, !.next = n]]
      BY <1>9 DEF StartUpdate
    <3>2. /\ txn'[v].user = txn[v].user /\ txn'[v].todo = Targets(v)
          /\ txn'[v].hit = txn[v].hit
      BY <1>1, <1>9, <2>1, <3>1 DEF Txn
    <3>3. txn[v].hit = {} /\ txn[v].pc = "work"
      BY <1>1, <1>9, <2>1 DEF StartUpdate, TxnWellFormed
    <3> QED
      BY <3>2, <3>3
  <2>2. CASE v # w
    BY <1>1, <1>2, <1>9, <2>2 DEF StartUpdate
  <2> QED
    BY <2>1, <2>2
<1>10. ASSUME NEW w \in Workers, StartRevokeFamily(w) \/ StartRevokeAll(w) PROVE P
  <2>1. StartUpdate(w, Targets(w))
    BY <1>10 DEF StartRevokeFamily, StartRevokeAll, Targets, Working
  <2> QED
    BY <1>9, <2>1
<1>11. ASSUME NEW w \in Workers, UpdateRow(w) PROVE P
  <2>1. CASE v = w
    <3> DEFINE rest == txn[w].todo \ {txn[w].next}
    <3>1. PICK n : txn' = [txn EXCEPT ![w] = [@ EXCEPT !.todo = rest, !.next = n,
                                                       !.hit = txn[w].hit \cup {txn[w].next}]]
      BY <1>11 DEF UpdateRow
    <3>2. /\ txn'[v].user = txn[v].user /\ txn'[v].todo = rest
          /\ txn'[v].hit = txn[w].hit \cup {txn[w].next}
      BY <1>1, <2>1, <3>1 DEF Txn
    <3>3. txn[w].next \in txn[w].todo
      BY <1>1, <1>11, <2>1 DEF UpdateRow, TxnWellFormed
    <3> QED
      BY <2>1, <3>2, <3>3
  <2>2. CASE v # w
    BY <1>1, <1>2, <1>11, <2>2 DEF UpdateRow
  <2> QED
    BY <2>1, <2>2
<1>12. CASE Tick
  BY <1>2, <1>12, TickEffect DEF IInv
<1>13. CASE UNCHANGED vars
  BY <1>2, <1>13 DEF vars
<1>14. ASSUME NEW w \in Workers, Step(w) PROVE P
  BY <1>8, <1>10, <1>11, <1>14, <1>5 DEF Step
<1> QED
  BY <1>6, <1>7, <1>12, <1>13, <1>14, <1>5 DEF Next

\* The targets of a bulk UPDATE are rows of the transaction's account: a family is
\* of one account.
LEMMA TargetsOfAccount ==
    ASSUME IInv, NEW w \in Workers, NEW t \in Targets(w)
    PROVE  t \in rows /\ token[t].user = txn[w].user
<1>1. TxnWellFormed(w)
  BY DEF IInv, TxnInv
<1>2. t \in rows
  BY DEF Targets
<1>3. CASE txn[w].op = "rotate"
  <2>1. txn[w].token \in rows /\ token[txn[w].token].user = txn[w].user
    BY <1>1, <1>3 DEF TxnWellFormed, TokenOps
  <2>2. token[t].family = token[txn[w].token].family
    BY <1>3 DEF Targets
  <2> QED
    BY <1>2, <2>1, <2>2 DEF IInv, DataInv, FamiliesWellFormed
<1>4. CASE txn[w].op # "rotate"
  BY <1>2, <1>4 DEF Targets
<1> QED
  BY <1>3, <1>4

\* A bulk UPDATE locks the rows of one account only, whichever it is: this is
\* what keeps two of them, on two accounts, out of each other's way.
THEOREM UpdatesOnOneAccount == Spec => []UpdatesStayInAccount
<1>1. Init => UpdatesStayInAccount
  BY DEF Init, Idle, UpdatesStayInAccount, UpdateOnOneAccount
<1>2. IInv /\ UpdatesStayInAccount /\ [Next]_vars => UpdatesStayInAccount'
  <2> SUFFICES ASSUME IInv, UpdatesStayInAccount, [Next]_vars, NEW v \in Workers,
                      NEW t \in txn'[v].todo \cup txn'[v].hit
               PROVE  token'[t].user = txn'[v].user
    BY DEF UpdatesStayInAccount, UpdateOnOneAccount
  <2>1. txn[v].todo \cup txn[v].hit \subseteq rows
    BY DEF IInv, TxnInv, TxnWellFormed
  <2>2. txn'[v].user = txn[v].user /\ t \in rows /\ token[t].user = txn[v].user
    BY <2>1, VisitedAfter, TargetsOfAccount DEF UpdatesStayInAccount, UpdateOnOneAccount
  <2> QED
    BY <2>2, TokensKeepOwner
<1> QED
  BY <1>1, <1>2, Invariance, PTL DEF Spec

\* A transaction that another waits for holds what a waiting one may hold.
LEMMA WaitedFor ==
    ASSUME IInv, NEW v \in Workers, NEW w \in Workers, WaitsFor(v, w)
    PROVE  /\ txn[w].pc \notin {"idle", "lock_token"}
           /\ txn[w].pc = "lock_user" => /\ txn[v].pc \in {"lock_token", "update"}
                                         /\ txn[w].op \in TokenOps
           /\ txn[v].pc = "lock_user" => txn[w].pc \in {"work", "update"} /\ txn[w].user = txn[v].user
           /\ txn[v].pc = "update" => txn[v].next # None /\ HoldsToken(w, txn[v].next)
<1>1. TxnWellFormed(v) /\ TxnWellFormed(w) /\ txn[v] \in Txn
  BY DEF IInv, TxnInv, TypeOK
<1>2. txn[v].pc = "lock_token" => txn[v].token \in rows
  BY <1>1 DEF TxnWellFormed
<1>3. txn[v].pc \in {"lock_token", "lock_user", "update"}
  BY DEF WaitsFor
<1>4. CASE txn[v].pc = "lock_user"
  BY <1>1, <1>4 DEF WaitsFor, HoldsUser, TxnWellFormed
<1>5. CASE txn[v].pc = "lock_token"
  <2>1. HoldsToken(w, txn[v].token) /\ txn[v].token # None
    BY <1>1, <1>2, <1>5, NoneAssumption DEF WaitsFor, IInv, TypeOK
  <2> QED
    BY <1>1, <1>5, <2>1 DEF HoldsToken, TxnWellFormed
<1>6. CASE txn[v].pc = "update"
  <2>1. HoldsToken(w, txn[v].next) /\ txn[v].next # None
    BY <1>6 DEF WaitsFor
  <2> QED
    BY <1>1, <1>6, <2>1 DEF HoldsToken, TxnWellFormed
<1> QED
  BY <1>3, <1>4, <1>5, <1>6

\* Whom an UPDATE waits for is at work on the same account.
LEMMA UpdateWaitsInAccount ==
    ASSUME IInv, UpdatesStayInAccount, NEW v \in Workers, NEW w \in Workers,
           WaitsFor(v, w), txn[v].pc = "update", txn[w].pc \in {"lock_user", "update"}
    PROVE  UpdateAgainstToken(v, w)
<1>1. /\ TxnWellFormed(v) /\ TxnWellFormed(w) /\ v # w
      /\ UpdateOnOneAccount(v) /\ UpdateOnOneAccount(w)
  BY DEF IInv, TxnInv, WaitsFor, UpdatesStayInAccount
<1>2. HoldsToken(w, txn[v].next) /\ txn[v].next # None
  BY WaitedFor
<1>3. token[txn[v].next].user = txn[v].user
  BY <1>1, <1>2 DEF TxnWellFormed, UpdateOnOneAccount
<1>4. token[txn[v].next].user = txn[w].user
  BY <1>1, <1>2, <1>3 DEF HoldsToken, TxnWellFormed, UpdateOnOneAccount
<1>5. txn[v].user \in Users
  BY <1>1 DEF TxnWellFormed
<1>6. txn[w].pc # "update"
  BY <1>1, <1>3, <1>4, <1>5 DEF IInv, TxnInv, LocksExclusive, HoldsUser
<1>7. txn[w].pc = "lock_user" /\ txn[w].op \in TokenOps
  BY <1>6, WaitedFor
<1>8. txn[w].token = txn[v].next
  BY <1>1, <1>2, <1>7 DEF HoldsToken, TxnWellFormed
<1> QED
  BY <1>2, <1>3, <1>4, <1>7, <1>8 DEF UpdateAgainstToken

\* Every deadlock is between a bulk UPDATE of an account's tokens and a refresh or
\* logout that holds one of them and waits for the account: logins, wrong
\* passwords, activations and refreshes still waiting for their token are never
\* rolled back for one, and no longer circle exists.
THEOREM DeadlockSafety == Spec => []DeadlocksArePairs
<1>1. IInv /\ UpdatesStayInAccount => DeadlocksArePairs
  <2> SUFFICES ASSUME IInv, UpdatesStayInAccount, NEW w \in Workers, Deadlocked(w)
               PROVE  \E v \in Workers : UpdateAgainstToken(w, v) \/ UpdateAgainstToken(v, w)
    BY DEF DeadlocksArePairs
  <2>1. PICK S \in SUBSET Workers :
          /\ w \in S
          /\ \A v \in S : (\E x \in S : WaitsFor(v, x)) /\ (\E x \in S : WaitsFor(x, v))
    BY DEF Deadlocked
  <2>2. \A v \in S : txn[v].pc \in {"lock_user", "update"}
    <3> SUFFICES ASSUME NEW v \in S PROVE txn[v].pc \in {"lock_user", "update"}
      OBVIOUS
    <3>1. PICK x \in S, y \in S : WaitsFor(v, x) /\ WaitsFor(y, v)
      BY <2>1
    <3>2. txn[v].pc # "lock_token"
      BY <3>1, WaitedFor
    <3> QED
      BY <3>1, <3>2 DEF WaitsFor
  <2>3. CASE txn[w].pc = "update"
    <3>1. PICK x \in S : WaitsFor(w, x)
      BY <2>1
    <3> QED
      BY <2>2, <2>3, <3>1, UpdateWaitsInAccount
  <2>4. CASE txn[w].pc = "lock_user"
    <3>1. PICK y \in S : WaitsFor(y, w)
      BY <2>1
    <3>2. txn[y].pc = "update"
      BY <2>2, <2>4, <3>1, WaitedFor
    <3> QED
      BY <2>4, <3>1, <3>2, UpdateWaitsInAccount
  <2> QED
    BY <2>1, <2>2, <2>3, <2>4
<1> QED
  BY <1>1, Invariance, UpdatesOnOneAccount, PTL

-----------------------------------------------------------------------------
(* The sessions implement TokenFamilies *)


LEMMA OneOfSet ==
    /\ OneOf({}) = None
    /\ \A S : S # {} => OneOf(S) \in S
BY DEF OneOf

\* The current token of a family is its live one.
LEMMA CurrentIsLive ==
    ASSUME IInv, NEW f \in Tokens
    PROVE  /\ \A t \in rows : Live(t) /\ token[t].family = f => CurrentToken[f] = t
           /\ CurrentToken[f] # None => /\ CurrentToken[f] \in rows /\ Live(CurrentToken[f])
                                        /\ token[CurrentToken[f]].family = f
<1>1. CurrentToken[f] = OneOf(LiveTokens[f])
  BY DEF CurrentToken
<1>2. LiveTokens[f] = {t \in rows : Live(t) /\ token[t].family = f}
  BY DEF LiveTokens
<1>3. CASE LiveTokens[f] = {}
  BY <1>1, <1>2, <1>3, OneOfSet
<1>4. CASE LiveTokens[f] # {}
  <2>1. CurrentToken[f] \in LiveTokens[f]
    BY <1>1, <1>4, OneOfSet
  <2> QED
    BY <1>2, <2>1 DEF IInv, DataInv, OneLiveTokenPerFamily
<1> QED
  BY <1>3, <1>4

LEMMA NotCurrent ==
    ASSUME IInv, NEW t \in Tokens \ rows
    PROVE  t \notin SpentTokens /\ \A f \in Tokens : CurrentToken[f] # t
BY CurrentIsLive, NoneAssumption DEF SpentTokens

\* The live tokens of a family after a step decide its current token.
LEMMA CurrentAfter ==
    /\ \A f \in Tokens : LiveTokens'[f] = LiveTokens[f] => CurrentToken'[f] = CurrentToken[f]
    /\ \A f \in Tokens : LiveTokens'[f] = {} => CurrentToken'[f] = None
    /\ \A f \in Tokens : \A c : LiveTokens'[f] = {c} => CurrentToken'[f] = c
<1>1. \A f \in Tokens : CurrentToken[f] = OneOf(LiveTokens[f]) /\ CurrentToken'[f] = OneOf(LiveTokens'[f])
  BY DEF CurrentToken
<1> QED
  BY <1>1, OneOfSet

LEMMA LiveTokensAfter ==
    \A f \in Tokens :
        LiveTokens'[f] = {t \in rows' : ~token'[t].is_revoked /\ token'[t].family = f}
BY DEF LiveTokens, Live

\* A step that changes neither the rows present, nor a family, nor a revocation.
LEMMA FamiliesUnchanged ==
    ASSUME rows' = rows,
           \A t \in rows : /\ token'[t].family = token[t].family
                           /\ token'[t].is_revoked <=> token[t].is_revoked
    PROVE  UNCHANGED <<CurrentToken, SpentTokens>>
<1>1. \A f \in Tokens : LiveTokens'[f] = LiveTokens[f]
  BY DEF LiveTokens, Live
<1>2. \A f \in Tokens : CurrentToken'[f] = CurrentToken[f]
  BY <1>1, CurrentAfter
<1>3. CurrentToken' = CurrentToken
  BY <1>2 DEF CurrentToken
<1>4. SpentTokens' = SpentTokens
  BY DEF SpentTokens
<1> QED
  BY <1>3, <1>4

\* Revoking a set of tokens closes the families in which one of them was live.
LEMMA RevokeCloses ==
    ASSUME IInv, rows' = rows, NEW T \in SUBSET rows, token' = Revoke(T)
    PROVE  \E F \in SUBSET Tokens : Families!Close(F)
<1> DEFINE F == {f \in Tokens : \E t \in T : Live(t) /\ token[t].family = f}
<1>1. /\ rows \subseteq Tokens
      /\ \A t \in rows : /\ token'[t].family = token[t].family
                         /\ token'[t].is_revoked <=> (token[t].is_revoked \/ t \in T)
  BY RevokeEffect DEF IInv, TypeOK
<1>2. ASSUME NEW f \in F
      PROVE  CurrentToken[f] \in T /\ Live(CurrentToken[f]) /\ CurrentToken[f] # None
  <2>1. PICK t \in T : Live(t) /\ token[t].family = f
    OBVIOUS
  <2>2. CurrentToken[f] = t /\ t \in Tokens
    BY <1>1, <2>1, CurrentIsLive
  <2> QED
    BY <2>1, <2>2, NoneAssumption
<1>3. ASSUME NEW f \in Tokens
      PROVE  CurrentToken'[f] = IF f \in F THEN None ELSE CurrentToken[f]
  <2>1. CASE f \in F
    <3>1. \A t \in rows : token[t].family = f /\ Live(t) => t \in T
      BY <1>2, <2>1, CurrentIsLive
    <3>2. LiveTokens'[f] = {}
      BY <1>1, <3>1, LiveTokensAfter DEF Live
    <3> QED
      BY <2>1, <3>2, CurrentAfter
  <2>2. CASE f \notin F
    <3>1. \A t \in rows : token[t].family = f /\ ~token[t].is_revoked => t \notin T
      BY <2>2 DEF Live
    <3>2. LiveTokens[f] = {t \in rows : ~token[t].is_revoked /\ token[t].family = f}
      BY DEF LiveTokens, Live
    <3>3. LiveTokens'[f] = LiveTokens[f]
      BY <1>1, <3>1, <3>2, LiveTokensAfter
    <3> QED
      BY <2>2, <3>3, CurrentAfter
  <2> QED
    BY <2>1, <2>2
<1>4. CurrentToken' = [f \in Tokens |-> IF f \in F THEN None ELSE CurrentToken[f]]
  BY <1>3 DEF CurrentToken
<1>5. SpentTokens' = SpentTokens \cup {CurrentToken[f] : f \in F}
  <2>1. ASSUME NEW t \in rows
        PROVE  t \in SpentTokens' <=> t \in SpentTokens \cup {CurrentToken[f] : f \in F}
    <3>1. CASE Live(t) /\ t \in T
      <4>1. token[t].family \in F /\ CurrentToken[token[t].family] = t
        BY <1>1, <3>1, CurrentIsLive DEF IInv, DataInv, FamiliesWellFormed
      <4> QED
        BY <1>1, <3>1, <4>1 DEF SpentTokens
    <3>2. CASE ~(Live(t) /\ t \in T)
      <4>1. t \notin {CurrentToken[f] : f \in F}
        BY <1>2, <3>2
      <4>2. token'[t].is_revoked <=> token[t].is_revoked
        BY <1>1, <3>2 DEF Live
      <4>3. t \in SpentTokens' <=> t \in SpentTokens
        BY <4>2 DEF SpentTokens
      <4> HIDE DEF F
      <4> QED
        BY <4>1, <4>3
    <3> QED
      BY <3>1, <3>2
  <2>2. SpentTokens' \subseteq rows /\ SpentTokens \cup {CurrentToken[f] : f \in F} \subseteq rows
    BY <1>2 DEF SpentTokens
  <2> QED
    BY <2>1, <2>2
<1> HIDE DEF F
<1>6. Families!Close(F)
  BY <1>2, <1>4, <1>5 DEF Families!Close
<1>7. F \in SUBSET Tokens
  BY DEF F
<1> QED
  BY <1>6, <1>7

\* A login opens the family named after the token it inserts.
LEMMA LoginOpens ==
    ASSUME IInv, NEW c \in Tokens \ rows, NEW u, rows' = rows \cup {c},
           token' = [token EXCEPT ![c] = NewToken(u, c, None)]
    PROVE  Families!Open(c)
<1>1. /\ rows \subseteq Tokens /\ token \in [Tokens -> TokenRow]
      /\ \A x \in rows : token[x].family \in rows /\ token'[x] = token[x]
      /\ token'[c].family = c /\ ~token'[c].is_revoked
  BY DEF IInv, TypeOK, DataInv, FamiliesWellFormed, NewToken
<1>2. CurrentToken[c] = None
  BY <1>1, CurrentIsLive
<1>3. LiveTokens'[c] = {c}
  BY <1>1, LiveTokensAfter
<1>4. ASSUME NEW f \in Tokens, f # c PROVE LiveTokens'[f] = LiveTokens[f]
  <2>1. LiveTokens[f] = {t \in rows : ~token[t].is_revoked /\ token[t].family = f}
    BY DEF LiveTokens, Live
  <2> QED
    BY <1>1, <1>4, <2>1, LiveTokensAfter
<1>5. CurrentToken' = [CurrentToken EXCEPT ![c] = c]
  <2>1. \A f \in Tokens : CurrentToken'[f] = IF f = c THEN c ELSE CurrentToken[f]
    BY <1>3, <1>4, CurrentAfter
  <2> QED
    BY <2>1 DEF CurrentToken
<1>6. SpentTokens' = SpentTokens
  BY <1>1 DEF SpentTokens
<1>7. Families!Fresh(c)
  BY NotCurrent DEF Families!Fresh
<1> QED
  BY <1>2, <1>5, <1>6, <1>7 DEF Families!Open

\* A rotation replaces the current token of the family of the token presented.
LEMMA RotateReplaces ==
    ASSUME IInv, NEW c \in Tokens \ rows, NEW p \in rows, NEW u, ~token[p].is_revoked,
           rows' = rows \cup {c},
           token' = [Revoke({p}) EXCEPT ![c] = NewToken(u, token[p].family, p)]
    PROVE  Families!Rotate(token[p].family, c) /\ token[p].family \in Tokens
<1> DEFINE g == token[p].family
<1>1. /\ rows \subseteq Tokens /\ token \in [Tokens -> TokenRow] /\ g \in Tokens
      /\ Revoke({p}) \in [Tokens -> TokenRow]
  BY RevokeType DEF IInv, TypeOK, DataInv, FamiliesWellFormed
<1>2. \A x \in rows : token'[x] = Revoke({p})[x]
  BY <1>1
<1>3. \A x \in rows : /\ token'[x].family = token[x].family
                      /\ token'[x].is_revoked <=> (token[x].is_revoked \/ x = p)
  BY <1>1, <1>2, RevokeEffect
<1>4. token'[c].family = g /\ ~token'[c].is_revoked
  BY <1>1 DEF NewToken
<1>5. CurrentToken[g] = p /\ p # None
  BY <1>1, CurrentIsLive, NoneAssumption DEF Live
<1>6. \A x \in rows : token[x].family = g /\ ~token[x].is_revoked => x = p
  BY DEF IInv, DataInv, OneLiveTokenPerFamily, Live
<1> HIDE DEF g
<1>7. LiveTokens'[g] = {c}
  <2>1. g \in Tokens /\ rows' = rows \cup {c}
    BY <1>1
  <2>2. \A x \in rows : token'[x].family = g => token'[x].is_revoked
    BY <1>3, <1>6
  <2> QED
    BY <1>4, <2>1, <2>2, LiveTokensAfter
<1>8. ASSUME NEW f \in Tokens, f # g PROVE LiveTokens'[f] = LiveTokens[f]
  <2>1. LiveTokens[f] = {t \in rows : ~token[t].is_revoked /\ token[t].family = f}
    BY DEF LiveTokens, Live
  <2>2. token[p].family # f
    BY <1>8 DEF g
  <2>3. \A x \in rows : token'[x].family = f => (token'[x].is_revoked <=> token[x].is_revoked)
    BY <1>3, <2>2
  <2>4. \A x : x \in LiveTokens'[f] <=> x \in rows /\ ~token'[x].is_revoked /\ token'[x].family = f
    <3>1. LiveTokens'[f] = {t \in rows' : ~token'[t].is_revoked /\ token'[t].family = f}
      BY LiveTokensAfter
    <3>2. rows' = rows \cup {c} /\ token'[c].family # f
      BY <1>4, <1>8
    <3> QED
      BY <3>1, <3>2
  <2>5. \A x \in rows : x \in LiveTokens'[f] <=> x \in LiveTokens[f]
    BY <1>3, <2>1, <2>3, <2>4
  <2>6. LiveTokens'[f] \subseteq rows /\ LiveTokens[f] \subseteq rows
    BY <2>1, <2>4
  <2> QED
    BY <2>5, <2>6
<1>9. CurrentToken' = [CurrentToken EXCEPT ![g] = c]
  <2>1. \A f \in Tokens : CurrentToken'[f] = IF f = g THEN c ELSE CurrentToken[f]
    BY <1>7, <1>8, CurrentAfter
  <2> QED
    BY <2>1 DEF CurrentToken
<1>10. SpentTokens' = SpentTokens \cup {CurrentToken[g]}
  BY <1>3, <1>4, <1>5 DEF SpentTokens
<1>11. Families!Fresh(c)
  BY NotCurrent DEF Families!Fresh
<1>12. Families!Rotate(g, c)
  BY <1>5, <1>9, <1>10, <1>11 DEF Families!Rotate
<1> QED
  BY <1>1, <1>12 DEF g

\* What a commit does to the families.
LEMMA CommitOnFamilies ==
    ASSUME IInv, NEW w \in Workers, Commit(w)
    PROVE  [Families!Next]_<<CurrentToken, SpentTokens>>
<1>1. ASSUME NEW T \in SUBSET rows, rows' = rows, token' = Revoke(T)
      PROVE  Families!Next
  BY <1>1, RevokeCloses DEF Families!Next
<1>2. rows' = rows /\ token' = token => UNCHANGED <<CurrentToken, SpentTokens>>
  BY FamiliesUnchanged
<1>3. CASE Login(w)
  <2>1. \/ rows' = rows /\ token' = token
        \/ \E c \in Tokens \ rows : /\ rows' = rows \cup {c}
                                    /\ token' = [token EXCEPT ![c] = NewToken(txn[w].user, c, None)]
    BY <1>3 DEF Login
  <2> QED
    BY <1>2, <2>1, LoginOpens DEF Families!Next
<1>4. CASE Rotate(w)
  <2> DEFINE p == txn[w].token
  <2>1. p \in rows /\ ~token[p].is_revoked
    BY <1>4 DEF Rotate, Working, IInv, TxnInv, TxnWellFormed, ReadsCurrent, TokenOps
  <2>2. PICK c \in Tokens \ rows :
          /\ rows' = rows \cup {c}
          /\ token' = [Revoke({p}) EXCEPT ![c] = NewToken(token[p].user, token[p].family, p)]
    BY <1>4 DEF Rotate
  <2> HIDE DEF p
  <2> QED
    BY <2>1, <2>2, RotateReplaces DEF Families!Next
<1>5. CASE RotateExpired(w) \/ Logout(w)
  <2>1. txn[w].token \in rows
    BY <1>5 DEF RotateExpired, Logout, Working, IInv, TxnInv, TxnWellFormed, TokenOps
  <2> QED
    BY <1>1, <1>2, <1>5, <2>1 DEF RotateExpired, Logout
<1>6. CASE ReuseDetected(w) \/ Suspend(w) \/ Deactivate(w)
  <2>1. txn[w].hit \in SUBSET rows
    BY <1>6, UpdateHits DEF ReuseDetected, Suspend, Deactivate
  <2> QED
    BY <1>1, <1>6, <2>1 DEF ReuseDetected, Suspend, Deactivate
<1>7. CASE FailedLogin(w) \/ SetStatusRejected(w) \/ Activate(w)
  BY <1>2, <1>7 DEF FailedLogin, SetStatusRejected, Activate
<1> QED
  BY <1>3, <1>4, <1>5, <1>6, <1>7 DEF Commit

LEMMA NextOnFamilies ==
    ASSUME IInv, [Next]_vars
    PROVE  [Families!Next]_<<CurrentToken, SpentTokens>>
<1>1. rows' = rows /\ token' = token => UNCHANGED <<CurrentToken, SpentTokens>>
  BY FamiliesUnchanged
<1>2. ASSUME NEW w \in Workers, NEW op, NEW u, BeginForUser(w, op, u)
      PROVE  rows' = rows /\ token' = token
  BY <1>2 DEF BeginForUser
<1>3. ASSUME NEW w \in Workers, NEW op, NEW t, BeginForToken(w, op, t)
      PROVE  rows' = rows /\ token' = token
  BY <1>3 DEF BeginForToken
<1>4. ASSUME NEW w \in Workers, LockToken(w) \/ LockUser(w) \/ UpdateRow(w)
      PROVE  rows' = rows /\ token' = token
  BY <1>4 DEF LockToken, LockUser, UpdateRow
<1>5. ASSUME NEW w \in Workers, StartRevokeFamily(w) \/ StartRevokeAll(w)
      PROVE  rows' = rows /\ token' = token
  BY <1>5 DEF StartRevokeFamily, StartRevokeAll, StartUpdate
<1>6. ASSUME NEW w \in Workers, Victim(w) \/ Fail(w)
      PROVE  rows' = rows /\ token' = token
  BY <1>6 DEF Victim, Fail
<1>7. CASE Tick
  <2>1. TypeOK /\ rows \subseteq Tokens
    BY DEF IInv, TypeOK
  <2> QED
    BY <1>7, <2>1, TickEffect, FamiliesUnchanged
<1>8. CASE UNCHANGED vars
  BY <1>1, <1>8 DEF vars
<1> QED
  BY <1>1, <1>2, <1>3, <1>4, <1>5, <1>6, <1>7, <1>8, CommitOnFamilies DEF Next, Step

LEMMA InitOnFamilies == Init => Families!Init
<1> SUFFICES ASSUME Init PROVE Families!Init
  OBVIOUS
<1>1. ASSUME NEW f \in Tokens PROVE CurrentToken[f] = None
  <2>1. LiveTokens[f] = {}
    BY DEF Init, LiveTokens
  <2> QED
    BY <2>1, OneOfSet DEF CurrentToken
<1>2. CurrentToken = [f \in Tokens |-> None]
  BY <1>1 DEF CurrentToken
<1>3. SpentTokens = {}
  BY DEF Init, SpentTokens
<1> QED
  BY <1>2, <1>3 DEF Families!Init

\* The sessions keep every promise of TokenFamilies: whatever requests run
\* concurrently, a family's tokens follow one another and a closed family and
\* a spent token never come back.
THEOREM Refinement == Spec => ImplementsFamilies
<1>1. IInv /\ [Next]_vars => [Families!Next]_<<CurrentToken, SpentTokens>>
  BY NextOnFamilies
<1> QED
  BY <1>1, InitOnFamilies, Invariance, PTL
     DEF Spec, ImplementsFamilies, Families!Spec, Families!familyVars

\* No step of TokenFamilies opens a family named after a row that is there.
LEMMA ClosedStaysClosed ==
    ASSUME IInv, [Families!Next]_<<CurrentToken, SpentTokens>>, NEW f \in rows, CurrentToken[f] = None
    PROVE  CurrentToken'[f] = None
<1>1. f \in Tokens /\ token[f].family \in Tokens
  BY DEF IInv, TypeOK, DataInv, FamiliesWellFormed
<1>2. ~Families!Fresh(f)
  <2>1. CASE token[f].is_revoked
    BY <2>1 DEF SpentTokens, Families!Fresh
  <2>2. CASE ~token[f].is_revoked
    <3>1. CurrentToken[token[f].family] = f
      BY <1>1, <2>2, CurrentIsLive DEF Live
    <3> QED
      BY <1>1, <3>1 DEF Families!Fresh
  <2> QED
    BY <2>1, <2>2
<1>3. CurrentToken = [g \in Tokens |-> CurrentToken[g]]
  BY DEF CurrentToken
<1>4. ASSUME NEW g \in Tokens, Families!Open(g) PROVE CurrentToken'[f] = None
  <2>1. g # f
    BY <1>2, <1>4 DEF Families!Open
  <2> QED
    BY <1>1, <1>3, <1>4, <2>1 DEF Families!Open
<1>5. ASSUME NEW g \in Tokens, NEW t, Families!Rotate(g, t) PROVE CurrentToken'[f] = None
  BY <1>1, <1>3, <1>5 DEF Families!Rotate
<1>6. ASSUME NEW F, Families!Close(F) PROVE CurrentToken'[f] = None
  BY <1>1, <1>6 DEF Families!Close
<1> QED
  BY <1>4, <1>5, <1>6 DEF Families!Next

\* A session that has ended stays ended, whatever requests were under way: no
\* family without a live token ever gets one again.  It follows from the promises
\* of TokenFamilies.
THEOREM EndedSessions == Spec => SessionsStayEnded
<1> DEFINE Ended(f) == \A t \in rows : token[t].family = f => ~Live(t)
           Shut(f) == \A t \in rows' : token'[t].family = f => token'[t].is_revoked
           StaysEnded == \A f \in rows : Ended(f) => Shut(f)
<1>1. IInv /\ IInv' /\ [Next]_vars => StaysEnded
  <2> SUFFICES ASSUME IInv, IInv', [Next]_vars, NEW f \in rows, Ended(f)
               PROVE  Shut(f)
    OBVIOUS
  <2>1. f \in Tokens
    BY DEF IInv, TypeOK
  <2>2. CurrentToken[f] = None
    BY <2>1, CurrentIsLive
  <2>3. CurrentToken'[f] = None
    BY <2>2, NextOnFamilies, ClosedStaysClosed
  <2>4. CurrentToken'[f] = OneOf(LiveTokens'[f])
    BY <2>1 DEF CurrentToken
  <2>5. ASSUME NEW t \in rows', token'[t].family = f, ~token'[t].is_revoked PROVE FALSE
    <3>1. t \in LiveTokens'[f]
      BY <2>1, <2>5, LiveTokensAfter
    <3>2. CurrentToken'[f] \in LiveTokens'[f]
      BY <2>4, <3>1, OneOfSet
    <3>3. None \in rows'
      BY <2>1, <2>3, <3>2, LiveTokensAfter
    <3> QED
      BY <3>3, NoneAssumption DEF IInv, TypeOK
  <2> QED
    BY <2>5
<1>2. IInv /\ IInv' /\ [Next]_vars => [StaysEnded]_vars
  BY <1>1
<1> QED
  BY <1>2, Invariance, PTL DEF Spec, SessionsStayEnded
=============================================================================
