------------------------------- MODULE Signup -------------------------------
(***************************************************************************)
(* Self-service registration behind a one-time code:                       *)
(* authentication/services/registration.py, the checks of SignupSerializer *)
(* and the insert of UserRepository.create_with_password_hash.             *)
(*                                                                         *)
(* Nothing is locked here.  A pending registration is one cache entry per  *)
(* e-mail address, and each cache or database command is atomic, but a     *)
(* request runs several: it reads the entry, decides on its own copy and   *)
(* stores or deletes the entry by key.  The actions below are those        *)
(* commands, so every interleaving of the requests is a behaviour.         *)
(*                                                                         *)
(* A one-time code is a model value.  Codes are drawn fresh, i.e. two      *)
(* six-digit codes are taken to differ.  Times are what remains of them,   *)
(* in ticks, for the copies the requests hold as well.                     *)
(***************************************************************************)
EXTENDS Integers, FiniteSets

CONSTANTS
    Emails,       \* normalised addresses
    Usernames,
    Codes,        \* codes that may ever be drawn (a bound)
    Workers,      \* requests served at the same time (a bound)
    None,
    MaxAttempts,  \* AUTH_SIGNUP_OTP_MAX_ATTEMPTS
    MaxResends,   \* AUTH_SIGNUP_OTP_MAX_RESENDS
    TTL,          \* AUTH_SIGNUP_OTP_TTL, in ticks
    MinTimeout,   \* the second an entry is stored for at least, in ticks
    Cooldown      \* AUTH_SIGNUP_OTP_RESEND_COOLDOWN, in ticks

ASSUME SignupAssumption ==
    /\ MaxAttempts \in Nat \ {0}
    /\ MaxResends \in Nat
    /\ TTL \in Nat \ {0}
    /\ MinTimeout \in 1..TTL
    /\ Cooldown \in Nat
    /\ None \notin Emails \cup Codes \cup Usernames

VARIABLES
    cache,    \* the cache entry of each address, None when there is none
    account,  \* the e-mail address of each username's account, None when there is none
    mailed,   \* the messages delivered: <<address, code, username>>
    issued,   \* the codes drawn so far
    latest,   \* the code of the registration stored last under each address
    req       \* each worker's request

vars == <<cache, account, mailed, issued, latest, req>>

-----------------------------------------------------------------------------
(***************************************************************************)
(* A pending registration.  `first' is the code it was started with, which *)
(* names the registration: a resend changes `code' only.                   *)
(***************************************************************************)
Record == [username : Usernames, first : Codes, code : Codes, attempts : Nat,
           resend_count : Nat, cooldown : 0..Cooldown, expires_in : 0..TTL]

Entry == [rec : Record, timeout : 1..TTL]

NoRequest == [pc |-> "idle", op |-> None, email |-> None, otp |-> None, rec |-> None]

Request == [pc : {"store", "deliver", "persist", "delete"},
            op : {"start", "verify", "resend"}, email : Emails,
            otp : Codes \cup {None},    \* the code presented; None for one never mailed
            rec : Record] \cup {NoRequest}

Init ==
    /\ cache = [e \in Emails |-> None]
    /\ account = [u \in Usernames |-> None]
    /\ mailed = {}
    /\ issued = {}
    /\ latest = [e \in Emails |-> None]
    /\ req = [w \in Workers |-> NoRequest]

-----------------------------------------------------------------------------
Pending(e) == cache[e] # None

NewRecord(u, c) == [username |-> u, first |-> c, code |-> c, attempts |-> 0,
                    resend_count |-> 0, cooldown |-> Cooldown, expires_in |-> TTL]

Reissued(r, c) == [NewRecord(r.username, c) EXCEPT !.first = r.first,
                                                   !.resend_count = r.resend_count + 1]

Goto(w, pc) == req' = [req EXCEPT ![w].pc = pc]
Finish(w)   == req' = [req EXCEPT ![w] = NoRequest]

Serve(w, pc, op, e, otp, r) ==
    /\ req[w] = NoRequest
    /\ req' = [req EXCEPT ![w] = [pc |-> pc, op |-> op, email |-> e, otp |-> otp, rec |-> r]]

-----------------------------------------------------------------------------
\* start: the serializer finds username and address unused; the password is
\* hashed before the entry is stored.  (Accounts are never deleted here, so the
\* two checks may be read at one moment, that of the first.)
Start(w, e, u, c) ==
    /\ account[u] = None
    /\ \A v \in Usernames : account[v] # e
    /\ c \notin issued
    /\ issued' = issued \cup {c}
    /\ Serve(w, "store", "start", e, None, NewRecord(u, c))
    /\ UNCHANGED <<cache, account, mailed, latest>>

\* Mutation: the limit is compared with > instead of >=.
VerifyOnceMore(w, e, otp) ==
    /\ Pending(e)
    /\ LET r       == cache[e].rec
           counted == [r EXCEPT !.attempts = IF otp = r.code THEN @ ELSE @ + 1]
           next    == IF otp = r.code THEN "persist"
                      ELSE IF counted.attempts <= MaxAttempts THEN "store" ELSE "delete"
       IN  Serve(w, next, "verify", e, otp, counted)
    /\ UNCHANGED <<cache, account, mailed, issued, latest>>

\* Mutation: a wrong code is not counted; the copy is only stored again.
VerifyUncounted(w, e, otp) ==
    /\ Pending(e)
    /\ Serve(w, IF otp = cache[e].rec.code THEN "persist" ELSE "store",
             "verify", e, otp, cache[e].rec)
    /\ UNCHANGED <<cache, account, mailed, issued, latest>>

\* verify, first command: the entry is read.  A wrong code is counted on the
\* copy; at the limit the entry will be deleted, below it stored again.
Verify(w, e, otp) ==
    /\ Pending(e)
    /\ LET r       == cache[e].rec
           right   == r.attempts < MaxAttempts /\ otp = r.code
           counted == [r EXCEPT !.attempts = IF otp = r.code THEN @ ELSE @ + 1]
           next    == IF right THEN "persist"
                      ELSE IF counted.attempts < MaxAttempts THEN "store" ELSE "delete"
       IN  Serve(w, next, "verify", e, otp, counted)
    /\ UNCHANGED <<cache, account, mailed, issued, latest>>

\* resend, first command.
Resend(w, e, c) ==
    /\ Pending(e)
    /\ cache[e].rec.cooldown = 0
    /\ cache[e].rec.resend_count < MaxResends
    /\ c \notin issued
    /\ issued' = issued \cup {c}
    /\ Serve(w, "store", "resend", e, None, Reissued(cache[e].rec, c))
    /\ UNCHANGED <<cache, account, mailed, latest>>

\* Mutation: the timeout is not clamped to at least one second.
StoreUnclamped(w) ==
    /\ req[w].pc = "store"
    /\ cache' = [cache EXCEPT ![req[w].email] =
                    [rec |-> req[w].rec, timeout |-> req[w].rec.expires_in]]
    /\ latest' = IF req[w].op = "start"
                 THEN [latest EXCEPT ![req[w].email] = req[w].rec.first] ELSE latest
    /\ IF req[w].op = "verify" THEN Finish(w) ELSE Goto(w, "deliver")
    /\ UNCHANGED <<account, mailed, issued>>

\* _store.  start and resend count the timeout from the moment they began,
\* verify from now; it is never below one second.
Store(w) ==
    /\ req[w].pc = "store"
    /\ LET e    == req[w].email
           left == IF req[w].op = "verify" THEN req[w].rec.expires_in ELSE TTL
       IN  /\ cache' = [cache EXCEPT ![e] =
                          [rec |-> req[w].rec,
                           timeout |-> IF left < MinTimeout THEN MinTimeout ELSE left]]
           /\ latest' = IF req[w].op = "start"
                        THEN [latest EXCEPT ![e] = req[w].rec.first] ELSE latest
    /\ IF req[w].op = "verify" THEN Finish(w) ELSE Goto(w, "deliver")
    /\ UNCHANGED <<account, mailed, issued>>

Deliver(w) ==
    /\ req[w].pc = "deliver"
    /\ mailed' = mailed \cup {<<req[w].email, req[w].rec.code, req[w].rec.username>>}
    /\ Finish(w)
    /\ UNCHANGED <<cache, account, issued, latest>>

\* Mutation: the entry is read again, so that the latest data is inserted.
PersistRereading(w) ==
    /\ req[w].pc = "persist"
    /\ LET e == req[w].email
           u == IF Pending(e) THEN cache[e].rec.username ELSE req[w].rec.username
       IN  account[u] = None /\ account' = [account EXCEPT ![u] = e]
    /\ Goto(w, "delete")
    /\ UNCHANGED <<cache, mailed, issued, latest>>

\* _persist; the unique username is the database's.  In both cases the entry is
\* deleted next.
Persist(w) ==
    /\ req[w].pc = "persist"
    /\ account[req[w].rec.username] = None
    /\ account' = [account EXCEPT ![req[w].rec.username] = req[w].email]
    /\ Goto(w, "delete")
    /\ UNCHANGED <<cache, mailed, issued, latest>>

UsernameTaken(w) ==
    /\ req[w].pc = "persist"
    /\ account[req[w].rec.username] # None
    /\ Goto(w, "delete")
    /\ UNCHANGED <<cache, account, mailed, issued, latest>>

Delete(w) ==
    /\ req[w].pc = "delete"
    /\ cache' = [cache EXCEPT ![req[w].email] = None]
    /\ Finish(w)
    /\ UNCHANGED <<account, mailed, issued, latest>>

\* The mail server refuses the message (fail_silently=False), or the process is
\* killed: the commands already run stay.
Fail(w) ==
    /\ req[w] # NoRequest
    /\ Finish(w)
    /\ UNCHANGED <<cache, account, mailed, issued, latest>>

-----------------------------------------------------------------------------
Less(n) == IF n = 0 THEN 0 ELSE n - 1
Older(r) == [r EXCEPT !.cooldown = Less(r.cooldown), !.expires_in = Less(r.expires_in)]

Tick ==
    /\ cache' = [e \in Emails |->
                   IF ~Pending(e) \/ cache[e].timeout = 1 THEN None
                   ELSE [rec |-> Older(cache[e].rec), timeout |-> cache[e].timeout - 1]]
    /\ req' = [w \in Workers |-> IF req[w] = NoRequest THEN NoRequest
                                 ELSE [req[w] EXCEPT !.rec = Older(@)]]
    /\ UNCHANGED <<account, mailed, issued, latest>>

\* Clients present a code that was mailed to them, or a wrong one.
Presented(e) == {m[2] : m \in {n \in mailed : n[1] = e}} \cup {None}

Step(w) == Store(w) \/ Deliver(w) \/ Persist(w) \/ UsernameTaken(w) \/ Delete(w)

Next ==
    \/ Tick
    \/ \E w \in Workers :
          \/ Step(w) \/ Fail(w)
          \/ \E e \in Emails :
                \/ \E u \in Usernames, c \in Codes : Start(w, e, u, c)
                \/ \E otp \in Presented(e) : Verify(w, e, otp)
                \/ \E c \in Codes : Resend(w, e, c)

Spec == Init /\ [][Next]_vars

\* Requests run to their end and time passes.  Nobody has to send a request.
FairSpec == Spec /\ WF_vars(Tick) /\ \A w \in Workers : WF_vars(Step(w))

-----------------------------------------------------------------------------
(***************************************************************************)
(* Properties                                                              *)
(***************************************************************************)

\* Every variable keeps its type: cache entries and held copies are records of
\* the cache schema, an account row has an address.
TypeOK ==
    /\ cache \in [Emails -> Entry \cup {None}]
    /\ account \in [Usernames -> Emails \cup {None}]
    /\ mailed \subseteq Emails \X Codes \X Usernames
    /\ issued \subseteq Codes
    /\ latest \in [Emails -> Codes \cup {None}]
    /\ req \in [Workers -> Request]

\* The limits of an entry hold under every interleaving: no stored registration
\* has used up its attempts (so verify's first test, lines 113-115, never
\* fires) and none has been resent more often than the setting allows.
LimitsHold ==
    \A e \in Emails :
        Pending(e) => /\ cache[e].rec.attempts < MaxAttempts
                      /\ cache[e].rec.resend_count <= MaxResends

\* Who a code was drawn for: every message, entry and copy that carries a code
\* carries the same address and username with it.
Identity(e, r) == <<e, r.code, r.username>>
Carried ==
    mailed \cup {Identity(e, cache[e].rec) : e \in {f \in Emails : Pending(f)}}
           \cup {Identity(req[w].email, req[w].rec) : w \in {x \in Workers : req[x] # NoRequest}}

CodesIdentify ==
    /\ \A m \in Carried : m[2] \in issued
    /\ \A m, n \in Carried : m[2] = n[2] => m = n

\* What a request holds between two commands: a copy it will store is within the
\* limits, a copy it will insert is the one its code was mailed for.
HeldCopies ==
    \A w \in Workers :
        /\ req[w].pc = "store" => /\ req[w].rec.attempts < MaxAttempts
                                 /\ req[w].rec.resend_count <= MaxResends
        /\ req[w].pc = "persist" => /\ req[w].otp = req[w].rec.code
                                   /\ Identity(req[w].email, req[w].rec) \in mailed

\* The inductive invariant of Signup_proofs: the limits and the code an account
\* needs follow from what the copies under way may hold.
IInv == TypeOK /\ LimitsHold /\ CodesIdentify /\ HeldCopies

\* An account is created only by a request that presented a code mailed to the
\* account's address for the account's username, whatever other registrations
\* of the address came and went between the read of the entry and the insert.
AccountNeedsItsCode ==
    [][\A u \in Usernames :
          account[u] = None /\ account'[u] # None =>
              \E w \in Workers : /\ req[w].pc = "persist"
                                 /\ <<account'[u], req[w].otp, u>> \in mailed]_vars

\* start's promise: an earlier pending registration of the address is replaced;
\* it does not come back.
ReplacedStaysReplaced ==
    \A e \in Emails : Pending(e) => cache[e].rec.first = latest[e]

\* UserRepository.find_for_update_by_email's premise: e-mail uniqueness is
\* enforced when accounts are created.
OneAccountPerEmail ==
    \A u, v \in Usernames : account[u] = account[v] /\ account[u] # None => u = v

\* A registration does not stay pending for ever, however often answers to wrong
\* codes store its entry again: _store gives even an entry past its deadline one
\* more second, and what stops that is the count of attempts.
PendingEnds ==
    \A e \in Emails, c \in Codes :
        Pending(e) /\ cache[e].rec.first = c ~> ~(Pending(e) /\ cache[e].rec.first = c)

=============================================================================
