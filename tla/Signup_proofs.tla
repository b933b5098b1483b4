---------------------------- MODULE Signup_proofs ----------------------------
(***************************************************************************)
(* Proofs about Signup, for every set of addresses, usernames, codes and   *)
(* concurrent requests and all settings.                                   *)
(***************************************************************************)
EXTENDS Signup, TLAPS

USE SignupAssumption

-----------------------------------------------------------------------------
(* The records *)

\* The records the code builds are records of the schema.
LEMMA RecordTypes ==
    /\ \A u \in Usernames, c \in Codes : NewRecord(u, c) \in Record
    /\ \A r \in Record, c \in Codes : Reissued(r, c) \in Record
    /\ \A r \in Record : Older(r) \in Record
    /\ \A r \in Record, n \in Nat : [r EXCEPT !.attempts = n] \in Record
<1>1. \A u \in Usernames, c \in Codes : NewRecord(u, c) \in Record
  BY DEF NewRecord, Record
<1>2. \A r \in Record, c \in Codes : Reissued(r, c) \in Record
  <2> SUFFICES ASSUME NEW r \in Record, NEW c \in Codes  PROVE Reissued(r, c) \in Record
    OBVIOUS
  <2>1. r.resend_count + 1 \in Nat /\ r.username \in Usernames /\ r.first \in Codes
    BY DEF Record
  <2>2. \A x \in Record, f \in Codes, n \in Nat :
           [x EXCEPT !.first = f, !.resend_count = n] \in Record
    BY DEF Record
  <2>3. NewRecord(r.username, c) \in Record
    BY <1>1, <2>1
  <2> QED
    BY <2>1, <2>2, <2>3 DEF Reissued
<1>3. \A r \in Record : Older(r) \in Record
  <2> SUFFICES ASSUME NEW r \in Record  PROVE Older(r) \in Record
    OBVIOUS
  <2>1. r.cooldown \in 0..Cooldown /\ r.expires_in \in 0..TTL
    BY DEF Record
  <2>2. Less(r.cooldown) \in 0..Cooldown /\ Less(r.expires_in) \in 0..TTL
    BY <2>1 DEF Less
  <2> QED
    BY <2>2 DEF Older, Record
<1>4. \A r \in Record, n \in Nat : [r EXCEPT !.attempts = n] \in Record
  BY DEF Record
<1> QED
  BY <1>1, <1>2, <1>3, <1>4

\* Time changes neither what a record is for nor its counters.
LEMMA OlderKeeps ==
    ASSUME NEW r \in Record, NEW e
    PROVE  /\ Identity(e, Older(r)) = Identity(e, r)
           /\ Older(r).attempts = r.attempts
           /\ Older(r).resend_count = r.resend_count
BY DEF Identity, Older, Record

\* A worker is idle or serves a request, and then its fields are of their types.
LEMMA Serving ==
    ASSUME TypeOK, NEW w \in Workers, req[w] # NoRequest
    PROVE  /\ req[w] \in [pc : {"store", "deliver", "persist", "delete"},
                          op : {"start", "verify", "resend"}, email : Emails,
                          otp : Codes \cup {None}, rec : Record]
           /\ req[w].email \in Emails
           /\ req[w].otp \in Codes \cup {None}
           /\ req[w].rec \in Record
BY DEF TypeOK, Request

LEMMA Busy ==
    ASSUME NEW w \in Workers, req[w].pc \in {"store", "deliver", "persist", "delete"}
    PROVE  req[w] # NoRequest
BY DEF NoRequest

\* A pending registration's record.
LEMMA PendingRecord ==
    ASSUME TypeOK, NEW e \in Emails, Pending(e)
    PROVE  cache[e] \in Entry /\ cache[e].rec \in Record
BY DEF TypeOK, Pending, Entry

-----------------------------------------------------------------------------
(* Who carries a code *)

\* Carried, member by member.
LEMMA Carriers ==
    /\ \A m \in mailed : m \in Carried
    /\ \A e \in Emails : Pending(e) => Identity(e, cache[e].rec) \in Carried
    /\ \A w \in Workers : req[w] # NoRequest => Identity(req[w].email, req[w].rec) \in Carried
BY DEF Carried

LEMMA CarriedWithin ==
    ASSUME NEW C,
           \A m \in mailed' : m \in C,
           \A e \in Emails : Pending(e)' => Identity(e, cache'[e].rec) \in C,
           \A w \in Workers : req'[w] # NoRequest => Identity(req'[w].email, req'[w].rec) \in C
    PROVE  Carried' \subseteq C
BY DEF Carried, Pending, Identity

\* A step that only passes codes on keeps every code with its address and username.
LEMMA PassedOn ==
    ASSUME CodesIdentify, Carried' \subseteq Carried, issued' = issued
    PROVE  CodesIdentify'
BY DEF CodesIdentify

\* So does one that draws a new code for one address and username.
LEMMA FreshCode ==
    ASSUME CodesIdentify, NEW c, c \notin issued, issued' = issued \cup {c},
           NEW m, m[2] = c, Carried' \subseteq Carried \cup {m}
    PROVE  CodesIdentify'
<1>1. \A n \in Carried' : n = m \/ n \in Carried
  OBVIOUS
<1>2. \A n \in Carried : n[2] # c
  BY DEF CodesIdentify
<1>3. \A n \in Carried' : n[2] \in issued'
  BY <1>1 DEF CodesIdentify
<1>4. ASSUME NEW n \in Carried', NEW k \in Carried', n[2] = k[2]
      PROVE  n = k
  BY <1>1, <1>2, <1>4 DEF CodesIdentify
<1> QED
  BY <1>3, <1>4 DEF CodesIdentify

-----------------------------------------------------------------------------
(* A request's steps *)

\* Only w's request changes, and what it holds afterwards is as HeldCopies says.
LEMMA HeldFrame ==
    ASSUME HeldCopies, mailed \subseteq mailed', NEW w \in Workers,
           \A v \in Workers \ {w} : req'[v] = req[v],
           req'[w].pc = "store" => /\ req'[w].rec.attempts < MaxAttempts
                                   /\ req'[w].rec.resend_count <= MaxResends,
           req'[w].pc = "persist" => /\ req'[w].otp = req'[w].rec.code
                                     /\ Identity(req'[w].email, req'[w].rec) \in mailed'
    PROVE  HeldCopies'
BY DEF HeldCopies, Identity

\* A request begins with a copy of its own.
LEMMA ServeInv ==
    ASSUME IInv, NEW w \in Workers, NEW e \in Emails, NEW r \in Record,
           NEW pc \in {"store", "deliver", "persist", "delete"},
           NEW op \in {"start", "verify", "resend"}, NEW otp \in Codes \cup {None},
           Serve(w, pc, op, e, otp, r),
           UNCHANGED <<cache, account, mailed, latest>>,
           issued' \subseteq Codes,
           Carried' \subseteq Carried \cup {Identity(e, r)} => CodesIdentify',
           pc = "store" => r.attempts < MaxAttempts /\ r.resend_count <= MaxResends,
           pc = "persist" => otp = r.code /\ Identity(e, r) \in mailed
    PROVE  IInv'
<1> DEFINE new == [pc |-> pc, op |-> op, email |-> e, otp |-> otp, rec |-> r]
<1>1. /\ TypeOK /\ LimitsHold /\ CodesIdentify /\ HeldCopies
      /\ req' = [req EXCEPT ![w] = new]
  BY DEF IInv, Serve
<1>2. new \in Request
  BY DEF Request
<1>3. req'[w] = new /\ \A v \in Workers \ {w} : req'[v] = req[v]
  BY <1>1 DEF TypeOK
<1>4. TypeOK'
  BY <1>1, <1>2 DEF TypeOK
<1>5. LimitsHold'
  BY <1>1 DEF LimitsHold, Pending
<1>6. CodesIdentify'
  <2>1. \A m \in mailed' : m \in Carried
    BY Carriers
  <2>2. \A f \in Emails : Pending(f)' => Identity(f, cache'[f].rec) \in Carried
    BY Carriers DEF Pending
  <2>3. \A v \in Workers : req'[v] # NoRequest =>
           Identity(req'[v].email, req'[v].rec) \in Carried \cup {Identity(e, r)}
    BY <1>3, Carriers
  <2> QED
    BY <2>1, <2>2, <2>3, CarriedWithin
<1>7. HeldCopies'
  BY <1>1, <1>3, HeldFrame
<1> QED
  BY <1>4, <1>5, <1>6, <1>7 DEF IInv

LEMMA StartInv ==
    ASSUME IInv, NEW w \in Workers, NEW e \in Emails, NEW u \in Usernames, NEW c \in Codes,
           Start(w, e, u, c)
    PROVE  IInv'
<1>1. NewRecord(u, c) \in Record /\ Identity(e, NewRecord(u, c))[2] = c
  BY RecordTypes DEF Identity, NewRecord
<1>2. NewRecord(u, c).attempts < MaxAttempts /\ NewRecord(u, c).resend_count <= MaxResends
  BY DEF NewRecord
<1>3. issued' \subseteq Codes
  BY DEF Start, IInv, TypeOK
<1>4. ASSUME Carried' \subseteq Carried \cup {Identity(e, NewRecord(u, c))}
      PROVE  CodesIdentify'
  BY <1>1, <1>4, FreshCode DEF Start, IInv
<1> QED
  BY <1>1, <1>2, <1>3, <1>4, ServeInv DEF Start

LEMMA ResendInv ==
    ASSUME IInv, NEW w \in Workers, NEW e \in Emails, NEW c \in Codes, Resend(w, e, c)
    PROVE  IInv'
<1> DEFINE r == Reissued(cache[e].rec, c)
<1>1. cache[e].rec \in Record
  BY PendingRecord DEF Resend, IInv
<1>2. r \in Record
  BY <1>1, RecordTypes
<1>3. /\ Identity(e, r)[2] = c
      /\ r.attempts = 0
      /\ r.resend_count = cache[e].rec.resend_count + 1
  BY DEF Identity, Reissued, NewRecord
<1>4. r.attempts < MaxAttempts /\ r.resend_count <= MaxResends
  BY <1>1, <1>3 DEF Resend, Record
<1>5. issued' \subseteq Codes
  BY DEF Resend, IInv, TypeOK
<1>6. ASSUME Carried' \subseteq Carried \cup {Identity(e, r)}
      PROVE  CodesIdentify'
  BY <1>3, <1>6, FreshCode DEF Resend, IInv
<1> QED
  BY <1>2, <1>4, <1>5, <1>6, ServeInv DEF Resend

LEMMA VerifyInv ==
    ASSUME IInv, NEW w \in Workers, NEW e \in Emails, NEW otp \in Presented(e),
           Verify(w, e, otp)
    PROVE  IInv'
<1> DEFINE r       == cache[e].rec
           right   == r.attempts < MaxAttempts /\ otp = r.code
           counted == [r EXCEPT !.attempts = IF otp = r.code THEN @ ELSE @ + 1]
           next    == IF right THEN "persist"
                      ELSE IF counted.attempts < MaxAttempts THEN "store" ELSE "delete"
<1>1. /\ Pending(e)
      /\ Serve(w, next, "verify", e, otp, counted)
      /\ UNCHANGED <<cache, account, mailed, issued, latest>>
  BY DEF Verify
<1>2. r \in Record /\ r.attempts \in Nat
  BY <1>1, PendingRecord DEF IInv, Record
<1>3. counted \in Record
  BY <1>2 DEF Record
<1>4. /\ counted.code = r.code /\ counted.username = r.username
      /\ counted.resend_count = r.resend_count
  BY <1>2 DEF Record
<1>5. Identity(e, counted) = Identity(e, r) /\ Identity(e, counted) \in Carried
  BY <1>1, <1>4, Carriers DEF Identity
<1>6. otp \in Codes \cup {None}
  BY DEF Presented, IInv, TypeOK
<1>7. next = "store" => counted.attempts < MaxAttempts /\ counted.resend_count <= MaxResends
  BY <1>1, <1>4 DEF IInv, LimitsHold
<1>8. ASSUME next = "persist"
      PROVE  otp = counted.code /\ Identity(e, counted) \in mailed
  <2>1. otp = r.code /\ otp \in Codes
    BY <1>2, <1>8 DEF Record
  <2>2. PICK m \in mailed : m[2] = otp
    BY <2>1 DEF Presented
  <2>3. m \in Carried /\ Identity(e, r)[2] = m[2]
    BY <2>1, <2>2, Carriers DEF Identity
  <2>4. m = Identity(e, r)
    BY <2>3, <1>5 DEF IInv, CodesIdentify
  <2> QED
    BY <1>4, <1>5, <2>1, <2>4
<1>9. issued' \subseteq Codes
  BY <1>1 DEF IInv, TypeOK
<1>10. ASSUME Carried' \subseteq Carried \cup {Identity(e, counted)}
       PROVE  CodesIdentify'
  BY <1>1, <1>5, <1>10, PassedOn DEF IInv
<1>11. next \in {"store", "deliver", "persist", "delete"}
  OBVIOUS
<1> HIDE DEF next, counted
<1> QED
  BY <1>1, <1>3, <1>6, <1>7, <1>8, <1>9, <1>10, <1>11, ServeInv

\* A request that is served goes on to another command, or ends.
Advance(w) ==
    \/ Finish(w)
    \/ \E pc \in {"deliver", "persist", "delete"} :
          /\ req[w] # NoRequest
          /\ Goto(w, pc)
          /\ pc # "persist"

\* An advancing request carries what it carried, or nothing any more.
LEMMA AdvanceReq ==
    ASSUME TypeOK, HeldCopies, NEW w \in Workers, Advance(w), mailed \subseteq mailed'
    PROVE  /\ req' \in [Workers -> Request]
           /\ \A v \in Workers : req'[v] # NoRequest =>
                 /\ req[v] # NoRequest
                 /\ Identity(req'[v].email, req'[v].rec) = Identity(req[v].email, req[v].rec)
           /\ HeldCopies'
<1>1. CASE Finish(w)
  <2>1. req' = [req EXCEPT ![w] = NoRequest]
    BY <1>1 DEF Finish
  <2>2. req'[w] = NoRequest /\ \A v \in Workers \ {w} : req'[v] = req[v]
    BY <2>1 DEF TypeOK
  <2>3. req' \in [Workers -> Request]
    BY <2>1 DEF TypeOK, Request
  <2>4. NoRequest.pc = "idle"
    BY DEF NoRequest
  <2>5. HeldCopies'
    BY <2>2, <2>4, HeldFrame
  <2> QED
    BY <2>2, <2>3, <2>5
<1>2. ASSUME NEW pc \in {"deliver", "delete"}, req[w] # NoRequest, Goto(w, pc)
      PROVE  /\ req' \in [Workers -> Request]
             /\ \A v \in Workers : req'[v] # NoRequest =>
                   /\ req[v] # NoRequest
                   /\ Identity(req'[v].email, req'[v].rec) = Identity(req[v].email, req[v].rec)
             /\ HeldCopies'
  <2>1. req' = [req EXCEPT ![w] = [req[w] EXCEPT !.pc = pc]]
    BY <1>2 DEF Goto, TypeOK
  <2>2. /\ req'[w] = [req[w] EXCEPT !.pc = pc]
        /\ \A v \in Workers \ {w} : req'[v] = req[v]
    BY <2>1 DEF TypeOK
  <2>3. [req[w] EXCEPT !.pc = pc] \in Request
    BY <1>2, Serving DEF Request
  <2>4. /\ req'[w].pc = pc
        /\ req'[w].email = req[w].email /\ req'[w].rec = req[w].rec
    BY <1>2, <2>2, Serving
  <2>5. HeldCopies'
    BY <2>2, <2>4, HeldFrame
  <2>6. req' \in [Workers -> Request]
    BY <2>1, <2>3 DEF TypeOK
  <2> QED
    BY <1>2, <2>2, <2>4, <2>5, <2>6
<1> QED
  BY <1>1, <1>2 DEF Advance

\* A request's step keeps the invariant if it leaves every entry as it was, removes
\* it, or puts the request's own copy there.
LEMMA AdvanceInv ==
    ASSUME IInv, NEW w \in Workers, Advance(w), req[w] # NoRequest, issued' = issued,
           account' \in [Usernames -> Emails \cup {None}],
           latest' \in [Emails -> Codes \cup {None}],
           mailed' = mailed \/ mailed' = mailed \cup {Identity(req[w].email, req[w].rec)},
           cache' \in [Emails -> Entry \cup {None}],
           \A e \in Emails :
              \/ cache'[e] = cache[e]
              \/ cache'[e] = None
              \/ /\ e = req[w].email
                 /\ cache'[e].rec = req[w].rec
                 /\ req[w].pc = "store"
    PROVE  IInv'
<1>1. TypeOK /\ LimitsHold /\ CodesIdentify /\ HeldCopies
  BY DEF IInv
<1>2. /\ req[w].email \in Emails /\ req[w].rec \in Record
      /\ Identity(req[w].email, req[w].rec) \in Carried
      /\ Identity(req[w].email, req[w].rec) \in Emails \X Codes \X Usernames
  BY <1>1, Serving, Carriers DEF Identity, Record
<1>3. /\ req' \in [Workers -> Request]
      /\ HeldCopies'
      /\ \A v \in Workers : req'[v] # NoRequest =>
            Identity(req'[v].email, req'[v].rec) \in Carried
  BY <1>1, AdvanceReq, Carriers
<1>4. TypeOK'
  BY <1>1, <1>2, <1>3 DEF TypeOK
<1>5. ASSUME NEW e \in Emails, Pending(e)'
      PROVE  /\ Identity(e, cache'[e].rec) \in Carried
             /\ cache'[e].rec.attempts < MaxAttempts
             /\ cache'[e].rec.resend_count <= MaxResends
  <2>1. CASE cache'[e] = cache[e]
    BY <1>1, <1>5, <2>1, Carriers DEF Pending, LimitsHold
  <2>2. CASE e = req[w].email /\ cache'[e].rec = req[w].rec /\ req[w].pc = "store"
    BY <1>1, <1>2, <2>2 DEF HeldCopies
  <2> QED
    BY <1>5, <2>1, <2>2 DEF Pending
<1>6. LimitsHold'
  BY <1>5 DEF LimitsHold, Pending
<1>7. \A m \in mailed' : m \in Carried
  BY <1>2, Carriers
<1>8. CodesIdentify'
  BY <1>1, <1>3, <1>5, <1>7, CarriedWithin, PassedOn
<1> QED
  BY <1>3, <1>4, <1>6, <1>8 DEF IInv

LEMMA StoreInv ==
    ASSUME IInv, NEW w \in Workers, Store(w)
    PROVE  IInv'
<1>1. TypeOK
  BY DEF IInv
<1>2. req[w].pc = "store" /\ req[w] # NoRequest
  BY Busy DEF Store
<1>3. req[w].email \in Emails /\ req[w].rec \in Record
  BY <1>1, <1>2, Serving
<1>4. PICK t \in 1..TTL :
         cache' = [cache EXCEPT ![req[w].email] = [rec |-> req[w].rec, timeout |-> t]]
  <2> DEFINE left == IF req[w].op = "verify" THEN req[w].rec.expires_in ELSE TTL
  <2>1. left \in 0..TTL
    BY <1>3 DEF Record
  <2>2. (IF left < MinTimeout THEN MinTimeout ELSE left) \in 1..TTL
    BY <2>1
  <2> QED
    BY <2>2 DEF Store
<1>5. [rec |-> req[w].rec, timeout |-> t] \in Entry
  BY <1>3, <1>4 DEF Entry
<1>6. cache' \in [Emails -> Entry \cup {None}]
  BY <1>1, <1>4, <1>5 DEF TypeOK
<1>7. \A e \in Emails : \/ cache'[e] = cache[e]
                        \/ e = req[w].email /\ cache'[e].rec = req[w].rec
  BY <1>1, <1>3, <1>4 DEF TypeOK
<1>8. latest' \in [Emails -> Codes \cup {None}]
  BY <1>1, <1>3 DEF Store, TypeOK, Record
<1>9. Advance(w)
  BY <1>2 DEF Store, Advance
<1> QED
  BY <1>1, <1>2, <1>6, <1>7, <1>8, <1>9, AdvanceInv DEF Store, TypeOK

LEMMA DeliverInv ==
    ASSUME IInv, NEW w \in Workers, Deliver(w)
    PROVE  IInv'
<1>1. req[w] # NoRequest /\ Advance(w)
  BY Busy DEF Deliver, Advance
<1> QED
  BY <1>1, AdvanceInv DEF Deliver, IInv, TypeOK, Identity

LEMMA PersistInv ==
    ASSUME IInv, NEW w \in Workers, Persist(w) \/ UsernameTaken(w)
    PROVE  IInv'
<1>1. req[w] # NoRequest /\ Advance(w)
  BY Busy DEF Persist, UsernameTaken, Advance
<1>2. account' \in [Usernames -> Emails \cup {None}]
  BY <1>1, Serving DEF Persist, UsernameTaken, IInv, TypeOK
<1> QED
  BY <1>1, <1>2, AdvanceInv DEF Persist, UsernameTaken, IInv, TypeOK

LEMMA DeleteInv ==
    ASSUME IInv, NEW w \in Workers, Delete(w) \/ Fail(w)
    PROVE  IInv'
<1>1. req[w] # NoRequest /\ Advance(w)
  BY Busy DEF Delete, Fail, Advance
<1>2. cache' \in [Emails -> Entry \cup {None}]
  BY DEF Delete, Fail, IInv, TypeOK
<1>3. \A e \in Emails : cache'[e] = cache[e] \/ cache'[e] = None
  BY DEF Delete, Fail, IInv, TypeOK
<1> QED
  BY <1>1, <1>2, <1>3, AdvanceInv DEF Delete, Fail, IInv, TypeOK

-----------------------------------------------------------------------------
(* The clock *)

LEMMA TickInv == IInv /\ Tick => IInv'
<1> SUFFICES ASSUME IInv, Tick  PROVE IInv'
  OBVIOUS
<1>1. TypeOK /\ LimitsHold /\ CodesIdentify /\ HeldCopies
  BY DEF IInv
<1>2. ASSUME NEW e \in Emails, Pending(e)'
      PROVE  /\ Pending(e)
             /\ cache'[e] \in Entry
             /\ Identity(e, cache'[e].rec) = Identity(e, cache[e].rec)
             /\ cache'[e].rec.attempts = cache[e].rec.attempts
             /\ cache'[e].rec.resend_count = cache[e].rec.resend_count
  <2>1. /\ Pending(e)
        /\ cache'[e] = [rec |-> Older(cache[e].rec), timeout |-> cache[e].timeout - 1]
        /\ cache[e].timeout # 1
    BY <1>2 DEF Tick, Pending
  <2>2. cache[e] \in Entry /\ cache[e].rec \in Record
    BY <1>1, <2>1, PendingRecord
  <2>3. cache[e].timeout \in 1..TTL
    BY <2>2 DEF Entry
  <2>4. cache[e].timeout - 1 \in 1..TTL
    BY <2>1, <2>3
  <2>5. Older(cache[e].rec) \in Record
    BY <2>2, RecordTypes
  <2>6. cache'[e] \in Entry /\ cache'[e].rec = Older(cache[e].rec)
    BY <2>1, <2>4, <2>5 DEF Entry
  <2> QED
    BY <2>1, <2>2, <2>6, OlderKeeps
<1>3. ASSUME NEW e \in Emails  PROVE cache'[e] \in Entry \cup {None}
  BY <1>2 DEF Pending
<1>4. cache' \in [Emails -> Entry \cup {None}]
  BY <1>3 DEF Tick
<1>5. ASSUME NEW w \in Workers, req[w] # NoRequest
      PROVE  /\ req'[w] = [req[w] EXCEPT !.rec = Older(req[w].rec)]
             /\ Older(req[w].rec) \in Record
             /\ req'[w] \in Request
             /\ req'[w].pc = req[w].pc /\ req'[w].email = req[w].email
             /\ req'[w].otp = req[w].otp /\ req'[w].rec = Older(req[w].rec)
  <2>1. req'[w] = [req[w] EXCEPT !.rec = Older(req[w].rec)]
    BY <1>5 DEF Tick
  <2>2. Older(req[w].rec) \in Record
    BY <1>1, <1>5, Serving, RecordTypes
  <2> QED
    BY <1>1, <1>5, <2>1, <2>2, Serving DEF Request
<1>6. ASSUME NEW w \in Workers, req[w] = NoRequest  PROVE req'[w] = NoRequest
  BY <1>6 DEF Tick
<1>7. req' \in [Workers -> Request]
  <2>1. \A w \in Workers : req'[w] \in Request
    BY <1>5, <1>6 DEF Request
  <2> QED
    BY <2>1 DEF Tick
<1>8. TypeOK'
  BY <1>1, <1>4, <1>7 DEF Tick, TypeOK
<1>9. LimitsHold'
  BY <1>1, <1>2 DEF LimitsHold
<1>10. CodesIdentify'
  <2>1. \A m \in mailed' : m \in Carried
    BY Carriers DEF Tick
  <2>2. \A e \in Emails : Pending(e)' => Identity(e, cache'[e].rec) \in Carried
    BY <1>2, Carriers
  <2>3. \A w \in Workers : req'[w] # NoRequest =>
           Identity(req'[w].email, req'[w].rec) \in Carried
    <3> SUFFICES ASSUME NEW w \in Workers, req'[w] # NoRequest
                 PROVE  Identity(req'[w].email, req'[w].rec) \in Carried
      OBVIOUS
    <3>1. req[w] # NoRequest
      BY <1>6
    <3>2. /\ req[w].rec \in Record
          /\ req'[w].email = req[w].email /\ req'[w].rec = Older(req[w].rec)
      BY <1>1, <1>5, <3>1, Serving
    <3>3. Identity(req[w].email, Older(req[w].rec)) = Identity(req[w].email, req[w].rec)
      BY <3>2, OlderKeeps
    <3> QED
      BY <3>1, <3>2, <3>3, Carriers
  <2> QED
    BY <1>1, <2>1, <2>2, <2>3, CarriedWithin, PassedOn DEF Tick
<1>11. HeldCopies'
  <2> SUFFICES ASSUME NEW w \in Workers
               PROVE  /\ req'[w].pc = "store" => /\ req'[w].rec.attempts < MaxAttempts
                                                 /\ req'[w].rec.resend_count <= MaxResends
                      /\ req'[w].pc = "persist" =>
                            /\ req'[w].otp = req'[w].rec.code
                            /\ Identity(req'[w].email, req'[w].rec) \in mailed'
    BY DEF HeldCopies, Identity
  <2>1. CASE req[w] = NoRequest
    BY <1>6, <2>1 DEF NoRequest
  <2>2. CASE req[w] # NoRequest
    <3>1. req[w].rec \in Record
      BY <1>1, <2>2, Serving
    <3>2. Older(req[w].rec).code = req[w].rec.code
      BY <3>1 DEF Older, Record
    <3>3. /\ Identity(req[w].email, Older(req[w].rec)) = Identity(req[w].email, req[w].rec)
          /\ Older(req[w].rec).attempts = req[w].rec.attempts
          /\ Older(req[w].rec).resend_count = req[w].rec.resend_count
      BY <3>1, OlderKeeps
    <3>4. /\ req'[w].pc = req[w].pc /\ req'[w].email = req[w].email
          /\ req'[w].otp = req[w].otp /\ req'[w].rec = Older(req[w].rec)
          /\ mailed' = mailed
      BY <1>5, <2>2 DEF Tick
    <3> QED
      BY <1>1, <3>2, <3>3, <3>4 DEF HeldCopies
  <2> QED
    BY <2>1, <2>2
<1> QED
  BY <1>8, <1>9, <1>10, <1>11 DEF IInv

-----------------------------------------------------------------------------
(* Theorems *)

LEMMA InitInv == Init => IInv
<1> SUFFICES ASSUME Init  PROVE IInv
  OBVIOUS
<1>1. TypeOK
  BY DEF Init, TypeOK, Request
<1>2. \A e \in Emails : ~Pending(e)
  BY DEF Init, Pending
<1>3. \A w \in Workers : req[w] = NoRequest /\ req[w].pc = "idle"
  BY DEF Init, NoRequest
<1>4. Carried = {}
  BY <1>2, <1>3 DEF Carried, Init
<1> QED
  BY <1>1, <1>2, <1>3, <1>4 DEF IInv, LimitsHold, CodesIdentify, HeldCopies

LEMMA NextInv == IInv /\ [Next]_vars => IInv'
<1> SUFFICES ASSUME IInv, [Next]_vars  PROVE IInv'
  OBVIOUS
<1>1. CASE UNCHANGED vars
  BY <1>1 DEF vars, IInv, TypeOK, LimitsHold, Pending, CodesIdentify, Carried, HeldCopies, Identity
<1>2. ASSUME NEW w \in Workers, Step(w) \/ Fail(w)  PROVE IInv'
  BY <1>2, StoreInv, DeliverInv, PersistInv, DeleteInv DEF Step
<1>3. ASSUME NEW w \in Workers, NEW e \in Emails,
             \/ \E u \in Usernames, c \in Codes : Start(w, e, u, c)
             \/ \E otp \in Presented(e) : Verify(w, e, otp)
             \/ \E c \in Codes : Resend(w, e, c)
      PROVE  IInv'
  BY <1>3, StartInv, VerifyInv, ResendInv
<1> QED
  BY <1>1, <1>2, <1>3, TickInv DEF Next

\* The inductive invariant holds in every behaviour.
THEOREM Invariance == Spec => []IInv
BY InitInv, NextInv, PTL DEF Spec

\* Entries and copies are records of the cache schema, with timeouts of at least
\* one second.
THEOREM TypeCorrect == Spec => []TypeOK
<1>1. IInv => TypeOK
  BY DEF IInv
<1> QED
  BY <1>1, Invariance, PTL

\* No pending registration exceeds the settings' attempts or resends, although
\* the counters are read and written back without a lock.
THEOREM LimitSafety == Spec => []LimitsHold
<1>1. IInv => LimitsHold
  BY DEF IInv
<1> QED
  BY <1>1, Invariance, PTL

\* Every account was created by a request that presented the code mailed to its
\* address for its username.
THEOREM CodeSafety == Spec => AccountNeedsItsCode
<1> DEFINE Needs == \A u \in Usernames :
                      account[u] = None /\ account'[u] # None =>
                        \E w \in Workers : /\ req[w].pc = "persist"
                                           /\ <<account'[u], req[w].otp, u>> \in mailed
<1>1. ASSUME IInv, Next  PROVE Needs
  <2> SUFFICES ASSUME NEW u \in Usernames, account[u] = None, account'[u] # None
               PROVE  \E w \in Workers : /\ req[w].pc = "persist"
                                         /\ <<account'[u], req[w].otp, u>> \in mailed
    OBVIOUS
  <2>1. PICK w \in Workers : Persist(w)
    BY <1>1 DEF Next, Tick, Step, Store, Deliver, UsernameTaken, Delete, Fail,
                Start, Verify, Resend
  <2>2. req[w].pc = "persist" /\ account'[u] = req[w].email /\ u = req[w].rec.username
    BY <1>1, <2>1 DEF Persist, IInv, TypeOK
  <2>3. <<req[w].email, req[w].otp, req[w].rec.username>> \in mailed
    BY <1>1, <2>2 DEF IInv, HeldCopies, Identity
  <2> QED
    BY <2>2, <2>3
<1>2. IInv /\ [Next]_vars => [Needs]_vars
  BY <1>1
<1> QED
  BY <1>2, Invariance, PTL DEF Spec, AccountNeedsItsCode

-----------------------------------------------------------------------------
(* Requests served one at a time *)

\* What the only request has read still stands: its registration is the latest of the
\* address, and whoever has an account there has it under the registration's username.
Sole(w) ==
    /\ ReplacedStaysReplaced /\ OneAccountPerEmail
    /\ \A e \in Emails, v \in Usernames : Pending(e) /\ account[v] = e => v = cache[e].rec.username
    /\ req[w] # NoRequest =>
          /\ req[w].op # "start" => req[w].rec.first = latest[req[w].email]
          /\ \A v \in Usernames : account[v] = req[w].email => v = req[w].rec.username
          /\ req[w].op # "start" /\ Pending(req[w].email) =>
                cache[req[w].email].rec.username = req[w].rec.username
          /\ req[w].pc = "persist" => req[w].op # "start"

\* The request ends or goes on, and nothing that it relies on changes.
LEMMA SoleGoes ==
    ASSUME TypeOK, NEW w \in Workers, Sole(w), req[w] # NoRequest,
           Finish(w) \/ (\E pc : pc # "persist" /\ Goto(w, pc)),
           UNCHANGED <<account, latest>>,
           \A e \in Emails : cache'[e] = cache[e] \/ (e = req[w].email /\ cache'[e] = None)
    PROVE  Sole(w)'
<1>1. PICK r : r = req[w]
  OBVIOUS
<1>2. /\ r \in [pc : {"store", "deliver", "persist", "delete"}, op : {"start", "verify", "resend"},
                email : Emails, otp : Codes \cup {None}, rec : Record]
      /\ req \in [Workers -> Request] /\ r.email \in Emails
  BY <1>1, Serving DEF TypeOK
<1>3. /\ ReplacedStaysReplaced' /\ OneAccountPerEmail'
      /\ \A e \in Emails, v \in Usernames : Pending(e)' /\ account'[v] = e => v = cache'[e].rec.username
  BY DEF Sole, ReplacedStaysReplaced, OneAccountPerEmail, Pending
<1>4. CASE Finish(w)
  <2>1. req'[w] = NoRequest
    BY <1>2, <1>4 DEF Finish
  <2> QED
    BY <1>3, <2>1 DEF Sole
<1>5. ASSUME NEW pc, pc # "persist", Goto(w, pc) PROVE Sole(w)'
  <2>1. PICK n : n = req'[w]
    OBVIOUS
  <2>2. n = [r EXCEPT !.pc = pc]
    BY <1>1, <1>2, <1>5, <2>1 DEF Goto
  <2>3. n.pc = pc /\ n.op = r.op /\ n.email = r.email /\ n.rec = r.rec
    BY <1>2, <2>2
  <2>4. /\ r.op # "start" => r.rec.first = latest[r.email]
        /\ \A v \in Usernames : account[v] = r.email => v = r.rec.username
        /\ r.op # "start" /\ Pending(r.email) => cache[r.email].rec.username = r.rec.username
    BY <1>1 DEF Sole
  <2>5. /\ n.op # "start" => n.rec.first = latest'[n.email]
        /\ \A v \in Usernames : account'[v] = n.email => v = n.rec.username
        /\ n.op # "start" /\ Pending(n.email)' => cache'[n.email].rec.username = n.rec.username
        /\ n.pc # "persist"
    BY <1>2, <1>5, <2>3, <2>4 DEF Pending
  <2> QED
    BY <1>3, <2>1, <2>5 DEF Sole
<1> QED
  BY <1>4, <1>5

\* A request that begins with the latest registration of its address, or a new one.
LEMMA SoleServe ==
    ASSUME TypeOK, NEW w \in Workers, Sole(w), NEW pc, NEW op, NEW e \in Emails, NEW otp, NEW r,
           Serve(w, pc, op, e, otp, r), UNCHANGED <<cache, account, latest>>,
           op # "start" => /\ Pending(e) /\ r.first = cache[e].rec.first
                           /\ r.username = cache[e].rec.username,
           op = "start" => pc # "persist" /\ \A v \in Usernames : account[v] # e
    PROVE  Sole(w)'
<1>1. PICK n : n = req'[w]
  OBVIOUS
<1>2. n = [pc |-> pc, op |-> op, email |-> e, otp |-> otp, rec |-> r]
  BY <1>1 DEF Serve, TypeOK
<1>3. n.pc = pc /\ n.op = op /\ n.email = e /\ n.rec = r
  BY <1>2
<1>4. /\ ReplacedStaysReplaced' /\ OneAccountPerEmail'
      /\ \A f \in Emails, v \in Usernames : Pending(f)' /\ account'[v] = f => v = cache'[f].rec.username
  BY DEF Sole, ReplacedStaysReplaced, OneAccountPerEmail, Pending
<1>5. /\ \A f \in Emails : Pending(f) => cache[f].rec.first = latest[f]
      /\ \A f \in Emails, v \in Usernames : Pending(f) /\ account[v] = f => v = cache[f].rec.username
  BY DEF Sole, ReplacedStaysReplaced
<1>6. /\ n.op # "start" => n.rec.first = latest'[n.email]
      /\ \A v \in Usernames : account'[v] = n.email => v = n.rec.username
      /\ n.op # "start" /\ Pending(n.email)' => cache'[n.email].rec.username = n.rec.username
      /\ n.pc = "persist" => n.op # "start"
  BY <1>3, <1>5 DEF Pending
<1> QED
  BY <1>1, <1>4, <1>6 DEF Sole

LEMMA SoleBegins ==
    ASSUME IInv, NEW w \in Workers, Sole(w), NEW e \in Emails,
           \/ \E u \in Usernames, c \in Codes : Start(w, e, u, c)
           \/ \E otp \in Presented(e) : Verify(w, e, otp)
           \/ \E c \in Codes : Resend(w, e, c)
    PROVE  Sole(w)'
<1>1. TypeOK
  BY DEF IInv
<1>2. ASSUME NEW u \in Usernames, NEW c \in Codes, Start(w, e, u, c) PROVE Sole(w)'
  <2>1. Serve(w, "store", "start", e, None, NewRecord(u, c)) /\ UNCHANGED <<cache, account, latest>>
        /\ \A v \in Usernames : account[v] # e
    BY <1>2 DEF Start
  <2> QED
    BY <1>1, <2>1, SoleServe
<1>3. ASSUME NEW otp \in Presented(e), Verify(w, e, otp) PROVE Sole(w)'
  <2>1. PICK r, a, pc :
           /\ r = cache[e].rec
           /\ Serve(w, pc, "verify", e, otp, [r EXCEPT !.attempts = a])
    <3>1. PICK r : r = cache[e].rec
      OBVIOUS
    <3>2. PICK a : a = IF otp = r.code THEN r.attempts ELSE r.attempts + 1
      OBVIOUS
    <3>3. Pending(e) /\ r \in Record
      BY <1>1, <1>3, <3>1, PendingRecord DEF Verify
    <3>4. [r EXCEPT !.attempts = IF otp = r.code THEN @ ELSE @ + 1] = [r EXCEPT !.attempts = a]
      BY <3>2, <3>3 DEF Record
    <3>5. \E pc : Serve(w, pc, "verify", e, otp, [r EXCEPT !.attempts = IF otp = r.code THEN @ ELSE @ + 1])
      BY <1>3, <3>1 DEF Verify
    <3> QED
      BY <3>1, <3>4, <3>5
  <2>2. Pending(e) /\ UNCHANGED <<cache, account, latest>>
    BY <1>3 DEF Verify
  <2>3. PICK m : m = [r EXCEPT !.attempts = a]
    OBVIOUS
  <2>4. m.first = cache[e].rec.first /\ m.username = cache[e].rec.username
    BY <1>1, <2>1, <2>2, <2>3, PendingRecord DEF Record
  <2>5. Serve(w, pc, "verify", e, otp, m)
    BY <2>1, <2>3
  <2> QED
    BY <1>1, <2>2, <2>4, <2>5, SoleServe
<1>4. ASSUME NEW c \in Codes, Resend(w, e, c) PROVE Sole(w)'
  <2>1. PICK m : m = Reissued(cache[e].rec, c)
    OBVIOUS
  <2>2. Pending(e) /\ UNCHANGED <<cache, account, latest>> /\ Serve(w, "store", "resend", e, None, m)
    BY <1>4, <2>1 DEF Resend
  <2>3. m.first = cache[e].rec.first /\ m.username = cache[e].rec.username
    BY <2>1 DEF Reissued, NewRecord
  <2> QED
    BY <1>1, <2>2, <2>3, SoleServe
<1> QED
  BY <1>2, <1>3, <1>4

\* What a registration stored by the only request leaves.
LEMMA SoleStore ==
    ASSUME IInv, NEW w \in Workers, Sole(w), Store(w)
    PROVE  Sole(w)'
<1>1. PICK r : r = req[w]
  OBVIOUS
<1>2. /\ r \in [pc : {"store", "deliver", "persist", "delete"}, op : {"start", "verify", "resend"},
                email : Emails, otp : Codes \cup {None}, rec : Record]
      /\ req[w] # NoRequest /\ TypeOK
      /\ req \in [Workers -> Request] /\ cache \in [Emails -> Entry \cup {None}]
      /\ latest \in [Emails -> Codes \cup {None}] /\ r.email \in Emails
  BY <1>1, Busy, Serving DEF Store, IInv, TypeOK
<1>3. PICK t : cache' = [cache EXCEPT ![r.email] = [rec |-> r.rec, timeout |-> t]]
  BY <1>1 DEF Store
<1>4. /\ cache'[r.email].rec = r.rec /\ account' = account
      /\ \A f \in Emails : f # r.email => cache'[f] = cache[f]
  BY <1>2, <1>3 DEF Store
<1>5. /\ latest'[r.email] = IF r.op = "start" THEN r.rec.first ELSE latest[r.email]
      /\ \A f \in Emails : f # r.email => latest'[f] = latest[f]
  BY <1>1, <1>2 DEF Store
<1>6. /\ \A f \in Emails : Pending(f) => cache[f].rec.first = latest[f]
      /\ \A f \in Emails, v \in Usernames : Pending(f) /\ account[v] = f => v = cache[f].rec.username
      /\ r.op # "start" => r.rec.first = latest[r.email]
      /\ \A v \in Usernames : account[v] = r.email => v = r.rec.username
      /\ OneAccountPerEmail
  BY <1>1, <1>2 DEF Sole, ReplacedStaysReplaced
<1>7. ReplacedStaysReplaced'
  <2> SUFFICES ASSUME NEW f \in Emails, Pending(f)' PROVE cache'[f].rec.first = latest'[f]
    BY DEF ReplacedStaysReplaced
  <2>1. CASE f = r.email
    BY <1>4, <1>5, <1>6, <2>1
  <2>2. CASE f # r.email
    BY <1>4, <1>5, <1>6, <2>2 DEF Pending
  <2> QED
    BY <2>1, <2>2
<1>8. OneAccountPerEmail'
  BY <1>4, <1>6 DEF OneAccountPerEmail
<1>9. ASSUME NEW f \in Emails, NEW v \in Usernames, Pending(f)', account'[v] = f
      PROVE  v = cache'[f].rec.username
  <2>1. CASE f = r.email
    BY <1>4, <1>6, <1>9, <2>1
  <2>2. CASE f # r.email
    BY <1>4, <1>6, <1>9, <2>2 DEF Pending
  <2> QED
    BY <2>1, <2>2
<1>10. CASE req'[w] = NoRequest
  BY <1>7, <1>8, <1>9, <1>10 DEF Sole
<1>11. CASE req'[w] = [r EXCEPT !.pc = "deliver"]
  <2>1. PICK n : n = req'[w]
    OBVIOUS
  <2>2. n.pc = "deliver" /\ n.op = r.op /\ n.email = r.email /\ n.rec = r.rec
    BY <1>2, <1>11, <2>1
  <2>3. /\ n.op # "start" => n.rec.first = latest'[n.email]
        /\ \A v \in Usernames : account'[v] = n.email => v = n.rec.username
        /\ n.op # "start" /\ Pending(n.email)' => cache'[n.email].rec.username = n.rec.username
        /\ n.pc # "persist"
    BY <1>4, <1>5, <1>6, <2>2
  <2> QED
    BY <1>7, <1>8, <1>9, <2>1, <2>3 DEF Sole
<1> QED
  BY <1>1, <1>2, <1>10, <1>11 DEF Store, Finish, Goto

\* The account inserted is the first of its address.
LEMMA SolePersist ==
    ASSUME IInv, NEW w \in Workers, Sole(w), Persist(w)
    PROVE  Sole(w)'
<1>1. PICK r : r = req[w]
  OBVIOUS
<1>2. /\ r \in [pc : {"store", "deliver", "persist", "delete"}, op : {"start", "verify", "resend"},
                email : Emails, otp : Codes \cup {None}, rec : Record]
      /\ req[w] # NoRequest /\ r.pc = "persist" /\ r.email \in Emails /\ r.rec.username \in Usernames
      /\ req \in [Workers -> Request] /\ account \in [Usernames -> Emails \cup {None}]
  BY <1>1, Busy, Serving DEF Persist, IInv, TypeOK, Record
<1>3. /\ account[r.rec.username] = None /\ account' = [account EXCEPT ![r.rec.username] = r.email]
      /\ req'[w] = [r EXCEPT !.pc = "delete"] /\ UNCHANGED <<cache, latest>>
  BY <1>1, <1>2 DEF Persist, Goto
<1>4. \A v \in Usernames : account'[v] = IF v = r.rec.username THEN r.email ELSE account[v]
  BY <1>2, <1>3
<1>5. /\ \A f \in Emails, v \in Usernames : Pending(f) /\ account[v] = f => v = cache[f].rec.username
      /\ \A v \in Usernames : account[v] = r.email => v = r.rec.username
      /\ r.op # "start" /\ r.rec.first = latest[r.email]
      /\ Pending(r.email) => cache[r.email].rec.username = r.rec.username
      /\ ReplacedStaysReplaced /\ OneAccountPerEmail
  BY <1>1, <1>2 DEF Sole
<1>6. OneAccountPerEmail'
  BY <1>2, <1>4, <1>5, SignupAssumption DEF OneAccountPerEmail
<1>7. ReplacedStaysReplaced'
  BY <1>3, <1>5 DEF ReplacedStaysReplaced, Pending
<1>8. \A f \in Emails, v \in Usernames : Pending(f)' /\ account'[v] = f => v = cache'[f].rec.username
  BY <1>3, <1>4, <1>5 DEF Pending
<1>9. PICK n : n = req'[w]
  OBVIOUS
<1>10. n.pc = "delete" /\ n.op = r.op /\ n.email = r.email /\ n.rec = r.rec
  BY <1>2, <1>3, <1>9
<1>11. /\ n.rec.first = latest'[n.email] /\ n.pc # "persist"
       /\ \A v \in Usernames : account'[v] = n.email => v = n.rec.username
       /\ Pending(n.email)' => cache'[n.email].rec.username = n.rec.username
  BY <1>3, <1>4, <1>5, <1>10 DEF Pending
<1> QED
  BY <1>6, <1>7, <1>8, <1>9, <1>11 DEF Sole

\* Time changes no registration and no username.
LEMMA SoleTick ==
    ASSUME IInv, NEW w \in Workers, Sole(w), Tick
    PROVE  Sole(w)'
<1>1. TypeOK /\ UNCHANGED <<account, latest>>
  BY DEF IInv, Tick
<1>2. \A x \in Record : Older(x).first = x.first /\ Older(x).username = x.username
  BY DEF Older, Record
<1>3. ASSUME NEW e \in Emails, Pending(e)'
      PROVE  /\ Pending(e) /\ cache'[e].rec.first = cache[e].rec.first
             /\ cache'[e].rec.username = cache[e].rec.username
  <2>1. Pending(e) /\ cache'[e].rec = Older(cache[e].rec)
    BY <1>3 DEF Tick, Pending
  <2> QED
    BY <1>1, <1>2, <2>1, PendingRecord
<1>4. /\ ReplacedStaysReplaced' /\ OneAccountPerEmail'
      /\ \A e \in Emails, v \in Usernames : Pending(e)' /\ account'[v] = e => v = cache'[e].rec.username
  BY <1>1, <1>3 DEF Sole, ReplacedStaysReplaced, OneAccountPerEmail
<1>5. CASE req[w] = NoRequest
  <2>1. req'[w] = NoRequest
    BY <1>5 DEF Tick
  <2> QED
    BY <1>4, <2>1 DEF Sole
<1>6. CASE req[w] # NoRequest
  <2>1. PICK r, n : r = req[w] /\ n = req'[w]
    OBVIOUS
  <2>2. /\ r \in [pc : {"store", "deliver", "persist", "delete"}, op : {"start", "verify", "resend"},
                  email : Emails, otp : Codes \cup {None}, rec : Record]
    BY <1>1, <1>6, <2>1, Serving
  <2>3. n = [r EXCEPT !.rec = Older(@)]
    BY <1>6, <2>1 DEF Tick
  <2>4. /\ n.pc = r.pc /\ n.op = r.op /\ n.email = r.email /\ n.email \in Emails
        /\ n.rec.first = r.rec.first /\ n.rec.username = r.rec.username
    BY <1>2, <2>2, <2>3
  <2>5. /\ r.op # "start" => r.rec.first = latest[r.email]
        /\ \A v \in Usernames : account[v] = r.email => v = r.rec.username
        /\ r.op # "start" /\ Pending(r.email) => cache[r.email].rec.username = r.rec.username
        /\ r.pc = "persist" => r.op # "start"
    BY <1>6, <2>1 DEF Sole
  <2>6. /\ n.op # "start" => n.rec.first = latest'[n.email]
        /\ \A v \in Usernames : account'[v] = n.email => v = n.rec.username
        /\ n.op # "start" /\ Pending(n.email)' => cache'[n.email].rec.username = n.rec.username
        /\ n.pc = "persist" => n.op # "start"
    BY <1>1, <1>3, <2>4, <2>5
  <2> QED
    BY <1>4, <2>1, <2>6 DEF Sole
<1> QED
  BY <1>5, <1>6

LEMMA SoleNext ==
    ASSUME IInv, NEW w, Workers = {w}, Sole(w), [Next]_vars
    PROVE  Sole(w)'
<1>1. w \in Workers /\ TypeOK
  BY DEF IInv
<1>2. CASE UNCHANGED vars
  BY <1>2 DEF vars, Sole, ReplacedStaysReplaced, OneAccountPerEmail, Pending
<1>3. CASE Tick
  BY <1>1, <1>3, SoleTick
<1>4. CASE Store(w)
  BY <1>1, <1>4, SoleStore
<1>5. CASE Persist(w)
  BY <1>1, <1>5, SolePersist
<1>6. CASE Deliver(w) \/ UsernameTaken(w) \/ Delete(w) \/ Fail(w)
  <2>1. req[w] # NoRequest
    BY <1>1, <1>6, Busy DEF Deliver, UsernameTaken, Delete, Fail
  <2>2. "delete" # "persist"
    OBVIOUS
  <2>3. Finish(w) \/ \E pc : pc # "persist" /\ Goto(w, pc)
    BY <1>6, <2>2 DEF Deliver, UsernameTaken, Delete, Fail
  <2>4. /\ UNCHANGED <<account, latest>>
        /\ \A e \in Emails : cache'[e] = cache[e] \/ (e = req[w].email /\ cache'[e] = None)
    BY <1>1, <1>6 DEF Deliver, UsernameTaken, Delete, Fail, TypeOK
  <2> QED
    BY <1>1, <2>1, <2>3, <2>4, SoleGoes
<1>7. ASSUME NEW e \in Emails,
             \/ \E u \in Usernames, c \in Codes : Start(w, e, u, c)
             \/ \E otp \in Presented(e) : Verify(w, e, otp)
             \/ \E c \in Codes : Resend(w, e, c)
      PROVE  Sole(w)'
  BY <1>1, <1>7, SoleBegins
<1> QED
  BY <1>2, <1>3, <1>4, <1>5, <1>6, <1>7 DEF Next, Step

\* Requests served one at a time, failures between their commands and expiries included,
\* keep both promises the interleavings break: a replaced registration stays replaced, and
\* no address gets two accounts.
THEOREM SerialSignup ==
    ASSUME NEW w, Workers = {w}
    PROVE  Spec => [](ReplacedStaysReplaced /\ OneAccountPerEmail)
<1>1. Init => Sole(w)
  BY SignupAssumption DEF Init, Sole, ReplacedStaysReplaced, OneAccountPerEmail, Pending
<1>2. IInv /\ Sole(w) /\ [Next]_vars => Sole(w)'
  BY SoleNext
<1>3. Sole(w) => ReplacedStaysReplaced /\ OneAccountPerEmail
  BY DEF Sole
<1> QED
  BY <1>1, <1>2, <1>3, Invariance, PTL DEF Spec

=============================================================================
