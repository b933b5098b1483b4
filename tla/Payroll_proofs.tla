--------------------------- MODULE Payroll_proofs ---------------------------
(***************************************************************************)
(* Proofs about Payroll, for every number of payments and requests.  The   *)
(* invariant says what a request may still believe of the entry it loaded: *)
(* as long as the row has the version loaded, it has the net pay loaded.   *)
(***************************************************************************)
EXTENDS Payroll, TLAPS

\* What each request carries at each of its steps.
WellFormed(w) ==
    /\ txn[w].pc = "idle" => txn[w].op = None
    /\ txn[w].pc \in {"pay", "mark", "again"} =>
           /\ txn[w].op \in {"pay", "repay"} /\ txn[w].pay \in Payments
           /\ txn[w].status \in Statuses /\ txn[w].copy \in Entry
    /\ txn[w].pc \in {"mark", "again"} => Valid(w)
    /\ txn[w].pc = "edit" =>
           \/ txn[w].op = "create" /\ txn[w].net \in Nets /\ txn[w].status \in Statuses
           \/ txn[w].op = "edit" /\ txn[w].copy \in Entry

\* A copy is never ahead of its row, and tells the net pay while it is not behind.
CopySound(w) ==
    txn[w].op \in {"pay", "repay", "edit"} =>
        /\ txn[w].copy.version <= entry.version
        /\ txn[w].copy.version = entry.version => txn[w].copy.net = entry.net

\* No payment precedes its entry.
Precedes ==
    entry.state = "absent" => entry.version = 0 /\ \A p \in Payments : payment[p].state # "there"

IInv ==
    /\ TypeOK
    /\ PaidPaymentsMark
    /\ Precedes
    /\ \A w \in Workers : WellFormed(w) /\ CopySound(w)

-----------------------------------------------------------------------------
LEMMA IdleSound ==
    ASSUME NEW w \in Workers, txn'[w] = Idle
    PROVE  WellFormed(w)' /\ CopySound(w)'
BY PayrollAssumption DEF Idle, WellFormed, CopySound, Ops

LEMMA Numbers ==
    /\ \A a \in Amounts \cup {0} : a \in Int
    /\ \A n \in Nets : n \in Int
<1>1. Amounts \subseteq Int /\ Nets \subseteq Int
  BY PayrollAssumption
<1>2. Amounts \cup {0} \subseteq Int
  BY <1>1
<1> QED
  BY <1>1, <1>2

LEMMA IdleTyped == Idle \in Txn
BY PayrollAssumption DEF Idle, Txn

\* What the other requests hold stays sound while the entry does not change.
LEMMA OthersKept ==
    ASSUME IInv, NEW w \in Workers, NEW t \in Txn, Goto(w, t),
           entry'.version = entry.version, entry'.net = entry.net,
           WellFormed(w)', CopySound(w)'
    PROVE  /\ txn' \in [Workers -> Txn] /\ txn'[w] = t
           /\ \A v \in Workers \ {w} : txn'[v] = txn[v]
           /\ \A v \in Workers : WellFormed(v)' /\ CopySound(v)'
<1>1. txn' \in [Workers -> Txn] /\ txn'[w] = t /\ \A v \in Workers \ {w} : txn'[v] = txn[v]
  BY DEF IInv, TypeOK, Goto
<1>2. \A v \in Workers \ {w} : WellFormed(v)' /\ CopySound(v)'
  BY <1>1 DEF IInv, WellFormed, CopySound, Valid
<1> QED
  BY <1>1, <1>2

\* A step by which a request only loads rows.
LEMMA LoadStep ==
    ASSUME IInv, NEW w \in Workers, NEW t \in Txn, Goto(w, t), Quiet,
           txn[w].pc # "mark", WellFormed(w)', CopySound(w)'
    PROVE  IInv'
<1>1. /\ txn' \in [Workers -> Txn] /\ \A v \in Workers \ {w} : txn'[v] = txn[v]
      /\ \A v \in Workers : WellFormed(v)' /\ CopySound(v)'
  BY OthersKept DEF Quiet
<1>2. TypeOK' /\ Precedes'
  BY <1>1 DEF IInv, TypeOK, Precedes, Quiet
<1>3. PaidPaymentsMark'
  BY <1>1 DEF IInv, PaidPaymentsMark, PaidIn, Quiet
<1> QED
  BY <1>1, <1>2, <1>3 DEF IInv

LEMMA InitInv == Init => IInv
<1> SUFFICES ASSUME Init PROVE IInv
  OBVIOUS
<1>1. TypeOK
  BY IdleTyped DEF Init, TypeOK, Entry, Payment, Row, States, Statuses
<1>2. PaidPaymentsMark /\ Precedes
  BY DEF Init, PaidPaymentsMark, Precedes, Row
<1>3. \A w \in Workers : WellFormed(w) /\ CopySound(w)
  BY PayrollAssumption DEF Init, Idle, WellFormed, CopySound, Ops
<1> QED
  BY <1>1, <1>2, <1>3 DEF IInv

LEMMA BeginInv ==
    ASSUME IInv, NEW w \in Workers, Begin(w)
    PROVE  IInv'
<1>0. entry \in Entry /\ entry.version \in Nat /\ belongs \in BOOLEAN /\ txn \in [Workers -> Txn]
  BY DEF IInv, TypeOK, Entry
<1>1. ASSUME NEW n \in Nets, NEW s \in Statuses, BeginCreate(w, n, s) PROVE IInv'
  <2> DEFINE t == [Idle EXCEPT !.pc = "edit", !.op = "create", !.net = n, !.status = s]
  <2>1. t \in Txn /\ t.pc = "edit" /\ t.op = "create" /\ t.net = n /\ t.status = s /\ t.copy = None
    BY PayrollAssumption DEF Idle, Txn, Ops
  <2>2. Goto(w, t) /\ Quiet /\ txn[w].pc # "mark"
    BY <1>1 DEF BeginCreate, Idle
  <2> HIDE DEF t
  <2>3. txn'[w] = t
    BY <1>0, <2>2 DEF Goto
  <2>4. WellFormed(w)' /\ CopySound(w)'
    BY <2>1, <2>2, <2>3 DEF WellFormed, CopySound, Quiet, Entry
  <2> QED
    BY <2>1, <2>2, <2>4, LoadStep
<1>2. ASSUME NEW n \in Nets \cup {None}, NEW s \in Statuses \cup {None}, BeginEdit(w, n, s) PROVE IInv'
  <2> DEFINE t == [Idle EXCEPT !.pc = "edit", !.op = "edit", !.net = n, !.status = s, !.copy = entry]
  <2>1. t \in Txn /\ t.pc = "edit" /\ t.op = "edit" /\ t.copy = entry
    BY <1>0, PayrollAssumption DEF Idle, Txn, Ops
  <2>2. Goto(w, t) /\ Quiet /\ txn[w].pc # "mark"
    BY <1>2 DEF BeginEdit, Idle
  <2> HIDE DEF t
  <2>3. txn'[w] = t
    BY <1>0, <2>2 DEF Goto
  <2>4. WellFormed(w)' /\ CopySound(w)'
    BY <1>0, <2>1, <2>2, <2>3 DEF WellFormed, CopySound, Quiet
  <2> QED
    BY <2>1, <2>2, <2>4, LoadStep
<1>3. ASSUME NEW p \in Payments, NEW a \in Amounts, NEW s \in Statuses, BeginPay(w, p, a, s) PROVE IInv'
  <2> DEFINE t == [Idle EXCEPT !.pc = "pay", !.op = "pay", !.pay = p, !.amount = a, !.status = s,
                               !.copy = entry]
  <2>1. t \in Txn /\ t.pc = "pay" /\ t.op = "pay" /\ t.pay = p /\ t.status = s /\ t.copy = entry
    BY <1>0, PayrollAssumption DEF Idle, Txn, Ops
  <2>2. Goto(w, t) /\ Quiet /\ txn[w].pc # "mark"
    BY <1>3 DEF BeginPay, Idle
  <2> HIDE DEF t
  <2>3. txn'[w] = t
    BY <1>0, <2>2 DEF Goto
  <2>4. WellFormed(w)' /\ CopySound(w)'
    BY <1>0, <2>1, <2>2, <2>3 DEF WellFormed, CopySound, Quiet
  <2> QED
    BY <2>1, <2>2, <2>4, LoadStep
<1>4. ASSUME NEW p \in Payments, NEW a \in Amounts, NEW s \in Statuses, BeginRepay(w, p, a, s) PROVE IInv'
  <2>0. payment[p].version \in Nat
    BY DEF IInv, TypeOK, Payment
  <2>p. PICK placed \in {belongs, None} :
           Goto(w, [Idle EXCEPT !.pc = "pay", !.op = "repay", !.pay = p, !.amount = a, !.status = s,
                                !.copy = entry, !.placed = placed, !.version = payment[p].version])
    BY <1>4 DEF BeginRepay
  <2> DEFINE t == [Idle EXCEPT !.pc = "pay", !.op = "repay", !.pay = p, !.amount = a, !.status = s,
                               !.copy = entry, !.placed = placed, !.version = payment[p].version]
  <2>1. t \in Txn /\ t.pc = "pay" /\ t.op = "repay" /\ t.pay = p /\ t.status = s /\ t.copy = entry
    BY <1>0, <2>0, PayrollAssumption DEF Idle, Txn, Ops
  <2>2. Goto(w, t) /\ Quiet /\ txn[w].pc # "mark"
    BY <1>4, <2>p DEF BeginRepay, Idle
  <2> HIDE DEF t
  <2>3. txn'[w] = t
    BY <1>0, <2>2 DEF Goto
  <2>4. WellFormed(w)' /\ CopySound(w)'
    BY <1>0, <2>1, <2>2, <2>3 DEF WellFormed, CopySound, Quiet
  <2> QED
    BY <2>1, <2>2, <2>4, LoadStep
<1> QED
  BY <1>1, <1>2, <1>3, <1>4 DEF Begin

-----------------------------------------------------------------------------
LEMMA SavePaymentInv ==
    ASSUME IInv, NEW w \in Workers, SavePayment(w)
    PROVE  IInv'
<1> DEFINE p == txn[w].pay
<1>0. /\ txn[w] \in Txn /\ txn[w].pc = "pay" /\ p \in Payments /\ txn[w].status \in Statuses
      /\ txn[w].copy \in Entry /\ WellFormed(w) /\ CopySound(w)
      /\ UNCHANGED <<entry, belongs>> /\ payment \in [Payments -> Payment]
  BY DEF IInv, TypeOK, WellFormed, SavePayment
<1>1. CASE ~(Valid(w) /\ Savable(w))
  <2>1. Goto(w, Idle) /\ Quiet
    BY <1>1 DEF SavePayment, Quiet
  <2>2. txn'[w] = Idle
    BY <2>1 DEF IInv, TypeOK, Goto
  <2> QED
    BY <1>0, <2>1, <2>2, IdleTyped, IdleSound, LoadStep
<1>2. CASE Valid(w) /\ Savable(w)
  <2> DEFINE saved == [state |-> "there", amount |-> txn[w].amount, status |-> txn[w].status,
                       version |-> txn[w].version + 1]
             t == IF Marks(w) THEN [txn[w] EXCEPT !.pc = "mark"] ELSE Idle
  <2>1. payment' = [payment EXCEPT ![p] = saved] /\ unmarked' = unmarked \ {p} /\ Goto(w, t)
    BY <1>2 DEF SavePayment
  <2>2. saved \in Payment
    <3>1. txn[w].amount \in Amounts \cup {0} /\ txn[w].version \in Nat
      BY <1>0 DEF Txn
    <3>2. txn[w].amount \in Int
      BY <3>1, Numbers
    <3>3. txn[w].amount \in Nat
      BY <1>2, <3>2 DEF Valid
    <3> QED
      BY <1>0, <3>1, <3>3 DEF Payment, States
  <2>3. t \in Txn
    BY <1>0, IdleTyped DEF Txn
  <2>4. /\ Marks(w) => /\ t.pc = "mark" /\ t.op = txn[w].op /\ t.pay = p /\ t.status = txn[w].status
                       /\ t.copy = txn[w].copy /\ t.amount = txn[w].amount
        /\ ~Marks(w) => t = Idle
    BY <1>0 DEF Txn
  <2>5. saved.state = "there" /\ (saved.status = "PAID" <=> Marks(w))
    BY DEF Marks
  <2> HIDE DEF t, saved
  <2>6. txn'[w] = t
    BY <2>1, <2>3 DEF IInv, TypeOK, Goto
  <2>7. WellFormed(w)' /\ CopySound(w)'
    <3>1. CASE Marks(w)
      BY <1>0, <1>2, <2>4, <2>6, <3>1 DEF WellFormed, CopySound, Valid
    <3>2. CASE ~Marks(w)
      BY <2>4, <2>6, <3>2, IdleSound
    <3> QED
      BY <3>1, <3>2
  <2>8. /\ txn' \in [Workers -> Txn] /\ \A v \in Workers \ {w} : txn'[v] = txn[v]
        /\ \A v \in Workers : WellFormed(v)' /\ CopySound(v)'
    BY <1>0, <2>1, <2>3, <2>7, OthersKept
  <2>9. TypeOK'
    BY <1>0, <2>1, <2>2, <2>8 DEF IInv, TypeOK
  <2>10. Precedes'
    <3>1. entry.state # "absent"
      BY <1>0, <1>2 DEF IInv, Precedes, Savable
    <3> QED
      BY <1>0, <3>1 DEF Precedes
  <2>11. PaidPaymentsMark'
    <3> SUFFICES ASSUME entry.state = "there", entry.status # "PAID", NEW q \in Payments, q \in PaidIn(payment)'
                 PROVE  q \in unmarked' \/ \E v \in Workers : txn'[v].pc = "mark" /\ txn'[v].pay = q
      BY <1>0 DEF PaidPaymentsMark, PaidIn
    <3>1. CASE q = p
      BY <1>0, <2>1, <2>4, <2>5, <2>6, <3>1 DEF PaidIn
    <3>2. CASE q # p
      <4>1. q \in PaidIn(payment)
        BY <1>0, <2>1, <3>2 DEF PaidIn
      <4>2. q \in unmarked \/ \E v \in Workers \ {w} : txn[v].pc = "mark" /\ txn[v].pay = q
        BY <1>0, <4>1 DEF IInv, PaidPaymentsMark
      <4> QED
        BY <2>1, <2>8, <3>2, <4>2
    <3> QED
      BY <3>1, <3>2
  <2> QED
    BY <2>8, <2>9, <2>10, <2>11 DEF IInv
<1> QED
  BY <1>1, <1>2

LEMMA MarkInv ==
    ASSUME IInv, NEW w \in Workers, Mark(w)
    PROVE  IInv'
<1>0. /\ txn[w] \in Txn /\ txn[w].pc \in {"mark", "again"} /\ txn[w].pay \in Payments
      /\ WellFormed(w) /\ CopySound(w) /\ entry \in Entry
      /\ UNCHANGED <<belongs, payment>>
  BY DEF IInv, TypeOK, WellFormed, Mark
<1>1. CASE Placed(w) /\ Unchanged(w)
  <2> DEFINE t == IF txn[w].pc = "mark" THEN [txn[w] EXCEPT !.pc = "again"] ELSE Idle
  <2>1. entry' = [entry EXCEPT !.status = "PAID"] /\ unmarked' = {} /\ Goto(w, t)
    BY <1>0, <1>1 DEF Mark
  <2>2. /\ entry' \in Entry /\ entry'.version = entry.version /\ entry'.net = entry.net
        /\ entry'.status = "PAID" /\ entry'.state = entry.state
    BY <1>0, <2>1 DEF Entry, Statuses
  <2>3. t \in Txn
    BY <1>0, IdleTyped DEF Txn
  <2>4. /\ txn[w].pc = "mark" => /\ t.pc = "again" /\ t.op = txn[w].op /\ t.pay = txn[w].pay
                                 /\ t.status = txn[w].status /\ t.copy = txn[w].copy
                                 /\ t.amount = txn[w].amount
        /\ txn[w].pc # "mark" => t = Idle
    BY <1>0 DEF Txn
  <2> HIDE DEF t
  <2>5. txn'[w] = t
    BY <2>1, <2>3 DEF IInv, TypeOK, Goto
  <2>6. WellFormed(w)' /\ CopySound(w)'
    <3>1. CASE txn[w].pc = "mark"
      BY <1>0, <2>2, <2>4, <2>5, <3>1 DEF WellFormed, CopySound, Valid
    <3>2. CASE txn[w].pc # "mark"
      BY <2>4, <2>5, <3>2, IdleSound
    <3> QED
      BY <3>1, <3>2
  <2>7. txn' \in [Workers -> Txn] /\ \A v \in Workers : WellFormed(v)' /\ CopySound(v)'
    BY <2>1, <2>2, <2>3, <2>6, OthersKept
  <2>8. TypeOK' /\ Precedes' /\ PaidPaymentsMark'
    BY <1>0, <1>1, <2>1, <2>2, <2>7 DEF IInv, TypeOK, Precedes, PaidPaymentsMark, Unchanged
  <2> QED
    BY <2>7, <2>8 DEF IInv
<1>2. CASE ~(Placed(w) /\ Unchanged(w))
  <2>1. /\ Goto(w, Idle) /\ UNCHANGED entry
        /\ unmarked' = unmarked \cup ({txn[w].pay} \cap PaidIn(payment))
    BY <1>0, <1>2 DEF Mark
  <2>2. txn'[w] = Idle
    BY <2>1 DEF IInv, TypeOK, Goto
  <2>3. /\ txn' \in [Workers -> Txn] /\ \A v \in Workers \ {w} : txn'[v] = txn[v]
        /\ \A v \in Workers : WellFormed(v)' /\ CopySound(v)'
    BY <2>1, <2>2, IdleTyped, IdleSound, OthersKept
  <2>4. TypeOK' /\ Precedes'
    BY <1>0, <2>1, <2>3 DEF IInv, TypeOK, Precedes, PaidIn
  <2>5. PaidPaymentsMark'
    BY <1>0, <2>1, <2>3 DEF IInv, PaidPaymentsMark, PaidIn
  <2> QED
    BY <2>3, <2>4, <2>5 DEF IInv
<1> QED
  BY <1>1, <1>2

\* A write that gives the entry a version no copy has.
LEMMA EntryWritten ==
    ASSUME IInv, NEW w \in Workers, Goto(w, Idle), UNCHANGED <<belongs, payment>>,
           entry' \in Entry, entry'.version > entry.version,
           unmarked' \in SUBSET Payments, entry'.state # "absent", PaidPaymentsMark'
    PROVE  IInv'
<1>1. /\ txn' \in [Workers -> Txn] /\ txn'[w] = Idle
      /\ \A v \in Workers \ {w} : txn'[v] = txn[v]
  BY IdleTyped DEF IInv, TypeOK, Goto
<1>2. entry.version \in Nat /\ entry'.version \in Nat
  BY DEF IInv, TypeOK, Entry
<1>3. ASSUME NEW v \in Workers \ {w} PROVE WellFormed(v)' /\ CopySound(v)'
  <2>1. txn'[v] = txn[v] /\ WellFormed(v) /\ CopySound(v)
    BY <1>1 DEF IInv
  <2>2. WellFormed(v)'
    BY <2>1 DEF WellFormed, Valid
  <2>3. CopySound(v)'
    <3> SUFFICES ASSUME txn[v].op \in {"pay", "repay", "edit"}
                 PROVE  txn[v].copy.version <= entry'.version /\ txn[v].copy.version # entry'.version
      BY <2>1 DEF CopySound
    <3>1. txn[v].copy.version <= entry.version /\ txn[v].copy.version \in Nat
      <4>1. txn[v] \in Txn
        BY DEF IInv, TypeOK
      <4>2. txn[v].copy \in Entry
        BY <2>1, <4>1, PayrollAssumption DEF WellFormed, Txn, Ops
      <4> QED
        BY <2>1, <4>2 DEF CopySound, Entry
    <3> QED
      BY <1>2, <3>1
  <2> QED
    BY <2>2, <2>3
<1>4. \A v \in Workers : WellFormed(v)' /\ CopySound(v)'
  BY <1>1, <1>3, IdleSound
<1>5. TypeOK' /\ Precedes'
  BY <1>1 DEF IInv, TypeOK, Precedes
<1> QED
  BY <1>4, <1>5 DEF IInv

LEMMA SaveEntryInv ==
    ASSUME IInv, NEW w \in Workers, SaveEntry(w)
    PROVE  IInv'
<1>0. /\ txn[w] \in Txn /\ txn[w].pc = "edit" /\ WellFormed(w) /\ CopySound(w) /\ entry \in Entry
      /\ Goto(w, Idle) /\ UNCHANGED <<belongs, payment>> /\ unmarked \in SUBSET Payments
  BY DEF IInv, TypeOK, SaveEntry
<1>1. txn'[w] = Idle /\ \A v \in Workers \ {w} : txn'[v] = txn[v]
  BY <1>0 DEF IInv, TypeOK, Goto
<1>2. CASE UNCHANGED <<entry, unmarked>>
  BY <1>0, <1>1, <1>2, IdleTyped, IdleSound, LoadStep DEF Quiet
<1>3. ASSUME txn[w].op = "create", entry.state = "absent", UNCHANGED unmarked,
             entry' = [state |-> "there", status |-> txn[w].status, net |-> txn[w].net, version |-> 1]
      PROVE  IInv'
  <2>1. txn[w].net \in Nets /\ txn[w].status \in Statuses
    BY <1>0, <1>3 DEF WellFormed
  <2>2. entry' \in Entry /\ entry'.version > entry.version /\ entry'.state = "there"
    BY <1>3, <2>1 DEF Entry, States, IInv, Precedes
  <2>3. PaidPaymentsMark'
    BY <1>0, <1>3 DEF IInv, Precedes, PaidPaymentsMark, PaidIn
  <2> QED
    BY <1>0, <1>3, <2>2, <2>3, EntryWritten
<1>4. ASSUME txn[w].op = "edit", Unchanged(w), entry' = Written(w),
             unmarked' = IF entry.status = "PAID" /\ Written(w).status # "PAID"
                         THEN PaidIn(payment) ELSE unmarked
      PROVE  IInv'
  <2>1. txn[w].copy \in Entry /\ txn[w].copy.version = entry.version /\ entry.state = "there"
    BY <1>0, <1>4 DEF WellFormed, Unchanged
  <2>2. /\ Written(w).state = "there" /\ Written(w).version = entry.version + 1
        /\ Written(w) \in Entry
    BY <1>0, <2>1 DEF Written, Entry, States, Txn
  <2>3. entry'.version > entry.version /\ unmarked' \in SUBSET Payments
    BY <1>0, <1>4, <2>2 DEF Entry, PaidIn
  <2>4. PaidPaymentsMark'
    <3> SUFFICES ASSUME Written(w).status # "PAID", NEW q \in Payments, q \in PaidIn(payment)
                 PROVE  q \in unmarked' \/ \E v \in Workers : txn'[v].pc = "mark" /\ txn'[v].pay = q
      BY <1>0, <1>4 DEF PaidPaymentsMark, PaidIn
    <3>1. CASE entry.status = "PAID"
      BY <1>4, <3>1
    <3>2. CASE entry.status # "PAID"
      BY <1>0, <1>1, <1>4, <2>1, <3>2 DEF IInv, PaidPaymentsMark
    <3> QED
      BY <3>1, <3>2
  <2> QED
    BY <1>0, <1>4, <2>2, <2>3, <2>4, EntryWritten
<1> QED
  BY <1>2, <1>3, <1>4 DEF SaveEntry

LEMMA DeletionInv ==
    ASSUME IInv, DeleteEntry \/ \E p \in Payments : DeletePayment(p)
    PROVE  IInv'
<1>0. entry \in Entry /\ payment \in [Payments -> Payment]
  BY DEF IInv, TypeOK
<1>1. Row("gone") \in Payment /\ Row("gone").state = "gone"
  BY DEF Row, Payment, States, Statuses
<1>2. CASE DeleteEntry
  <2>1. /\ entry' \in Entry /\ entry'.state = "gone" /\ entry'.version = entry.version /\ entry'.net = entry.net
    BY <1>0, <1>2 DEF DeleteEntry, Entry, States
  <2>2. TypeOK' /\ Precedes' /\ PaidPaymentsMark'
    BY <1>0, <1>1, <1>2, <2>1 DEF DeleteEntry, IInv, TypeOK, Precedes, PaidPaymentsMark
  <2>3. \A w \in Workers : WellFormed(w)' /\ CopySound(w)'
    BY <1>2, <2>1 DEF DeleteEntry, IInv, WellFormed, CopySound, Valid
  <2> QED
    BY <2>2, <2>3 DEF IInv
<1>3. ASSUME NEW p \in Payments, DeletePayment(p) PROVE IInv'
  <2>1. TypeOK' /\ Precedes'
    BY <1>0, <1>1, <1>3 DEF DeletePayment, IInv, TypeOK, Precedes
  <2>2. PaidPaymentsMark'
    <3>1. PaidIn(payment)' \subseteq PaidIn(payment) \ {p}
      BY <1>0, <1>1, <1>3 DEF DeletePayment, PaidIn
    <3> QED
      BY <1>3, <3>1 DEF DeletePayment, IInv, PaidPaymentsMark
  <2>3. \A w \in Workers : WellFormed(w)' /\ CopySound(w)'
    BY <1>3 DEF DeletePayment, IInv, WellFormed, CopySound, Valid
  <2> QED
    BY <2>1, <2>2, <2>3 DEF IInv
<1> QED
  BY <1>2, <1>3

LEMMA FailInv ==
    ASSUME IInv, NEW w \in Workers, Fail(w)
    PROVE  IInv'
<1>1. /\ txn'[w] = Idle /\ Goto(w, Idle) /\ UNCHANGED <<entry, belongs, payment>>
      /\ WellFormed(w)
  BY DEF Fail, IInv, TypeOK, Goto
<1>2. /\ txn' \in [Workers -> Txn] /\ \A v \in Workers \ {w} : txn'[v] = txn[v]
      /\ \A v \in Workers : WellFormed(v)' /\ CopySound(v)'
  BY <1>1, IdleTyped, IdleSound, OthersKept
<1>3. TypeOK' /\ Precedes'
  BY <1>1, <1>2 DEF Fail, IInv, TypeOK, Precedes, PaidIn
<1>4. PaidPaymentsMark'
  BY <1>1, <1>2 DEF Fail, IInv, PaidPaymentsMark, PaidIn
<1> QED
  BY <1>2, <1>3, <1>4 DEF IInv

LEMMA NextInv == IInv /\ [Next]_vars => IInv'
<1>1. ASSUME IInv, UNCHANGED vars PROVE IInv'
  BY <1>1 DEF vars, IInv, TypeOK, PaidPaymentsMark, PaidIn, Precedes, WellFormed, CopySound, Valid
<1>2. ASSUME IInv, Transfer PROVE IInv'
  BY <1>2 DEF Transfer, IInv, TypeOK, PaidPaymentsMark, PaidIn, Precedes, WellFormed, CopySound, Valid
<1> QED
  BY <1>1, <1>2, BeginInv, SavePaymentInv, MarkInv, SaveEntryInv, DeletionInv, FailInv DEF Next

LEMMA Invariant == Spec => []IInv
BY InitInv, NextInv, PTL DEF Spec

\* The rows and the requests keep their types, and no negative amount is stored.
THEOREM TypeCorrect == Spec => []TypeOK
<1>1. IInv => TypeOK
  BY DEF IInv
<1> QED
  BY <1>1, Invariant, PTL

\* A paid payment parts from its entry only when the mark fails or is overwritten.
THEOREM PaymentsMark == Spec => []PaidPaymentsMark
<1>1. IInv => PaidPaymentsMark
  BY DEF IInv
<1> QED
  BY <1>1, Invariant, PTL

\* The amount was compared with the net pay of a copy, and the version tells that the
\* copy is still true when the mark is written.
THEOREM MarksWithinNet == Spec => MarkedWithinNet
<1>1. ASSUME IInv, Next, NEW w \in Workers, txn[w].pc \in {"mark", "again"}, txn'[w] # txn[w],
             entry.status # "PAID", entry'.status = "PAID"
      PROVE  txn[w].amount = 0 \/ txn[w].amount \in 1..entry.net
  <2>1. txn \in [Workers -> Txn] /\ txn[w] \in Txn /\ entry \in Entry
    BY <1>1 DEF IInv, TypeOK
  <2>2. \/ Begin(w) \/ SavePayment(w) \/ Mark(w) \/ SaveEntry(w) \/ Fail(w)
    <3>1. PICK v \in Workers : \/ Begin(v) \/ SavePayment(v) \/ Mark(v) \/ SaveEntry(v) \/ Fail(v)
      BY <1>1 DEF Next, DeleteEntry, DeletePayment, Transfer
    <3>2. \E t : txn' = [txn EXCEPT ![v] = t]
      BY <3>1 DEF Begin, BeginCreate, BeginEdit, BeginPay, BeginRepay, SavePayment, Mark, SaveEntry, Fail, Goto
    <3>3. v = w
      BY <1>1, <2>1, <3>2
    <3> QED
      BY <3>1, <3>3
  <2>3. Mark(w) /\ entry' # entry
    <3>1. ~SavePayment(w) /\ ~SaveEntry(w)
      BY <1>1 DEF SavePayment, SaveEntry
    <3>2. Begin(w) \/ Fail(w) => entry' = entry
      BY DEF Begin, BeginCreate, BeginEdit, BeginPay, BeginRepay, Fail, Quiet
    <3> QED
      BY <1>1, <2>2, <3>1, <3>2
  <2>4. Unchanged(w)
    BY <2>3 DEF Mark
  <2>5. Valid(w) /\ txn[w].op \in {"pay", "repay"} /\ CopySound(w)
    BY <1>1 DEF IInv, WellFormed
  <2>6. txn[w].copy.net = entry.net
    BY <2>4, <2>5 DEF Unchanged, CopySound
  <2>7. txn[w].amount \in Int /\ entry.net \in Int
    <3>1. txn[w].amount \in Amounts \cup {0} /\ entry.net \in Nets
      BY <2>1 DEF Txn, Entry
    <3> QED
      BY <3>1, Numbers
  <2> QED
    BY <2>5, <2>6, <2>7 DEF Valid
<1>2. IInv /\ [Next]_vars =>
        [\A w \in Workers :
           /\ txn[w].pc \in {"mark", "again"} /\ txn'[w] # txn[w]
           /\ entry.status # "PAID" /\ entry'.status = "PAID"
           => txn[w].amount = 0 \/ txn[w].amount \in 1..entry.net]_vars
  BY <1>1
<1> QED
  BY <1>2, Invariant, PTL DEF Spec, MarkedWithinNet

-----------------------------------------------------------------------------
\* One request at a time, undisturbed: its copy is the row, or the row is gone and its
\* payments with it.
Alone(w) ==
    /\ belongs /\ unmarked = {}
    /\ entry.state # "there" => \A p \in Payments : payment[p].state # "there"
    /\ txn[w].placed \in {TRUE, None}
    /\ txn[w].pc \in {"pay", "mark", "again"} /\ entry.state = "there" =>
          txn[w].copy.version = entry.version

LEMMA AloneBegin ==
    ASSUME IInv, NEW w \in Workers, Alone(w), Begin(w)
    PROVE  Alone(w)'
<1>1. txn \in [Workers -> Txn]
  BY DEF IInv, TypeOK
<1>2. Quiet
  BY DEF Begin, BeginCreate, BeginEdit, BeginPay, BeginRepay
<1>3. PICK t : /\ Goto(w, t)
               /\ t.placed \in {TRUE, None}
               /\ t.pc \in {"pay", "mark", "again"} => t.copy = entry
  <2>1. ASSUME NEW n, NEW r, BeginCreate(w, n, r)
        PROVE  \E t : /\ Goto(w, t)
                      /\ t.placed \in {TRUE, None}
                      /\ t.pc \in {"pay", "mark", "again"} => t.copy = entry
    <3>1. PICK t : t = [Idle EXCEPT !.pc = "edit", !.op = "create", !.net = n, !.status = r]
      OBVIOUS
    <3>2. /\ t.placed \in {TRUE, None}
          /\ t.pc \in {"pay", "mark", "again"} => t.copy = entry
      BY <3>1 DEF Idle
    <3>3. Goto(w, t)
      BY <2>1, <3>1 DEF BeginCreate
    <3> QED
      BY <3>2, <3>3
  <2>2. ASSUME NEW n, NEW r, BeginEdit(w, n, r)
        PROVE  \E t : /\ Goto(w, t)
                      /\ t.placed \in {TRUE, None}
                      /\ t.pc \in {"pay", "mark", "again"} => t.copy = entry
    <3>1. PICK t : t = [Idle EXCEPT !.pc = "edit", !.op = "edit", !.net = n, !.status = r, !.copy = entry]
      OBVIOUS
    <3>2. /\ t.placed \in {TRUE, None}
          /\ t.pc \in {"pay", "mark", "again"} => t.copy = entry
      BY <3>1 DEF Idle
    <3>3. Goto(w, t)
      BY <2>2, <3>1 DEF BeginEdit
    <3> QED
      BY <3>2, <3>3
  <2>3. ASSUME NEW p, NEW a, NEW r, BeginPay(w, p, a, r)
        PROVE  \E t : /\ Goto(w, t)
                      /\ t.placed \in {TRUE, None}
                      /\ t.pc \in {"pay", "mark", "again"} => t.copy = entry
    <3>1. PICK t : t = [Idle EXCEPT !.pc = "pay", !.op = "pay", !.pay = p, !.amount = a, !.status = r,
                                !.copy = entry]
      OBVIOUS
    <3>2. /\ t.placed \in {TRUE, None}
          /\ t.pc \in {"pay", "mark", "again"} => t.copy = entry
      BY <3>1 DEF Idle
    <3>3. Goto(w, t)
      BY <2>3, <3>1 DEF BeginPay
    <3> QED
      BY <3>2, <3>3
  <2>4. ASSUME NEW p, NEW a, NEW r, BeginRepay(w, p, a, r)
        PROVE  \E t : /\ Goto(w, t)
                      /\ t.placed \in {TRUE, None}
                      /\ t.pc \in {"pay", "mark", "again"} => t.copy = entry
    <3>0. PICK placed \in {belongs, None} :
             Goto(w, [Idle EXCEPT !.pc = "pay", !.op = "repay", !.pay = p, !.amount = a, !.status = r,
                                  !.copy = entry, !.placed = placed, !.version = payment[p].version])
      BY <2>4 DEF BeginRepay
    <3>1. PICK t : t = [Idle EXCEPT !.pc = "pay", !.op = "repay", !.pay = p, !.amount = a, !.status = r,
                                !.copy = entry, !.placed = placed, !.version = payment[p].version]
      OBVIOUS
    <3>2. /\ t.placed \in {TRUE, None}
          /\ t.pc \in {"pay", "mark", "again"} => t.copy = entry
      BY <3>0, <3>1 DEF Idle, Alone
    <3>3. Goto(w, t)
      BY <3>0, <3>1
    <3> QED
      BY <3>2, <3>3
  <2> QED
    BY <2>1, <2>2, <2>3, <2>4 DEF Begin
<1>4. txn'[w] = t
  BY <1>1, <1>3 DEF Goto
<1> QED
  BY <1>2, <1>3, <1>4 DEF Alone, Quiet

LEMMA AloneSavePayment ==
    ASSUME IInv, NEW w \in Workers, Alone(w), SavePayment(w)
    PROVE  Alone(w)'
<1>1. txn \in [Workers -> Txn] /\ payment \in [Payments -> Payment] /\ txn[w].pc = "pay"
      /\ txn[w].pay \in Payments /\ txn[w].op \in {"pay", "repay"} /\ txn[w] \in Txn
  BY DEF IInv, TypeOK, WellFormed, SavePayment
<1>2. UNCHANGED <<entry, belongs>> /\ unmarked' = {}
  BY DEF SavePayment, Alone
<1>3. CASE /\ txn'[w] = Idle /\ UNCHANGED payment
  BY <1>2, <1>3, PayrollAssumption DEF Alone, Idle, Ops
<1>4. CASE /\ Savable(w) /\ txn'[w] \in {Idle, [txn[w] EXCEPT !.pc = "mark"]}
           /\ \A p \in Payments : p # txn[w].pay => payment'[p] = payment[p]
  <2>1. entry.state = "there"
    BY <1>1, <1>4 DEF Savable, Alone
  <2>2. CASE txn'[w] = Idle
    BY <1>2, <2>1, <2>2, PayrollAssumption DEF Alone, Idle, Ops
  <2>3. CASE txn'[w] = [txn[w] EXCEPT !.pc = "mark"]
    <3>1. txn'[w].op = txn[w].op /\ txn'[w].placed = txn[w].placed /\ txn'[w].copy = txn[w].copy
      BY <1>1, <2>3 DEF Txn
    <3> QED
      BY <1>1, <1>2, <2>1, <3>1 DEF Alone
  <2> QED
    BY <1>4, <2>2, <2>3
<1> QED
  BY <1>1, <1>3, <1>4 DEF SavePayment, Goto

\* The mark of the only request is refused only if the entry is gone.
LEMMA AloneMark ==
    ASSUME IInv, NEW w \in Workers, Alone(w), Mark(w)
    PROVE  Alone(w)'
<1>1. txn \in [Workers -> Txn] /\ txn[w].pc \in {"mark", "again"}
      /\ txn[w].op \in {"pay", "repay"} /\ txn[w] \in Txn /\ entry \in Entry
  BY DEF IInv, TypeOK, WellFormed, Mark
<1>2. UNCHANGED <<belongs, payment>>
  BY DEF Mark
<1>3. CASE /\ Placed(w) /\ Unchanged(w) /\ entry' = [entry EXCEPT !.status = "PAID"] /\ unmarked' = {}
           /\ txn'[w] \in {Idle, [txn[w] EXCEPT !.pc = "again"]}
  <2>1. entry'.state = entry.state /\ entry'.version = entry.version
    BY <1>1, <1>3 DEF Entry
  <2>2. CASE txn'[w] = Idle
    BY <1>2, <1>3, <2>1, <2>2, PayrollAssumption DEF Alone, Idle, Ops
  <2>3. CASE txn'[w] = [txn[w] EXCEPT !.pc = "again"]
    <3>1. txn'[w].op = txn[w].op /\ txn'[w].placed = txn[w].placed /\ txn'[w].copy = txn[w].copy
      BY <1>1, <2>3 DEF Txn
    <3> QED
      BY <1>1, <1>2, <1>3, <2>1, <3>1 DEF Alone
  <2> QED
    BY <1>3, <2>2, <2>3
<1>4. CASE /\ ~(Placed(w) /\ Unchanged(w)) /\ UNCHANGED entry /\ txn'[w] = Idle
           /\ unmarked' = unmarked \cup ({txn[w].pay} \cap PaidIn(payment))
  <2>1. Placed(w)
    BY <1>1 DEF Placed, Alone
  <2>2. entry.state # "there"
    BY <1>1, <1>4, <2>1 DEF Unchanged, Alone
  <2>3. PaidIn(payment) = {}
    BY <2>2 DEF PaidIn, Alone
  <2> QED
    BY <1>2, <1>4, <2>3, PayrollAssumption DEF Alone, Idle, Ops
<1> QED
  BY <1>1, <1>3, <1>4 DEF Mark, Goto

\* No edit takes the mark back, and the rest of what an edit writes concerns no payment.
LEMMA AloneSaveEntry ==
    ASSUME IInv, NEW w \in Workers, Alone(w), Undisturbed, SaveEntry(w)
    PROVE  Alone(w)'
<1>1. txn'[w] = Idle /\ UNCHANGED <<belongs, payment>>
  BY DEF IInv, TypeOK, SaveEntry, Goto
<1>2. entry.state = "there" \/ UNCHANGED entry \/ entry'.state = "there"
  BY DEF SaveEntry, Unchanged
<1>3. entry.state = "there" => entry'.state = "there"
  BY DEF SaveEntry, Written
<1>4. unmarked' = {}
  <2>1. CASE UNCHANGED unmarked
    BY <2>1 DEF Alone
  <2>2. CASE entry' = Written(w) /\ unmarked' = IF entry.status = "PAID" /\ Written(w).status # "PAID"
                                               THEN PaidIn(payment) ELSE unmarked
    <3>1. entry'.state = "there"
      BY <2>2 DEF Written
    <3>2. ~(entry.status = "PAID" /\ Written(w).status # "PAID")
      BY <2>2, <3>1 DEF Undisturbed
    <3> QED
      BY <2>2, <3>2 DEF Alone
  <2> QED
    BY <2>1, <2>2 DEF SaveEntry
<1>5. entry'.state # "there" => \A p \in Payments : payment'[p].state # "there"
  BY <1>1, <1>3 DEF Alone
<1> QED
  BY <1>1, <1>4, <1>5, PayrollAssumption DEF Alone, Idle, Ops

LEMMA AloneNext ==
    ASSUME IInv, NEW w, Workers = {w}, Alone(w), [Next]_vars, [Undisturbed]_vars
    PROVE  Alone(w)'
<1>1. txn \in [Workers -> Txn] /\ payment \in [Payments -> Payment] /\ entry \in Entry /\ w \in Workers
  BY DEF IInv, TypeOK
<1>2. CASE UNCHANGED vars
  BY <1>2 DEF vars, Alone
<1>3. CASE Next /\ Undisturbed
  <2>1. CASE Begin(w) \/ SavePayment(w) \/ Mark(w) \/ SaveEntry(w)
    BY <1>1, <1>3, <2>1, AloneBegin, AloneSavePayment, AloneMark, AloneSaveEntry
  <2>2. CASE Fail(w)
    <3>1. txn'[w] = Idle /\ UNCHANGED <<entry, belongs, payment>>
      BY <1>1, <2>2 DEF Fail, Goto
    <3>2. unmarked' = {}
      <4>1. CASE txn[w].pc = "mark"
        <5>1. ~(Placed(w) /\ Unchanged(w))
          BY <1>1, <1>3, <3>1, <4>1 DEF Undisturbed, Idle
        <5>2. txn[w].op \in {"pay", "repay"}
          BY <1>1, <4>1 DEF IInv, WellFormed
        <5>3. Placed(w)
          BY <5>2 DEF Placed, Alone
        <5>4. entry.state # "there"
          BY <4>1, <5>1, <5>3 DEF Unchanged, Alone
        <5>5. PaidIn(payment) = {}
          BY <5>4 DEF PaidIn, Alone
        <5> QED
          BY <2>2, <5>5 DEF Fail, Alone
      <4>2. CASE txn[w].pc # "mark"
        BY <2>2, <4>2 DEF Fail, Alone
      <4> QED
        BY <4>1, <4>2
    <3> QED
      BY <3>1, <3>2, PayrollAssumption DEF Alone, Idle, Ops
  <2>3. ASSUME NEW p \in Payments, DeletePayment(p) PROVE Alone(w)'
    <3>1. \A q \in Payments : payment'[q] = payment[q] \/ payment'[q].state = "gone"
      BY <1>1, <2>3 DEF DeletePayment, Row
    <3> QED
      BY <2>3, <3>1 DEF DeletePayment, Alone
  <2>4. CASE DeleteEntry
    <3>1. entry'.state = "gone" /\ \A q \in Payments : payment'[q].state # "there"
      BY <1>1, <2>4 DEF DeleteEntry, Row, Entry
    <3> QED
      BY <2>4, <3>1 DEF DeleteEntry, Alone
  <2>5. ~Transfer
    BY <1>1, <1>3 DEF Transfer, Undisturbed, Alone
  <2> QED
    BY <1>3, <2>1, <2>2, <2>3, <2>4, <2>5 DEF Next
<1> QED
  BY <1>2, <1>3

\* Requests served one at a time leave no PAID payment without its mark, as long as no mark
\* fails, no edit takes it back and the employee is not moved: without a transaction around
\* the saves, what parts them is an interleaving, a failure between them, or a reversal.
THEOREM SerialMarks ==
    ASSUME NEW w, Workers = {w}
    PROVE  Spec /\ [][Undisturbed]_vars => []PaidAreMarked
<1>1. Init => Alone(w)
  <2>1. Idle.placed = None /\ Idle.pc = "idle" /\ Row("absent").state = "absent"
    BY DEF Idle, Row
  <2> QED
    BY <2>1 DEF Init, Alone
<1>2. IInv /\ Alone(w) /\ [Next]_vars /\ [Undisturbed]_vars => Alone(w)'
  BY AloneNext
<1>3. IInv /\ Alone(w) => PaidAreMarked
  BY DEF IInv, PaidPaymentsMark, Alone, PaidAreMarked
<1> QED
  BY <1>1, <1>2, <1>3, Invariant, PTL DEF Spec

=============================================================================
