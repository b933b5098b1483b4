------------------------------ MODULE Payroll ------------------------------
(***************************************************************************)
(* One payroll entry, the payments made for it, and the mark they leave on *)
(* it (payroll/models.py, payroll/views.py).                               *)
(*                                                                         *)
(* Nothing here is one transaction: a request loads rows, saves the        *)
(* payment, and if the payment is PAID saves the entry it loaded, twice,   *)
(* once from PayrollPayment.save and once from the view.  Each save is an  *)
(* UPDATE that applies only to a row that still has the row_version read;  *)
(* one that writes every column also gives the row a new version, and the  *)
(* mark, which writes payment_status alone, does not.                      *)
(***************************************************************************)
EXTENDS Integers

CONSTANTS
    Payments,     \* rows of PayrollPayment
    Workers,      \* requests served at the same time (a bound)
    Nets,         \* values of net_pay
    Amounts,      \* amounts that requests name
    MaxVersion,   \* version of a row after which no request edits it (a bound)
    None

\* PENDING stands for every status but PAID.
Statuses == {"PENDING", "PAID"}

Ops == {"pay", "repay", "create", "edit"}

ASSUME PayrollAssumption ==
    /\ Nets \subseteq Int /\ Amounts \subseteq Int
    /\ MaxVersion \in Nat
    /\ None \notin Payments \cup Statuses \cup Ops

VARIABLES
    entry,      \* the row of PayrollEntry
    belongs,    \* the employee works in the organization of the run
    payment,    \* the rows of PayrollPayment
    unmarked,   \* PAID payments whose mark failed or was overwritten (observes)
    txn         \* each worker's request

vars == <<entry, belongs, payment, unmarked, txn>>

-----------------------------------------------------------------------------
States == {"absent", "there", "gone"}

Entry == [state : States, status : Statuses, net : Nets, version : Nat]

Payment == [state : States, amount : Nat, status : Statuses, version : Nat]

Txn == [pc : {"idle", "pay", "mark", "again", "edit"},
        op : Ops \cup {None},
        pay : Payments \cup {None},
        amount : Amounts \cup {0},
        status : Statuses \cup {None},     \* as the request names it
        net : Nets \cup {None},            \* as an edit names it
        copy : Entry \cup {None},          \* the entry as loaded
        placed : BOOLEAN \cup {None},       \* belongs as loaded, None if it has not been
        version : Nat]                     \* the payment's row_version as loaded

Idle == [pc |-> "idle", op |-> None, pay |-> None, amount |-> 0, status |-> None, net |-> None,
         copy |-> None, placed |-> None, version |-> 0]

\* No payment yet, or no longer.
Row(state) == [state |-> state, amount |-> 0, status |-> "PENDING", version |-> 0]

Init ==
    /\ entry \in [state : {"absent"}, status : {"PENDING"}, net : Nets, version : {0}]
    /\ belongs = TRUE
    /\ payment = [p \in Payments |-> Row("absent")]
    /\ unmarked = {}
    /\ txn = [w \in Workers |-> Idle]

Goto(w, t) == txn' = [txn EXCEPT ![w] = t]
Quiet      == UNCHANGED <<entry, belongs, payment, unmarked>>

PaidIn(rows) == {p \in Payments : rows[p].state = "there" /\ rows[p].status = "PAID"}

-----------------------------------------------------------------------------
\* What a request loads before it saves.

\* PayrollEntryViewSet.create: the employee is loaded with their organization and the
\* entry's clean refuses one of another organization.
BeginCreate(w, n, s) ==
    /\ txn[w] = Idle
    /\ entry.state = "absent" /\ belongs
    /\ Goto(w, [Idle EXCEPT !.pc = "edit", !.op = "create", !.net = n, !.status = s])
    /\ Quiet

\* PayrollEntryViewSet.update, or the admin site's form: a body may leave out the
\* amounts that make the net pay, or the status (None).
BeginEdit(w, n, s) ==
    /\ txn[w] = Idle
    /\ entry.state = "there" /\ entry.version < MaxVersion /\ belongs
    /\ Goto(w, [Idle EXCEPT !.pc = "edit", !.op = "edit", !.net = n, !.status = s, !.copy = entry])
    /\ Quiet

\* PayrollPaymentViewSet.create: the serializer fetches the entry, not its employee.
BeginPay(w, p, a, s) ==
    /\ txn[w] = Idle
    /\ payment[p].state = "absent" /\ \A x \in Workers : txn[x].pay # p
    /\ entry.state = "there"
    /\ Goto(w, [Idle EXCEPT !.pc = "pay", !.op = "pay", !.pay = p, !.amount = a, !.status = s,
                            !.copy = entry])
    /\ Quiet

\* PayrollPaymentViewSet.update: the entry and its employee come with the payment, but a
\* body that names the entry, as PUT's must, has it fetched again without its employee.
\* A value the body leaves out is the one loaded, which is among those named here.  A
\* body that names another entry is left out.
BeginRepay(w, p, a, s) ==
    /\ txn[w] = Idle
    /\ payment[p].state = "there" /\ payment[p].version < MaxVersion
    /\ \E placed \in {belongs, None} :
         Goto(w, [Idle EXCEPT !.pc = "pay", !.op = "repay", !.pay = p, !.amount = a, !.status = s,
                              !.copy = entry, !.placed = placed, !.version = payment[p].version])
    /\ Quiet

-----------------------------------------------------------------------------
\* Mutation: a negative amount is not refused.
ValidUnsigned(w) == txn[w].amount # 0 => txn[w].amount <= txn[w].copy.net

\* PayrollPayment.clean, against the entry as loaded; no amount is tested as zero.
Valid(w) == txn[w].amount >= 0 /\ (txn[w].amount # 0 => txn[w].amount <= txn[w].copy.net)

\* The row a payment is saved to: a new one needs its entry (foreign key), an old one
\* the version read (RecordModifiedError).
Savable(w) ==
    IF txn[w].op = "pay" THEN entry.state = "there"
    ELSE /\ payment[txn[w].pay].state = "there"
         /\ payment[txn[w].pay].version = txn[w].version

\* Mutation: only a new payment marks its entry.
MarksNewOnly(w) == txn[w].status = "PAID" /\ txn[w].op = "pay"

Marks(w) == txn[w].status = "PAID"

\* PayrollPayment.save, up to the payment's own row.
SavePayment(w) ==
    LET p == txn[w].pay
        saved == [state |-> "there", amount |-> txn[w].amount, status |-> txn[w].status,
                  version |-> txn[w].version + 1]
    IN /\ txn[w].pc = "pay"
       /\ \/ /\ Valid(w) /\ Savable(w)
             /\ payment' = [payment EXCEPT ![p] = saved]
             /\ unmarked' = unmarked \ {p}
             /\ Goto(w, IF Marks(w) THEN [txn[w] EXCEPT !.pc = "mark"] ELSE Idle)
          \/ /\ ~(Valid(w) /\ Savable(w))
             /\ Goto(w, Idle)
             /\ UNCHANGED <<payment, unmarked>>
       /\ UNCHANGED <<entry, belongs>>

\* The entry's own clean: the employee is read now unless they came with the payment; the
\* second save finds them loaded.
Placed(w) == txn[w].pc = "again" \/ (IF txn[w].placed = None THEN belongs ELSE txn[w].placed)

\* Mutation: the mark is written whatever the row's version.
UnchangedAny(w) == entry.state = "there"

\* The row is still the one that was loaded.
Unchanged(w) == entry.state = "there" /\ entry.version = txn[w].copy.version

\* payroll_entry.save(update_fields=[payment_status, updated_at]), from PayrollPayment.save
\* and then from the view.  A refusal is an error after the payment has been saved.
Mark(w) ==
    /\ txn[w].pc \in {"mark", "again"}
    /\ \/ /\ Placed(w) /\ Unchanged(w)
          /\ entry' = [entry EXCEPT !.status = "PAID"]
          /\ unmarked' = {}
          /\ Goto(w, IF txn[w].pc = "mark" THEN [txn[w] EXCEPT !.pc = "again"] ELSE Idle)
       \/ /\ ~(Placed(w) /\ Unchanged(w))
          /\ unmarked' = unmarked \cup ({txn[w].pay} \cap PaidIn(payment))
          /\ Goto(w, Idle)
          /\ UNCHANGED entry
    /\ UNCHANGED <<belongs, payment>>

\* What PayrollEntry.save writes: every column, from the request or as loaded.
Written(w) ==
    LET or(v, x) == IF v = None THEN x ELSE v
    IN [state |-> "there", status |-> or(txn[w].status, txn[w].copy.status),
        net |-> or(txn[w].net, txn[w].copy.net), version |-> txn[w].copy.version + 1]

SaveEntry(w) ==
    /\ txn[w].pc = "edit"
    /\ \/ /\ txn[w].op = "create" /\ entry.state = "absent"
          /\ entry' = [state |-> "there", status |-> txn[w].status, net |-> txn[w].net, version |-> 1]
          /\ UNCHANGED unmarked
       \/ /\ txn[w].op = "edit" /\ Unchanged(w)
          /\ entry' = Written(w)
          /\ unmarked' = IF entry.status = "PAID" /\ Written(w).status # "PAID"
                         THEN PaidIn(payment) ELSE unmarked
       \/ /\ IF txn[w].op = "create" THEN entry.state # "absent" ELSE ~Unchanged(w)
          /\ UNCHANGED <<entry, unmarked>>
    /\ Goto(w, Idle)
    /\ UNCHANGED <<belongs, payment>>

-----------------------------------------------------------------------------
\* The deletion of an entry, or of its run, takes the payments along.
DeleteEntry ==
    /\ entry.state = "there"
    /\ entry' = [entry EXCEPT !.state = "gone"]
    /\ payment' = [p \in Payments |-> IF payment[p].state = "there" THEN Row("gone") ELSE payment[p]]
    /\ unmarked' = {}
    /\ UNCHANGED <<belongs, txn>>

DeletePayment(p) ==
    /\ payment[p].state = "there"
    /\ payment' = [payment EXCEPT ![p] = Row("gone")]
    /\ unmarked' = unmarked \ {p}
    /\ UNCHANGED <<entry, belongs, txn>>

\* Personnel moves the employee: Personnel.SaveUpdate.
Transfer == belongs' = ~belongs /\ UNCHANGED <<entry, payment, unmarked, txn>>

\* A statement fails or the process is killed; what was saved stays.
Fail(w) ==
    /\ txn[w] # Idle
    /\ Goto(w, Idle)
    /\ unmarked' = IF txn[w].pc = "mark" /\ entry.status # "PAID"
                   THEN unmarked \cup ({txn[w].pay} \cap PaidIn(payment)) ELSE unmarked
    /\ UNCHANGED <<entry, belongs, payment>>

Begin(w) ==
    \/ \E n \in Nets, s \in Statuses : BeginCreate(w, n, s)
    \/ \E n \in Nets \cup {None}, s \in Statuses \cup {None} : BeginEdit(w, n, s)
    \/ \E p \in Payments, a \in Amounts, s \in Statuses : BeginPay(w, p, a, s) \/ BeginRepay(w, p, a, s)

Next ==
    \/ \E w \in Workers : Begin(w) \/ SavePayment(w) \/ Mark(w) \/ SaveEntry(w) \/ Fail(w)
    \/ \E p \in Payments : DeletePayment(p)
    \/ DeleteEntry
    \/ Transfer

Spec == Init /\ [][Next]_vars

-----------------------------------------------------------------------------
\* The entry, the payments and the requests are typed: no negative amount is stored.
TypeOK ==
    /\ entry \in Entry
    /\ belongs \in BOOLEAN
    /\ payment \in [Payments -> Payment]
    /\ unmarked \in SUBSET Payments
    /\ txn \in [Workers -> Txn]

\* A PAID payment of an entry that is not PAID is one whose mark is still to come, or
\* failed, or was overwritten: nothing else parts the two, though they are saved one
\* after the other in no transaction (PayrollPayment.save, line 162).
PaidPaymentsMark ==
    entry.state = "there" /\ entry.status # "PAID" =>
        \A p \in PaidIn(payment) :
            p \in unmarked \/ \E w \in Workers : txn[w].pc = "mark" /\ txn[w].pay = p

\* An entry is marked PAID only by a payment within the net pay it has at that moment,
\* or of zero, although the amount was compared with the net pay loaded before the
\* payment was saved (PayrollPayment.clean, line 149).
MarkedWithinNet ==
    [][\A w \in Workers :
         /\ txn[w].pc \in {"mark", "again"} /\ txn'[w] # txn[w]
         /\ entry.status # "PAID" /\ entry'.status = "PAID"
         => txn[w].amount = 0 \/ txn[w].amount \in 1..entry.net]_vars

\* A step in which the employee stays, a mark that can be written does not fail, and no
\* edit takes the entry's PAID back.
Undisturbed ==
    /\ belongs' = belongs
    /\ \A w \in Workers : txn[w].pc = "mark" /\ Placed(w) /\ Unchanged(w) => txn'[w].pc # "idle"
    /\ entry.status = "PAID" /\ entry'.state = "there" => entry'.status = "PAID"

\* A PAID payment of an entry that is not PAID is about to mark it: what saving the two in
\* one transaction would give, but for the moment between them (PayrollPayment.save, line 162).
PaidAreMarked ==
    entry.state = "there" /\ entry.status # "PAID" =>
        \A p \in PaidIn(payment) : \E w \in Workers : txn[w].pc = "mark" /\ txn[w].pay = p

=============================================================================
