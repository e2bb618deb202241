---------------------------- MODULE Receivables ----------------------------
(***************************************************************************)
(* Credit sales: SalesService creates, edits and voids the invoice with    *)
(* its receivable and its installments, TreasuryService receives money on  *)
(* it, and both post to the journal after their commit.                    *)
(*                                                                         *)
(* A commit that touches a receivable updates its row first or last, so    *)
(* the receipts and edits of one invoice run one after the other; void is  *)
(* two steps, because it decides on installments it has not locked.        *)
(* Amounts are in cents.  Due dates are left out: the plan numbers the     *)
(* installments by date, and rescheduling keeps that order.  The stock     *)
(* side of a sale is in Inventory.                                         *)
(***************************************************************************)
EXTENDS Integers, Sequences, FiniteSets, Functions

CONSTANTS
  Procs,         \* concurrent requests
  Invoices,
  Terms,         \* totals and credit plans of the invoices
  Payments,      \* amounts allocated by a receipt
  MaxCuotas,     \* bound: installments of a plan
  MaxReceived,   \* bound: money received in all
  Editions       \* terms an edit may set

ASSUME ConstantsAssumption ==
  /\ Invoices # {}
  /\ MaxCuotas \in Nat
  /\ MaxReceived \in Nat
  /\ Payments \subseteq Nat \ {0}
  /\ Terms # {}
  /\ Terms \subseteq [total : Nat, withheld : Nat, down : Nat, cuotas : 0..MaxCuotas]
  /\ Editions \subseteq Terms

VARIABLES
  status,     \* of each invoice, "none" before it is created
  terms,      \* total, withholdings, down payment and installments agreed
  balance,    \* of its receivable
  plan,       \* its installments, in order of number
  received,   \* sum of its receipt allocations
  chosen,     \* invoices with an allocation that names an installment
  entry,      \* what its journal entry debits to the receivable account
  reversed,   \* invoices whose entry is reversed
  collected,  \* of received, what the entries of its receipts credit there
  edited,     \* history: invoices edited after their creation
  req         \* what each request has yet to do

vars == <<status, terms, balance, plan, received, chosen, entry, reversed,
          collected, edited, req>>

sale == <<status, terms, edited>>
owed == <<balance, plan, received, chosen>>
journal == <<entry, reversed, collected>>

-----------------------------------------------------------------------------
NotPosted == -1

Statuses == {"none", "ISSUED", "VOID"}

Installment == [amount : Int, paid : Nat,
                status : {"PENDING", "PARTIALLY_PAID", "PAID", "CANCELED"}]

Stages == {"idle", "post", "insert", "void", "reverse", "receipt"}

Request == [stage   : Stages,
            invoice : Invoices,
            net     : Nat,                   \* what the entry will debit
            paid    : [Invoices -> Nat]]     \* what the receipt allocated

None == [i \in Invoices |-> 0]

Todo(stage, i) == [stage |-> stage, invoice |-> i, net |-> 0, paid |-> None]

Idle == Todo("idle", CHOOSE i \in Invoices : TRUE)

Init ==
  /\ status = [i \in Invoices |-> "none"]
  /\ terms = [i \in Invoices |-> CHOOSE t \in Terms : TRUE]
  /\ balance = None
  /\ plan = [i \in Invoices |-> <<>>]
  /\ received = None
  /\ chosen = {}
  /\ entry = [i \in Invoices |-> NotPosted]
  /\ reversed = {}
  /\ collected = None
  /\ edited = {}
  /\ req = [p \in Procs |-> Idle]

-----------------------------------------------------------------------------
(* Amounts of an invoice. *)

Positive(x) == IF x > 0 THEN x ELSE 0

\* What is financed: the opening balance of the receivable.
Remaining(t) == Positive(t.total - t.down - t.withheld)

MutNet(t) == Positive(t.total - t.withheld - t.down)  \* mutant: as the balance
MutSignedNet(t) == t.total - t.withheld - t.down      \* mutant: and without Math.max
\* What the entry debits: the down payment is booked by its own receipt.
Net(t) == Positive(t.total - t.withheld)

MutSplitEven(total, n) ==     \* mutant: the rounding difference is dropped
  [k \in 1..n |-> (2 * total + n) \div (2 * n)]
\* Parts rounded half up to the cent; the last one takes the difference.
SplitEven(total, n) ==
  LET base == (2 * total + n) \div (2 * n)
  IN  [k \in 1..n |-> IF k < n THEN base ELSE total - (n - 1) * base]

CreditPlan(t) ==
  IF Remaining(t) = 0 \/ t.cuotas = 0 THEN <<>>
  ELSE [k \in 1..t.cuotas |-> [amount |-> SplitEven(Remaining(t), t.cuotas)[k],
                               paid   |-> 0,
                               status |-> "PENDING"]]

-----------------------------------------------------------------------------
(* Invoices. *)

Create(p) ==
  /\ req[p].stage = "idle"
  /\ \E i \in Invoices, t \in Terms :
       /\ status[i] = "none"
       /\ status' = [status EXCEPT ![i] = "ISSUED"]
       /\ terms' = [terms EXCEPT ![i] = t]
       /\ balance' = [balance EXCEPT ![i] = Remaining(t)]
       /\ plan' = [plan EXCEPT ![i] = CreditPlan(t)]
       /\ req' = [req EXCEPT ![p] = Todo("post", i)]
  /\ UNCHANGED <<received, chosen, edited, journal>>

\* The balance and the plan start again, whatever was received before; the
\* allocations of the deleted installments name none any more.
Edit(p) ==
  /\ req[p].stage = "idle"
  /\ \E i \in Invoices, t \in Editions :
       /\ status[i] # "none"
       /\ terms' = [terms EXCEPT ![i] = t]
       /\ balance' = [balance EXCEPT ![i] = Remaining(t)]
       /\ plan' = [plan EXCEPT ![i] = CreditPlan(t)]
       /\ chosen' = chosen \ {i}
       /\ edited' = edited \union {i}
  /\ UNCHANGED <<status, received, journal, req>>

HasPaid(pl) == \E k \in DOMAIN pl : \/ pl[k].status \in {"PAID", "PARTIALLY_PAID"}
                                    \/ pl[k].paid > 0

StartVoid(p) ==
  /\ req[p].stage = "idle"
  /\ \E i \in Invoices :
       /\ status[i] = "ISSUED"
       /\ ~HasPaid(plan[i])
       /\ req' = [req EXCEPT ![p] = Todo("void", i)]
  /\ UNCHANGED <<sale, owed, journal>>

Canceled(pl) == [k \in DOMAIN pl |-> [pl[k] EXCEPT !.status = "CANCELED"]]

CommitVoid(p) ==
  /\ req[p].stage = "void"
  /\ LET i == req[p].invoice IN
       /\ status' = [status EXCEPT ![i] = "VOID"]
       /\ balance' = [balance EXCEPT ![i] = 0]
       /\ plan' = [plan EXCEPT ![i] = Canceled(@)]
       /\ req' = [req EXCEPT ![p] = Todo("reverse", i)]
  /\ UNCHANGED <<terms, edited, received, chosen, journal>>

-----------------------------------------------------------------------------
(* Receipts. *)

Pending(c) == c.amount - c.paid

MutPayable(c) == c.status = "PENDING" /\ Pending(c) > 0   \* mutant
Payable(c) == c.status \in {"PENDING", "PARTIALLY_PAID"} /\ Pending(c) > 0

Pay(c, rest) ==
  IF ~Payable(c) THEN 0 ELSE IF rest < Pending(c) THEN rest ELSE Pending(c)

MutPaid(c, pay) ==     \* mutant: PAID as soon as something is paid
  [c EXCEPT !.paid = @ + pay, !.status = "PAID"]
Paid(c, pay) ==
  [c EXCEPT !.paid = @ + pay,
            !.status = IF pay = Pending(c) THEN "PAID" ELSE "PARTIALLY_PAID"]

\* What is left of amount a after each installment, oldest first.
Rests(pl, a) ==
  {rest \in [0..Len(pl) -> 0..a] :
     /\ rest[0] = a
     /\ \A k \in 1..Len(pl) : rest[k] = rest[k - 1] - Pay(pl[k], rest[k - 1])}

\* The plan after allocateAgainstPendingInstallments: one element.
PaidOldest(pl, a) ==
  {[k \in DOMAIN pl |-> IF rest[k] = rest[k - 1] THEN pl[k]
                        ELSE Paid(pl[k], rest[k - 1] - rest[k])] :
     rest \in Rests(pl, a)}

\* The plan after an allocation that names installment k.
PaidInto(pl, k, a) ==
  LET paid == pl[k].paid + a
  IN  [pl EXCEPT ![k] = [amount |-> @.amount,
                         paid   |-> paid,
                         status |-> IF paid >= @.amount THEN "PAID"
                                    ELSE "PARTIALLY_PAID"]]

Outcomes(pl, a, k) == IF k = 0 THEN PaidOldest(pl, a) ELSE {PaidInto(pl, k, a)}

MutLowered(i, a) == Positive(balance[i] - a)     \* mutant: never below zero
Lowered(i, a) == balance[i] - a

\* One receipt allocates amounts to several invoices; where it names an
\* installment (inst # 0) the money goes to that one, whatever it still owes.
Receipt(p) ==
  /\ req[p].stage = "idle"
  /\ \E amount \in [Invoices -> Payments \union {0}], inst \in [Invoices -> 0..MaxCuotas] :
       /\ \E i \in Invoices : amount[i] > 0
       /\ SumFunction([i \in Invoices |-> received[i] + amount[i]]) <= MaxReceived
       /\ \A i \in Invoices :
            /\ amount[i] > 0 => status[i] # "none"
            /\ inst[i] <= Len(plan[i])
            /\ amount[i] = 0 => inst[i] = 0
       /\ LET after(i) == Outcomes(plan[i], amount[i], inst[i]) IN
          \E new \in [Invoices -> UNION {after(i) : i \in Invoices}] :
             /\ \A i \in Invoices : new[i] \in after(i)
             /\ plan' = new
       /\ balance' = [i \in Invoices |-> Lowered(i, amount[i])]
       /\ received' = [i \in Invoices |-> received[i] + amount[i]]
       /\ chosen' = chosen \union {i \in Invoices : inst[i] # 0}
       /\ req' = [req EXCEPT ![p] = [Todo("receipt", @.invoice) EXCEPT !.paid = amount]]
  /\ UNCHANGED <<sale, journal>>

-----------------------------------------------------------------------------
(* Postings, after the commit of the document. *)

\* The status and the amounts are read outside the transaction that inserts.
ReadInvoice(p) ==
  /\ req[p].stage = "post"
  /\ LET i == req[p].invoice IN
       req' = [req EXCEPT ![p] = IF status[i] = "ISSUED"
                                 THEN [Todo("insert", i) EXCEPT !.net = Net(terms[i])]
                                 ELSE Idle]
  /\ UNCHANGED <<sale, owed, journal>>

\* An entry that exists already is returned as it is.
InsertInvoice(p) ==
  /\ req[p].stage = "insert"
  /\ LET i == req[p].invoice IN
       entry' = [entry EXCEPT ![i] = IF @ = NotPosted THEN req[p].net ELSE @]
  /\ req' = [req EXCEPT ![p] = Idle]
  /\ UNCHANGED <<sale, owed, reversed, collected>>

PostReceipt(p) ==
  /\ req[p].stage = "receipt"
  /\ collected' = [i \in Invoices |-> collected[i] + req[p].paid[i]]
  /\ req' = [req EXCEPT ![p] = Idle]
  /\ UNCHANGED <<sale, owed, entry, reversed>>

\* Fails without an entry to reverse, after the void has committed.
Reverse(p) ==
  /\ req[p].stage = "reverse"
  /\ LET i == req[p].invoice IN
       reversed' = IF entry[i] = NotPosted THEN reversed ELSE reversed \union {i}
  /\ req' = [req EXCEPT ![p] = Idle]
  /\ UNCHANGED <<sale, owed, entry, collected>>

\* The postSalesInvoice route tries again for an invoice.
PostAgain(p) ==
  /\ req[p].stage = "idle"
  /\ \E i \in Invoices : /\ status[i] # "none"
                         /\ req' = [req EXCEPT ![p] = Todo("post", i)]
  /\ UNCHANGED <<sale, owed, journal>>

\* A closed period, an unresolved account, a deadlock or a crash.
Lose(p) ==
  /\ req[p].stage # "idle"
  /\ req' = [req EXCEPT ![p] = Idle]
  /\ UNCHANGED <<sale, owed, journal>>

Next ==
  \E p \in Procs :
    \/ Create(p) \/ Edit(p) \/ StartVoid(p) \/ CommitVoid(p)
    \/ Receipt(p)
    \/ ReadInvoice(p) \/ InsertInvoice(p) \/ PostReceipt(p) \/ Reverse(p)
    \/ PostAgain(p) \/ Lose(p)

Spec == Init /\ [][Next]_vars

-----------------------------------------------------------------------------
(* Properties. *)

TypeOK ==
  /\ status \in [Invoices -> Statuses]
  /\ terms \in [Invoices -> Terms]
  /\ balance \in [Invoices -> Int]
  /\ plan \in [Invoices -> Seq(Installment)]
  /\ \A i \in Invoices : Len(plan[i]) <= MaxCuotas
  /\ received \in [Invoices -> Nat]
  /\ chosen \subseteq Invoices
  /\ entry \in [Invoices -> Nat \union {NotPosted}]
  /\ reversed \subseteq Invoices
  /\ collected \in [Invoices -> Nat]
  /\ edited \subseteq Invoices
  /\ req \in [Procs -> Request]

\* However receipts, voids and postings interleave, the balance of an invoice
\* that stands and was never edited is what was financed less every allocation
\* made to it (createReceipt decrements; create and update write it whole).
BalanceIsUnpaid ==
  \A i \in Invoices \ edited :
    status[i] = "ISSUED" => balance[i] = Remaining(terms[i]) - received[i]

Owes(pl) == SumFunction([k \in DOMAIN pl |-> Pending(pl[k])])

\* The installments of an invoice that stands owe together what its receivable
\* owes; they owe more only when a receipt found nothing more to pay, and then
\* no installment owes anything (allocateAgainstPendingInstallments drops the
\* rest of the money).
PlanFollowsBalance ==
  \A i \in Invoices :
    status[i] = "ISSUED" /\ plan[i] # <<>> =>
      \/ Owes(plan[i]) = balance[i]
      \/ Owes(plan[i]) > balance[i] /\ \A k \in DOMAIN plan[i] : ~Payable(plan[i][k])

Tells(c) ==
  /\ c.status = "PAID" => c.paid >= c.amount /\ c.paid > 0
  /\ c.status = "PARTIALLY_PAID" => 0 < c.paid /\ c.paid < c.amount
  /\ c.status = "PENDING" => c.paid = 0

\* The status of an installment tells how much of it is paid, whichever of the
\* two ways of allocating money wrote it.
StatusTells == \A i \in Invoices : \A k \in DOMAIN plan[i] : Tells(plan[i][k])

InOrder(pl) ==
  \A k \in 1..(Len(pl) - 1) : pl[k + 1].paid > 0 => Pending(pl[k]) <= 0

\* Money that names no installment goes to the oldest: none is paid while the
\* one before it owes.
OldestFirst == \A i \in Invoices \ chosen : InOrder(plan[i])

\* Once an invoice that stands and all its receipts are posted, the receivable
\* account of the journal carries its balance and the down payment that the
\* balance left out when it was opened (postSalesInvoice debits the net,
\* postCashReceipt credits the receipts); nothing reverses its entry.
SubledgerAgrees ==
  \A i \in Invoices \ edited :
    LET t == terms[i]
        deducted == Positive(t.total - t.withheld) - Remaining(t)
    IN  status[i] = "ISSUED" /\ entry[i] # NotPosted /\ collected[i] = received[i] =>
          /\ entry[i] - collected[i] = balance[i] + deducted
          /\ i \notin reversed

\* "No se puede anular: existen pagos registrados".
VoidHasNoPayments ==
  [][\A i \in Invoices :
       status[i] = "ISSUED" /\ status'[i] = "VOID" => received[i] = 0]_vars
=============================================================================
