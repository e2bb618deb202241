----------------------------- MODULE Purchases -----------------------------
(***************************************************************************)
(* Purchases: PurchasesService creates an invoice with its payable, its    *)
(* installments and its stock layers, and voids it; TreasuryService pays   *)
(* it; both post to the journal after their commit.  Outputs of stock      *)
(* consume the layers meanwhile.                                           *)
(*                                                                         *)
(* A void decides on payments and layers it has not locked.  What stands   *)
(* between it and a commit it has not seen is the database: the foreign    *)
(* key of a consumption keeps its layer, and a payable that is gone fails  *)
(* the update of who pays it.  Amounts are in cents.                       *)
(***************************************************************************)
EXTENDS Integers, Sequences, FiniteSets, Functions

CONSTANTS
  Procs,       \* concurrent requests
  Invoices,
  Lines,       \* lines of an invoice with stock; each brings a layer
  Terms,       \* totals, withholdings, plans and units of the invoices
  Payments,    \* amounts allocated by a payment
  MaxCuotas,   \* bound: installments of a plan
  MaxPaid      \* bound: money paid in all

ASSUME ConstantsAssumption ==
  /\ Invoices # {}
  /\ Lines # {}
  /\ MaxCuotas \in Nat
  /\ MaxPaid \in Nat
  /\ Payments \subseteq Nat \ {0}
  /\ Terms # {}
  /\ Terms \subseteq [total : Nat, withheld : Nat, cash : BOOLEAN,
                      cuotas : 0..MaxCuotas, units : Nat]

VARIABLES
  status,    \* of each invoice, "none" before it is created
  terms,     \* what was agreed
  owing,     \* invoices that have a payable
  balance,   \* of the payable
  plan,      \* its installments, in order of number
  paid,      \* sum of the payment allocations of the invoice
  named,     \* of paid, what names an installment of the plan
  stocked,   \* invoices whose layers exist
  left,      \* what is left in each layer
  drawn,     \* sum of the consumptions of each layer
  entry,     \* what its journal entry credits to the payable account
  reversed,  \* invoices whose entry is reversed
  settled,   \* of paid, what the entries of its payments debit there
  crossed,   \* history: paid while a void had read it and not yet committed
  req        \* what each request has yet to do

vars == <<status, terms, owing, balance, plan, paid, named, stocked, left, drawn,
          entry, reversed, settled, crossed, req>>

payable == <<owing, balance, plan, paid, named, crossed>>
stock == <<stocked, left, drawn>>
journal == <<entry, reversed, settled>>

-----------------------------------------------------------------------------
NotPosted == -1

Installment == [amount : Int, paid : Nat, status : {"PENDING", "PARTIALLY_PAID", "PAID"}]

Stages == {"idle", "post", "insert", "void", "reverse", "payment", "output"}

Request == [stage   : Stages,
            invoice : Invoices,
            net     : Nat,                 \* what the entry will credit
            line    : Lines,               \* the layer an output draws on
            seen    : Int,                 \* what that layer had
            alloc   : [Invoices -> Nat]]   \* what the payment allocated

None == [i \in Invoices |-> 0]
Empty == [l \in Lines |-> 0]

Todo(stage, i) ==
  [stage |-> stage, invoice |-> i, net |-> 0, line |-> CHOOSE l \in Lines : TRUE,
   seen |-> 0, alloc |-> None]

Idle == Todo("idle", CHOOSE i \in Invoices : TRUE)

Init ==
  /\ status = [i \in Invoices |-> "none"]
  /\ terms = [i \in Invoices |-> CHOOSE t \in Terms : TRUE]
  /\ owing = {}
  /\ balance = None
  /\ plan = [i \in Invoices |-> <<>>]
  /\ paid = None
  /\ named = None
  /\ stocked = {}
  /\ left = [i \in Invoices |-> Empty]
  /\ drawn = [i \in Invoices |-> Empty]
  /\ entry = [i \in Invoices |-> NotPosted]
  /\ reversed = {}
  /\ settled = None
  /\ crossed = {}
  /\ req = [p \in Procs |-> Idle]

-----------------------------------------------------------------------------
(* Invoices. *)

Positive(x) == IF x > 0 THEN x ELSE 0

\* What the entry credits; a cash purchase credits the treasury instead.
MutNet(t) == IF t.cash THEN 0 ELSE t.total    \* mutant: withholdings forgotten
Net(t) == IF t.cash THEN 0 ELSE Positive(t.total - t.withheld)

\* Parts rounded half up to the cent; the last one takes the difference.
SplitEven(total, n) ==
  LET base == (2 * total + n) \div (2 * n)
  IN  [k \in 1..n |-> IF k < n THEN base ELSE total - (n - 1) * base]

CreditPlan(t) ==
  IF t.cash \/ t.cuotas = 0 THEN <<>>
  ELSE [k \in 1..t.cuotas |-> [amount |-> SplitEven(t.total, t.cuotas)[k],
                               paid |-> 0, status |-> "PENDING"]]

\* One transaction; balance and plan are of the total, withholdings included,
\* although the entry will credit the net.
Issue(p, i, t) ==
  /\ req[p].stage = "idle"
  /\ status[i] = "none"
  /\ status' = [status EXCEPT ![i] = "ISSUED"]
  /\ terms' = [terms EXCEPT ![i] = t]
  /\ owing' = IF t.cash THEN owing ELSE owing \union {i}
  /\ balance' = [balance EXCEPT ![i] = IF t.cash THEN 0 ELSE t.total]
  /\ plan' = [plan EXCEPT ![i] = CreditPlan(t)]
  /\ req' = [req EXCEPT ![p] = Todo("post", i)]
  /\ UNCHANGED <<paid, named, crossed, drawn, journal>>

Create(p) ==
  \E i \in Invoices, t \in {t \in Terms : t.units = 0} :
    /\ Issue(p, i, t)
    /\ UNCHANGED <<stocked, left>>

CreateWithStock(p) ==
  \E i \in Invoices, t \in {t \in Terms : t.units > 0} :
    /\ Issue(p, i, t)
    /\ stocked' = stocked \union {i}
    /\ left' = [left EXCEPT ![i] = [l \in Lines |-> t.units]]

MutVoidable(i) ==            \* mutant: looks at the stock alone
  /\ status[i] = "ISSUED"
  /\ i \in stocked => \A l \in Lines : left[i][l] >= terms[i].units
Voidable(i) ==
  /\ status[i] = "ISSUED"
  /\ paid[i] = 0
  /\ i \in owing => balance[i] >= terms[i].total
  /\ i \in stocked => \A l \in Lines : left[i][l] >= terms[i].units

StartVoid(p) ==
  /\ req[p].stage = "idle"
  /\ \E i \in Invoices : /\ Voidable(i)
                         /\ req' = [req EXCEPT ![p] = Todo("void", i)]
  /\ UNCHANGED <<status, terms, payable, stock, journal>>

\* The foreign keys let the layers go: no consumption refers to one of them.
MutDeletable(i) == TRUE      \* mutant: a schema without the foreign key
Deletable(i) == i \in stocked => drawn[i] = Empty

\* Layers, installments and payable are deleted; a payable that another void
\* has deleted already fails this one.
CommitVoid(p) ==
  /\ req[p].stage = "void"
  /\ LET i == req[p].invoice IN
       /\ Deletable(i)
       /\ ~terms[i].cash => i \in owing
       /\ status' = [status EXCEPT ![i] = "VOID"]
       /\ owing' = owing \ {i}
       /\ plan' = [plan EXCEPT ![i] = <<>>]
       /\ stocked' = stocked \ {i}
       /\ req' = [req EXCEPT ![p] = Todo("reverse", i)]
  /\ UNCHANGED <<terms, balance, paid, named, crossed, left, drawn, journal>>

-----------------------------------------------------------------------------
(* Outputs of stock, each on one layer: consumeLayers. *)

ReadLayer(p) ==
  /\ req[p].stage = "idle"
  /\ \E i \in stocked, l \in Lines :
       /\ left[i][l] > 0
       /\ req' = [req EXCEPT ![p] = [Todo("output", i) EXCEPT !.line = l, !.seen = left[i][l]]]
  /\ UNCHANGED <<status, terms, payable, stock, journal>>

\* A layer deleted meanwhile fails the update.
Consume(p) ==
  /\ req[p].stage = "output"
  /\ req[p].invoice \in stocked
  /\ LET i == req[p].invoice
         l == req[p].line
     IN  /\ left' = [left EXCEPT ![i][l] = req[p].seen - 1]
         /\ drawn' = [drawn EXCEPT ![i][l] = @ + 1]
  /\ req' = [req EXCEPT ![p] = Idle]
  /\ UNCHANGED <<status, terms, payable, stocked, journal>>

-----------------------------------------------------------------------------
(* Payments. *)

MutPaidInto(pl, k, a) ==     \* mutant: PAID as soon as something is paid
  [pl EXCEPT ![k] = [amount |-> @.amount, paid |-> @.paid + a, status |-> "PAID"]]
\* The plan after an allocation to installment k; one that names none (k = 0)
\* leaves the plan as it is, unlike a receipt.
PaidInto(pl, k, a) ==
  IF k = 0 THEN pl
  ELSE LET sum == pl[k].paid + a
       IN  [pl EXCEPT ![k] = [amount |-> @.amount,
                              paid   |-> sum,
                              status |-> IF sum >= @.amount THEN "PAID"
                                         ELSE "PARTIALLY_PAID"]]

\* Allocations to cash purchases are dropped.
Applied(amount) ==
  [i \in Invoices |-> IF status[i] # "none" /\ terms[i].cash THEN 0 ELSE amount[i]]

\* A payment whose allocations all went to cash purchases is not created.
Payment(p) ==
  /\ req[p].stage = "idle"
  /\ \E asked \in [Invoices -> Payments \union {0}], inst \in [Invoices -> 0..MaxCuotas] :
       LET amount == Applied(asked) IN
       /\ \E i \in Invoices : amount[i] > 0
       /\ SumFunction([i \in Invoices |-> paid[i] + amount[i]]) <= MaxPaid
       /\ \A i \in Invoices :
            /\ asked[i] > 0 => status[i] # "none"
            /\ amount[i] > 0 => i \in owing
            /\ inst[i] <= IF amount[i] = 0 THEN 0 ELSE Len(plan[i])
       /\ paid' = [i \in Invoices |-> paid[i] + amount[i]]
       /\ named' = [i \in Invoices |-> named[i] + IF inst[i] = 0 THEN 0 ELSE amount[i]]
       /\ balance' = [i \in Invoices |-> balance[i] - amount[i]]
       /\ plan' = [i \in Invoices |-> PaidInto(plan[i], inst[i], amount[i])]
       /\ crossed' = crossed \union
            {i \in Invoices : /\ amount[i] > 0
                              /\ \E q \in Procs : req[q].stage = "void" /\ req[q].invoice = i}
       /\ req' = [req EXCEPT ![p] = [Todo("payment", @.invoice) EXCEPT !.alloc = amount]]
  /\ UNCHANGED <<status, terms, owing, stock, journal>>

-----------------------------------------------------------------------------
(* Postings, after the commit of the document; nothing tries them again. *)

ReadInvoice(p) ==
  /\ req[p].stage = "post"
  /\ LET i == req[p].invoice IN
       req' = [req EXCEPT ![p] = IF status[i] = "ISSUED"
                                 THEN [Todo("insert", i) EXCEPT !.net = Net(terms[i])]
                                 ELSE Idle]
  /\ UNCHANGED <<status, terms, payable, stock, journal>>

InsertInvoice(p) ==
  /\ req[p].stage = "insert"
  /\ entry' = [entry EXCEPT ![req[p].invoice] = IF @ = NotPosted THEN req[p].net ELSE @]
  /\ req' = [req EXCEPT ![p] = Idle]
  /\ UNCHANGED <<status, terms, payable, stock, reversed, settled>>

PostPayment(p) ==
  /\ req[p].stage = "payment"
  /\ settled' = [i \in Invoices |-> settled[i] + req[p].alloc[i]]
  /\ req' = [req EXCEPT ![p] = Idle]
  /\ UNCHANGED <<status, terms, payable, stock, entry, reversed>>

\* Fails without an entry to reverse, after the void has committed.
Reverse(p) ==
  /\ req[p].stage = "reverse"
  /\ LET i == req[p].invoice IN
       reversed' = IF entry[i] = NotPosted THEN reversed ELSE reversed \union {i}
  /\ req' = [req EXCEPT ![p] = Idle]
  /\ UNCHANGED <<status, terms, payable, stock, entry, settled>>

\* A refusal of the database, a closed period, a deadlock or a crash.
Lose(p) ==
  /\ req[p].stage # "idle"
  /\ req' = [req EXCEPT ![p] = Idle]
  /\ UNCHANGED <<status, terms, payable, stock, journal>>

Next ==
  \E p \in Procs :
    \/ Create(p) \/ CreateWithStock(p) \/ StartVoid(p) \/ CommitVoid(p)
    \/ ReadLayer(p) \/ Consume(p)
    \/ Payment(p)
    \/ ReadInvoice(p) \/ InsertInvoice(p) \/ PostPayment(p) \/ Reverse(p)
    \/ Lose(p)

Spec == Init /\ [][Next]_vars

-----------------------------------------------------------------------------
(* Properties. *)

TypeOK ==
  /\ status \in [Invoices -> {"none", "ISSUED", "VOID"}]
  /\ terms \in [Invoices -> Terms]
  /\ owing \subseteq Invoices
  /\ balance \in [Invoices -> Int]
  /\ plan \in [Invoices -> Seq(Installment)]
  /\ \A i \in Invoices : Len(plan[i]) <= MaxCuotas
  /\ paid \in [Invoices -> Nat]
  /\ named \in [Invoices -> Nat]
  /\ stocked \subseteq Invoices
  /\ left \in [Invoices -> [Lines -> Int]]
  /\ drawn \in [Invoices -> [Lines -> Nat]]
  /\ entry \in [Invoices -> Nat \union {NotPosted}]
  /\ reversed \subseteq Invoices
  /\ settled \in [Invoices -> Nat]
  /\ crossed \subseteq Invoices
  /\ req \in [Procs -> Request]

Smaller(x, y) == IF x < y THEN x ELSE y

\* However payments, voids and postings interleave, once an invoice that stands
\* and all its payments are posted the payable account of the journal carries
\* the balance of its payable less what was withheld from the vendor
\* (postPurchaseInvoice credits the net, the payable was opened with the total).
PayableAgrees ==
  \A i \in owing :
    /\ balance[i] = terms[i].total - paid[i]
    /\ entry[i] # NotPosted /\ settled[i] = paid[i] =>
         /\ entry[i] - settled[i] =
              balance[i] - Smaller(terms[i].withheld, terms[i].total)
         /\ i \notin reversed

Tells(c) ==
  /\ c.status = "PAID" => c.paid >= c.amount /\ c.paid > 0
  /\ c.status = "PARTIALLY_PAID" => 0 < c.paid /\ c.paid < c.amount
  /\ c.status = "PENDING" => c.paid = 0

AmountOf(pl) == SumFunction([k \in DOMAIN pl |-> pl[k].amount])
PaidOf(pl) == SumFunction([k \in DOMAIN pl |-> pl[k].paid])

\* The installments of a payable are parts of its opening balance and account
\* for all the money that named one of them, and each status tells how much.
PlanAccounts ==
  \A i \in owing :
    /\ \A k \in DOMAIN plan[i] : Tells(plan[i][k])
    /\ plan[i] # <<>> =>
         /\ AmountOf(plan[i]) = terms[i].total
         /\ PaidOf(plan[i]) = named[i]

\* "No se puede anular: la compra tiene pagos aplicados": a void purchase has
\* been paid only if the payment committed between the check and the commit of
\* the void; none is paid after it, and a cash purchase is never paid again.
VoidIsUnpaid ==
  \A i \in Invoices :
    /\ status[i] = "VOID" /\ paid[i] > 0 => i \in crossed
    /\ terms[i].cash => paid[i] = 0

\* "No se puede anular: parte del stock ya fue consumida": whatever the void
\* read, what was consumed of a purchase is of layers that still exist.
ConsumedLayersStay ==
  \A i \in Invoices : drawn[i] # Empty => i \in stocked /\ status[i] = "ISSUED"
=============================================================================
