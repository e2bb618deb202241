---------------------------- MODULE CounterSale ----------------------------
(***************************************************************************)
(* A sale at the counter, from the shelf to the drawer: SalesService plans *)
(* what to take of the prepared stock and what to make from ingredients,   *)
(* commits the invoice with its moves, posts it, checks the payments and   *)
(* has TreasuryService make a receipt of each; a receipt in cash goes to   *)
(* the open session of the cashier, which PosService opens, moves and      *)
(* closes.                                                                 *)
(*                                                                         *)
(* One request is many commits, and whatever stops it leaves the earlier   *)
(* ones.  One product with a recipe of one ingredient in one warehouse,    *)
(* one cashier with several registers.  Amounts are whole units of money.  *)
(***************************************************************************)
EXTENDS Integers, Sequences, FiniteSetsExt

CONSTANTS
  Procs,       \* concurrent requests
  Sessions,    \* cash sessions that may be opened
  Registers,   \* cash registers, all active
  Carts,       \* what is sold and how it is paid
  PerUnit,     \* ingredient in a unit of the product, by its recipe
  Raw,         \* ingredient in stock at the start
  Given,       \* bound: numbers an invoice without stock may get
  Moves,       \* signed manual movements of the drawer
  MaxNumber,   \* bound: invoices
  MaxSales,    \* bound: sales with stock
  MaxSupply,   \* bound: product prepared in all
  MaxMoves     \* bound: manual movements

Method == {"cash", "bank"}
Payment == [by : Method, amount : Nat \ {0}]

ASSUME ConstantsAssumption ==
  /\ PerUnit \in Nat \ {0}
  /\ Raw \in Nat /\ MaxNumber \in Nat /\ MaxSales \in Nat /\ MaxSupply \in Nat /\ MaxMoves \in Nat
  /\ Moves \subseteq Int
  /\ Carts # {} /\ Registers # {} /\ Sessions # {} /\ IsFiniteSet(Procs)
  /\ \A c \in Carts :
       /\ c.lines \in Nat \ {0} /\ c.units \in Nat \ {0}
       /\ c.total \in Nat /\ c.withheld \in Nat /\ c.credit \in BOOLEAN
       /\ c.pays \in Seq(Payment)

VARIABLES
  prepared,  \* product left in the stock layers
  supplied,  \* product that ever entered them
  raw,       \* ingredient left in its layers
  invoice,   \* by number; given (history): it was not the greatest plus one
  posted,    \* what the entry of an invoice debits to each treasury account
  receipts,  \* receipts of an invoice, by method
  failed,    \* history: numbers of the invoices whose request was cut short
  session,   \* status, register and expected close of each cash session
  drawer,    \* signed sum of its movements
  moves,     \* how many manual ones there are
  stray,     \* history: movements whose request never adjusted the session
  raced,     \* history: registers on which two openings overlapped
  req        \* what each request has yet to do

vars == <<prepared, supplied, raw, invoice, posted, receipts, failed,
          session, drawer, moves, stray, raced, req>>

stock == <<prepared, supplied, raw>>
sale == <<invoice, posted, receipts, failed>>
till == <<session, drawer, moves, stray, raced>>

-----------------------------------------------------------------------------
Numbers == 1..MaxNumber
Smaller(x, y) == IF x < y THEN x ELSE y
Positive(x) == IF x > 0 THEN x ELSE 0
SomeCart == CHOOSE c \in Carts : TRUE
SomeSession == CHOOSE s \in Sessions : TRUE
SomeRegister == CHOOSE r \in Registers : TRUE

NoInvoice == [status |-> "none", cart |-> SomeCart, took |-> 0, made |-> 0,
              given |-> FALSE]
NotPosted == -1
Nothing == [m \in Method |-> 0]

Idle == [stage |-> "idle", cart |-> SomeCart, take |-> 0, seen |-> 0, since |-> 0,
         number |-> 0, due |-> <<>>, session |-> SomeSession, register |-> SomeRegister,
         amount |-> 0]

Init ==
  /\ prepared = 0
  /\ supplied = 0
  /\ raw = Raw
  /\ invoice = [n \in Numbers |-> NoInvoice]
  /\ posted = [n \in Numbers |-> [m \in Method |-> NotPosted]]
  /\ receipts = [n \in Numbers |-> Nothing]
  /\ failed = {}
  /\ session = [s \in Sessions |-> [status |-> "none", register |-> SomeRegister,
                                    opening |-> 0, expected |-> 0]]
  /\ drawer = [s \in Sessions |-> 0]
  /\ moves = 0
  /\ stray = [s \in Sessions |-> 0]
  /\ raced = {}
  /\ req = [p \in Procs |-> Idle]

At(p, stage) == req[p].stage = stage
Go(p, r) == req' = [req EXCEPT ![p] = r]

-----------------------------------------------------------------------------
(* The stock and the invoice. *)

\* Production puts a unit of the product in a layer of its own.
Supply ==
  /\ supplied < MaxSupply
  /\ supplied' = supplied + 1
  /\ prepared' = prepared + 1
  /\ UNCHANGED <<raw, sale, till, req>>

Sold(c) == c.lines * c.units

\* Before the transaction: what prepared stock covers of all the lines together.
Plan(p) ==
  /\ At(p, "idle")
  /\ \E c \in Carts :
       Go(p, [Idle EXCEPT !.stage = "planned", !.cart = c,
                          !.take = Smaller(prepared, Sold(c))])
  /\ UNCHANGED <<stock, sale, till>>

StockSales == {n \in Numbers : invoice[n].status = "ISSUED"}
Used == {n \in Numbers : invoice[n].status # "none"}
LastNumber == IF Used = {} THEN 0 ELSE Max(Used)

MutNumberIsFree(n) == TRUE      \* mutant: no unique index on the number
NumberIsFree(n) == invoice[n].status = "none"

\* The transaction reads the greatest number first, and then the layers.
Begin(p) ==
  /\ At(p, "planned")
  /\ LastNumber < MaxNumber /\ Cardinality(StockSales) < MaxSales
  /\ Go(p, [req[p] EXCEPT !.stage = "selling", !.number = LastNumber + 1,
                          !.seen = prepared, !.since = supplied])
  /\ UNCHANGED <<stock, sale, till>>

\* The plain create, in one transaction: an invoice that takes no stock, under a
\* number it is given or has drawn.  Its entry and receipts are not followed.
Issue ==
  /\ \E n \in Given \intersect Numbers :
       /\ NumberIsFree(n)
       /\ invoice' = [invoice EXCEPT ![n].status = "OTHER", ![n].given = n # LastNumber + 1]
  /\ UNCHANGED <<stock, posted, receipts, failed, till, req>>

\* Each line of the product takes what all of them were to take.
Taken(r) == r.cart.lines * r.take

\* What is not taken is made: the recipe is exploded for the rest.
Made(r) == (Sold(r.cart) - r.take) * PerUnit

\* The layers seen get what is left of them; the unique index refuses a number
\* that another sale has committed meanwhile.  Ingredients may run short.
CommitSale(p) ==
  /\ At(p, "selling")
  /\ NumberIsFree(req[p].number)
  /\ Taken(req[p]) <= req[p].seen
  /\ prepared' = req[p].seen - Taken(req[p]) + (supplied - req[p].since)
  /\ raw' = Positive(raw - Made(req[p]))
  /\ invoice' = [invoice EXCEPT ![req[p].number] =
                   [status |-> "ISSUED", cart |-> req[p].cart,
                    took |-> Taken(req[p]), made |-> Made(req[p]), given |-> FALSE]]
  /\ Go(p, [Idle EXCEPT !.stage = "post", !.number = req[p].number])
  /\ UNCHANGED <<supplied, posted, receipts, failed, till>>

-----------------------------------------------------------------------------
(* The entry, the payments and their receipts. *)

CartOf(p) == invoice[req[p].number].cart
By(pays, m) == SumFunction([k \in DOMAIN pays |-> IF pays[k].by = m THEN pays[k].amount ELSE 0])
Sum(pays) == By(pays, "cash") + By(pays, "bank")
Net(c) == Positive(c.total - c.withheld)

MutDebited(c) ==                                 \* mutant: payments not split
  [m \in Method |-> IF m = "cash" THEN Net(c) ELSE 0]
\* postCashSale debits each payment to its account and what is missing to cash.
Debited(c) ==
  [m \in Method |-> By(c.pays, m) + IF m = "cash" THEN Net(c) - Sum(c.pays) ELSE 0]

\* More than the net is refused, and the request ends without an entry.
PostSale(p) ==
  /\ At(p, "post")
  /\ LET c == CartOf(p) IN
       /\ ~c.credit => Sum(c.pays) <= Net(c)
       /\ posted' = [posted EXCEPT ![req[p].number] = IF c.credit THEN Nothing ELSE Debited(c)]
  /\ Go(p, [req[p] EXCEPT !.stage = "check"])
  /\ UNCHANGED <<stock, invoice, receipts, failed, till>>

\* The withholdings of an invoice are never written to its withholdingTotal, so
\* a sale in cash is expected to be paid in full.
Expected(c) == c.total
Accepted(c) ==
  \/ c.pays = <<>>
  \/ c.credit /\ Sum(c.pays) <= c.total
  \/ ~c.credit /\ Sum(c.pays) = Expected(c)

\* The entry and the moves are committed by now, whatever the check says.
CheckPayments(p) ==
  /\ At(p, "check")
  /\ LET n == req[p].number IN
       \/ /\ Accepted(CartOf(p))
          /\ Go(p, [req[p] EXCEPT !.stage = "pay", !.due = CartOf(p).pays])
          /\ UNCHANGED failed
       \/ /\ ~Accepted(CartOf(p))
          /\ failed' = failed \union {n}
          /\ Go(p, Idle)
  /\ UNCHANGED <<stock, invoice, posted, receipts, till>>

\* createReceipt, then its hook if the method is cash.
Receive(p) ==
  /\ At(p, "pay")
  /\ IF req[p].due = <<>>
     THEN /\ Go(p, Idle)
          /\ UNCHANGED receipts
     ELSE LET pay == Head(req[p].due) IN
          /\ receipts' = [receipts EXCEPT ![req[p].number][pay.by] = @ + pay.amount]
          /\ Go(p, [req[p] EXCEPT !.stage = IF pay.by = "cash" THEN "hook" ELSE "pay",
                                  !.amount = pay.amount, !.due = Tail(@)])
  /\ UNCHANGED <<stock, invoice, posted, failed, till>>

MutMayTake(s) == session[s].status # "none"     \* mutant: any session
MayTake(s) == session[s].status = "OPEN"

\* Any open session of the cashier; without one the cash goes to no drawer.
FindSession(p) ==
  /\ At(p, "hook")
  /\ \/ \E s \in Sessions :
          /\ MayTake(s)
          /\ Go(p, [req[p] EXCEPT !.stage = "drop", !.session = s])
     \/ /\ \A s \in Sessions : ~MayTake(s)
        /\ Go(p, [req[p] EXCEPT !.stage = "pay"])
  /\ UNCHANGED <<stock, sale, till>>

\* One transaction writes the movement and the session, closed or not by then.
DropCash(p) ==
  /\ At(p, "drop")
  /\ LET s == req[p].session IN
       /\ drawer' = [drawer EXCEPT ![s] = @ + req[p].amount]
       /\ session' = [session EXCEPT ![s].expected = @ + req[p].amount]
  /\ Go(p, [req[p] EXCEPT !.stage = "pay"])
  /\ UNCHANGED <<stock, sale, moves, stray, raced>>

-----------------------------------------------------------------------------
(* The session. *)

MutRegisterFree(r) == TRUE      \* mutant: no look for an open session
RegisterFree(r) ==
  \A s \in Sessions : ~(session[s].status = "OPEN" /\ session[s].register = r)

ReadForOpen(p) ==
  /\ At(p, "idle")
  /\ \E r \in Registers :
       /\ RegisterFree(r)
       /\ raced' = raced \union
            (IF \E q \in Procs : At(q, "open") /\ req[q].register = r THEN {r} ELSE {})
       /\ Go(p, [Idle EXCEPT !.stage = "open", !.register = r])
  /\ UNCHANGED <<stock, sale, session, drawer, moves, stray>>

\* Nothing in the schema keeps a second open session out.
OpenSession(p) ==
  /\ At(p, "open")
  /\ \E s \in Sessions :
       /\ session[s].status = "none"
       /\ session' = [session EXCEPT ![s] = [status |-> "OPEN", register |-> req[p].register,
                                             opening |-> 1, expected |-> 1]]
  /\ Go(p, Idle)
  /\ UNCHANGED <<stock, sale, drawer, moves, stray, raced>>

\* addMovement and closeSession read the session before they write.
ReadSession(p) ==
  /\ At(p, "idle")
  /\ \E s \in Sessions, stage \in {"move", "close"} :
       /\ session[s].status = "OPEN"
       /\ Go(p, [Idle EXCEPT !.stage = stage, !.session = s])
  /\ UNCHANGED <<stock, sale, till>>

WriteMovement(p) ==
  /\ At(p, "move")
  /\ \E a \in Moves :
       /\ moves < MaxMoves
       /\ moves' = moves + 1
       /\ drawer' = [drawer EXCEPT ![req[p].session] = @ + a]
       /\ Go(p, [req[p] EXCEPT !.stage = "adjust", !.amount = a])
  /\ UNCHANGED <<stock, sale, session, stray, raced>>

MutAdjusted(x, a) == IF a < 0 THEN x - a ELSE x + a    \* mutant: sign forgotten
Adjusted(x, a) == x + a

AdjustExpected(p) ==
  /\ At(p, "adjust")
  /\ session' = [session EXCEPT ![req[p].session].expected = Adjusted(@, req[p].amount)]
  /\ Go(p, Idle)
  /\ UNCHANGED <<stock, sale, drawer, moves, stray, raced>>

CloseSession(p) ==
  /\ At(p, "close")
  /\ session' = [session EXCEPT ![req[p].session].status = "CLOSED"]
  /\ Go(p, Idle)
  /\ UNCHANGED <<stock, sale, drawer, moves, stray, raced>>

\* A refusal of the database, an invalid method, a closed period or a crash.
Lose(p) ==
  /\ ~At(p, "idle")
  /\ failed' = IF At(p, "post") \/ At(p, "check") \/ At(p, "pay") \/ At(p, "hook") \/ At(p, "drop")
               THEN failed \union {req[p].number} ELSE failed
  /\ stray' = IF At(p, "adjust") THEN [stray EXCEPT ![req[p].session] = @ + req[p].amount]
              ELSE stray
  /\ Go(p, Idle)
  /\ UNCHANGED <<stock, invoice, posted, receipts, session, drawer, moves, raced>>

Step(p) ==
  \/ Plan(p) \/ Begin(p) \/ CommitSale(p)
  \/ PostSale(p) \/ CheckPayments(p) \/ Receive(p) \/ FindSession(p) \/ DropCash(p)
  \/ ReadForOpen(p) \/ OpenSession(p)
  \/ ReadSession(p) \/ WriteMovement(p) \/ AdjustExpected(p) \/ CloseSession(p)
  \/ Lose(p)

Next == Supply \/ Issue \/ \E p \in Procs : Step(p)

Spec == Init /\ [][Next]_vars

-----------------------------------------------------------------------------
(* Properties. *)

Statuses == {"none", "OPEN", "CLOSED"}

TypeOK ==
  /\ prepared \in Int /\ supplied \in 0..MaxSupply /\ raw \in Nat
  /\ \A n \in Numbers : /\ invoice[n].status \in {"none", "ISSUED", "OTHER"}
                        /\ invoice[n].cart \in Carts
                        /\ invoice[n].took \in Nat /\ invoice[n].made \in Nat
                        /\ invoice[n].given \in BOOLEAN
  /\ posted \in [Numbers -> [Method -> Int]]
  /\ receipts \in [Numbers -> [Method -> Nat]]
  /\ failed \subseteq Numbers
  /\ session \in [Sessions -> [status : Statuses, register : Registers,
                               opening : Nat, expected : Int]]
  /\ drawer \in [Sessions -> Int] /\ stray \in [Sessions -> Int]

\* While every invoice took the greatest number plus one, what is left of the
\* prepared product is what entered less what the sales took: two that read the
\* layers at once have drawn one number, and the unique index lets only one
\* commit.  An invoice given a greater number may commit between the two; the one
\* that commits first is then lost to the layers, which show units that were
\* sold, but never fewer than there are.
TakenInAll == SumFunction([n \in Numbers |-> invoice[n].took])

PreparedAccounts ==
  /\ prepared >= supplied - TakenInAll
  /\ (\A n \in Numbers : ~invoice[n].given) => prepared = supplied - TakenInAll

InProgress(n) ==
  \E p \in Procs : req[p].number = n /\ ~At(p, "idle") /\ ~At(p, "selling")

\* A sale in cash whose request came to its end has, method by method, the
\* receipts that its entry debits; while it lasts or if it is cut short there
\* are none beyond the entry, and none at all without one.
ReceiptsFollowEntry ==
  \A n \in StockSales : ~invoice[n].cart.credit =>
    /\ \A m \in Method : receipts[n][m] > 0 => receipts[n][m] <= posted[n][m]
    /\ ~InProgress(n) /\ n \notin failed /\ invoice[n].cart.pays # <<>> =>
         receipts[n] = posted[n]

Unadjusted(r, s) == IF r.stage = "adjust" /\ r.session = s THEN r.amount ELSE 0
Pending(s) == SumFunction([p \in Procs |-> Unadjusted(req[p], s)])

\* The expected close of a session is its opening and its movements, but for
\* manual movements whose request has not adjusted it yet or never did: the two
\* writes of addMovement are apart, those of a receipt are not.
ExpectedAccounts ==
  \A s \in Sessions :
    session[s].expected = session[s].opening + drawer[s] - Pending(s) - stray[s]

Holds(p, s) ==
  /\ req[p].stage \in {"move", "adjust", "drop", "close"}
  /\ req[p].session = s

ClosedStays(s) ==
  session[s].status = "CLOSED" =>
    /\ \A p \in Procs : Holds(p, s)' => Holds(p, s)
    /\ (\A p \in Procs : ~Holds(p, s)) => session'[s] = session[s] /\ drawer'[s] = drawer[s]

\* Once a session is closed only the requests that had found it open still move
\* its drawer, and no other takes hold of it: with the last of them gone the
\* count of the close is final.
ClosedIsStill == [][\A s \in Sessions : ClosedStays(s)]_<<session, drawer, req>>

\* "Ya existe una sesión abierta para este usuario en esta caja": a register has
\* two open sessions only if two requests had both looked before either wrote.
OneOpenSession ==
  \A s, t \in Sessions :
    /\ s # t /\ session[s].register = session[t].register
    /\ session[s].status = "OPEN" /\ session[t].status = "OPEN"
    => session[s].register \in raced
=============================================================================
