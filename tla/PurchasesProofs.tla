-------------------------- MODULE PurchasesProofs --------------------------
(***************************************************************************)
(* The payables of Purchases: what is proved for any number of requests,   *)
(* purchases, lines and installments, and any amounts.                     *)
(***************************************************************************)
EXTENDS Purchases, SumTheorems, TLAPS

\* What a purchase, its payable, its stock and its entry have in common.
Sound(i) ==
  /\ status[i] = "none" => paid[i] = 0 /\ entry[i] = NotPosted /\ drawn[i] = Empty
  /\ i \in owing => /\ status[i] = "ISSUED" /\ ~terms[i].cash
                    /\ balance[i] = terms[i].total - paid[i]
  /\ i \in stocked => status[i] = "ISSUED"
  /\ drawn[i] # Empty => i \in stocked
  /\ i \in reversed => status[i] = "VOID"
  /\ entry[i] # NotPosted => entry[i] = Net(terms[i])
  /\ terms[i].cash => paid[i] = 0
  /\ status[i] = "VOID" /\ paid[i] > 0 => i \in crossed

\* What a request knows of its purchase: a void that was overtaken by a
\* payment is in the history.
Knows(r) ==
  /\ r.stage \in {"post", "insert", "void", "reverse"} => status[r.invoice] # "none"
  /\ r.stage = "insert" => r.net = Net(terms[r.invoice])
  /\ r.stage = "void" /\ paid[r.invoice] > 0 => r.invoice \in crossed
  /\ r.stage = "reverse" => status[r.invoice] = "VOID"

\* A plan of the right type, whose statuses tell what is paid.
GoodPlan(pl) ==
  /\ pl \in Seq(Installment)
  /\ Len(pl) <= MaxCuotas
  /\ \A k \in DOMAIN pl : Tells(pl[k])

Typed ==
  /\ status \in [Invoices -> {"none", "ISSUED", "VOID"}]
  /\ terms \in [Invoices -> Terms]
  /\ owing \subseteq Invoices
  /\ balance \in [Invoices -> Int]
  /\ paid \in [Invoices -> Nat]
  /\ named \in [Invoices -> Nat]
  /\ stocked \subseteq Invoices
  /\ left \in [Invoices -> [Lines -> Int]]
  /\ drawn \in [Invoices -> [Lines -> Nat]]
  /\ entry \in [Invoices -> Nat \union {NotPosted}]
  /\ reversed \subseteq Invoices
  /\ settled \in [Invoices -> Nat]
  /\ crossed \subseteq Invoices
  /\ req \in [Procs -> Request]

Plans == plan \in [Invoices -> Seq(Installment)] /\ \A i \in Invoices : GoodPlan(plan[i])

IInv ==
  /\ Typed
  /\ Plans
  /\ \A i \in Invoices : Sound(i)
  /\ \A p \in Procs : Knows(req[p])

-----------------------------------------------------------------------------
(* Amounts and plans. *)

LEMMA TermType ==
  ASSUME NEW t \in Terms
  PROVE  /\ t \in [total : Nat, withheld : Nat, cash : BOOLEAN,
                   cuotas : 0..MaxCuotas, units : Nat]
         /\ Net(t) \in Nat
<1>1. t \in [total : Nat, withheld : Nat, cash : BOOLEAN, cuotas : 0..MaxCuotas, units : Nat]
  BY ConstantsAssumption
<1>. QED
  BY <1>1 DEF Net, Positive

\* A purchase on credit owes the net when its payable owes the total.
LEMMA NetIsTotalLess ==
  ASSUME NEW t \in Terms, ~t.cash
  PROVE  Net(t) = t.total - Smaller(t.withheld, t.total)
<1>1. t.total \in Nat /\ t.withheld \in Nat
  BY TermType
<1>. QED
  BY <1>1 DEF Net, Positive, Smaller

LEMMA SplitType ==
  ASSUME NEW total \in Nat, NEW n \in Nat \ {0}, NEW k \in 1..n
  PROVE  SplitEven(total, n)[k] \in Int
<1>. DEFINE base == (2 * total + n) \div (2 * n)
<1>1. base \in Int
  OBVIOUS
<1>2. total - (n - 1) * base \in Int
  BY <1>1
<1>. QED
  BY <1>1, <1>2 DEF SplitEven

LEMMA EmptyPlan == GoodPlan(<<>>)
BY ConstantsAssumption DEF GoodPlan

LEMMA PlanType ==
  ASSUME NEW t \in Terms
  PROVE  GoodPlan(CreditPlan(t))
<1>. DEFINE pl == CreditPlan(t)
<1>0. t.total \in Nat /\ t.cuotas \in 0..MaxCuotas /\ MaxCuotas \in Nat
  BY TermType, ConstantsAssumption
<1>1. CASE t.cash \/ t.cuotas = 0
  BY <1>1, EmptyPlan DEF CreditPlan
<1>2. CASE ~(t.cash \/ t.cuotas = 0)
  <2>. DEFINE n == t.cuotas
  <2>1. n \in Nat \ {0} /\ n <= MaxCuotas
    BY <1>0, <1>2
  <2>. DEFINE part(k) == [amount |-> SplitEven(t.total, n)[k], paid |-> 0,
                          status |-> "PENDING"]
  <2>2. pl = [k \in 1..n |-> part(k)]
    BY <1>2 DEF CreditPlan
  <2>3. ASSUME NEW k \in 1..n PROVE part(k) \in Installment
    BY <1>0, <2>1, SplitType DEF Installment
  <2>4. pl \in Seq(Installment) /\ Len(pl) = n
    <3>. HIDE DEF part, n, pl
    <3>. QED
      BY <2>1, <2>2, <2>3
  <2>5. \A k \in 1..n : pl[k].paid = 0 /\ pl[k].status = "PENDING"
    BY <2>2
  <2>6. DOMAIN pl = 1..n
    BY <2>2
  <2>. HIDE DEF pl, n
  <2>7. GoodPlan(pl)
    BY <2>1, <2>4, <2>5, <2>6 DEF GoodPlan, Tells
  <2>. QED
    BY <2>7 DEF pl
<1>. QED
  BY <1>1, <1>2

LEMMA PaidPlan ==
  ASSUME NEW pl, GoodPlan(pl), NEW a \in Nat, NEW k \in 0..Len(pl), a = 0 => k = 0
  PROVE  GoodPlan(PaidInto(pl, k, a))
<1>. DEFINE new == PaidInto(pl, k, a)
<1>1. /\ pl \in Seq(Installment)
      /\ Len(pl) \in Nat /\ DOMAIN pl = 1..Len(pl)
      /\ \A j \in 1..Len(pl) : pl[j] \in Installment /\ Tells(pl[j])
  BY DEF GoodPlan
<1>2. CASE k = 0
  BY <1>2 DEF PaidInto
<1>3. CASE k # 0
  <2>1. k \in 1..Len(pl) /\ a \in Nat \ {0}
    BY <1>1, <1>3
  <2>2. PICK c \in Installment : c = pl[k]
    BY <1>1, <2>1
  <2>3. c.amount \in Int /\ c.paid \in Nat
    BY DEF Installment
  <2>4. PICK x : x = [amount |-> c.amount, paid |-> c.paid + a,
                      status |-> IF c.paid + a >= c.amount THEN "PAID" ELSE "PARTIALLY_PAID"]
    OBVIOUS
  <2>5. x \in Installment
    BY <2>1, <2>3, <2>4 DEF Installment
  <2>6. Tells(x)
    BY <2>1, <2>3, <2>4 DEF Tells
  <2>7. new = [pl EXCEPT ![k] = x]
    BY <1>1, <1>3, <2>2, <2>4 DEF PaidInto
  <2>. HIDE DEF new
  <2>8. new \in Seq(Installment) /\ Len(new) = Len(pl) /\ DOMAIN new = 1..Len(pl)
    BY <1>1, <2>1, <2>5, <2>7
  <2>9. \A j \in 1..Len(pl) : Tells(new[j])
    BY <1>1, <2>1, <2>6, <2>7
  <2>10. Len(pl) <= MaxCuotas
    BY DEF GoodPlan
  <2>. QED
    BY <2>8, <2>9, <2>10 DEF GoodPlan, new
<1>. QED
  BY <1>2, <1>3

-----------------------------------------------------------------------------
(* The initial state, and requests. *)

LEMMA TodoType ==
  ASSUME NEW stage \in Stages, NEW i \in Invoices
  PROVE  /\ Todo(stage, i) \in Request
         /\ Todo(stage, i).stage = stage
         /\ Todo(stage, i).invoice = i
<1>1. (CHOOSE l \in Lines : TRUE) \in Lines
  BY ConstantsAssumption
<1>. QED
  BY <1>1 DEF Todo, Request, None

LEMMA IdleType == Idle \in Request /\ Idle.stage = "idle"
<1>1. (CHOOSE i \in Invoices : TRUE) \in Invoices
  BY ConstantsAssumption
<1>. QED
  BY <1>1, TodoType DEF Idle, Stages

LEMMA Initial == Init => IInv
<1>1. SUFFICES ASSUME Init PROVE IInv
  OBVIOUS
<1>2. (CHOOSE t \in Terms : TRUE) \in Terms
  BY ConstantsAssumption
<1>3. Typed
  BY <1>1, <1>2, IdleType DEF Init, Typed, None, Empty
<1>4. Plans
  BY <1>1, EmptyPlan DEF Init, Plans
<1>5. ASSUME NEW i \in Invoices PROVE Sound(i)
  BY <1>1, <1>5 DEF Init, Sound, None, Empty
<1>6. ASSUME NEW p \in Procs PROVE Knows(req[p])
  BY <1>1, IdleType DEF Init, Knows
<1>. QED
  BY <1>3, <1>4, <1>5, <1>6 DEF IInv

\* What the others know of a purchase stays true.
StatusKeeps ==
  \A i \in Invoices :
    /\ status[i] # "none" => status'[i] # "none" /\ terms'[i] = terms[i]
    /\ status[i] = "VOID" => status'[i] = "VOID"

VoidsKeep ==
  \A q \in Procs : req[q].stage = "void" =>
    LET i == req[q].invoice IN
    /\ paid'[i] > 0 /\ paid[i] = 0 => i \in crossed'
    /\ paid[i] > 0 /\ i \in crossed => i \in crossed'

LEMMA OthersKnow ==
  ASSUME IInv, NEW p \in Procs, NEW r \in Request, req' = [req EXCEPT ![p] = r],
         Knows(r)', StatusKeeps, VoidsKeep
  PROVE  \A q \in Procs : Knows(req[q])'
<1>1. SUFFICES ASSUME NEW q \in Procs PROVE Knows(req[q])'
  OBVIOUS
<1>2. CASE q = p
  BY <1>2 DEF IInv, Typed
<1>3. CASE q # p
  <2>1. req'[q] = req[q] /\ req[q] \in Request /\ req[q].invoice \in Invoices
    BY <1>3 DEF IInv, Typed, Request
  <2>2. Knows(req[q]) /\ paid[req[q].invoice] \in Nat
    BY <2>1 DEF IInv, Typed
  <2>. QED
    BY <2>1, <2>2 DEF Knows, StatusKeeps, VoidsKeep
<1>. QED
  BY <1>2, <1>3

LEMMA NoPaymentNow ==
  ASSUME UNCHANGED <<paid, crossed>>
  PROVE  VoidsKeep
BY DEF VoidsKeep
-----------------------------------------------------------------------------
(* Invoices. *)

LEMMA IssueKeeps ==
  ASSUME IInv, NEW p \in Procs, NEW i \in Invoices, NEW t \in Terms, Issue(p, i, t),
         \/ UNCHANGED <<stocked, left>>
         \/ /\ stocked' = stocked \union {i}
            /\ left' = [left EXCEPT ![i] = [l \in Lines |-> t.units]]
  PROVE  IInv'
<1>1. /\ t.total \in Nat /\ t.units \in Nat /\ t.cash \in BOOLEAN
      /\ status[i] = "none"
  BY TermType DEF Issue
<1>2. PICK r \in Request : r = Todo("post", i) /\ r.stage = "post" /\ r.invoice = i
  BY TodoType DEF Stages
<1>3. Typed'
  <2>1. left' \in [Invoices -> [Lines -> Int]]
    BY <1>1 DEF IInv, Typed
  <2>2. stocked' \subseteq Invoices
    BY DEF IInv, Typed
  <2>3. balance' \in [Invoices -> Int]
    BY <1>1 DEF Issue, IInv, Typed
  <2>4. req' \in [Procs -> Request] /\ owing' \subseteq Invoices
    BY <1>2 DEF Issue, IInv, Typed
  <2>. QED
    BY <1>1, <1>2, <2>1, <2>2, <2>3, <2>4 DEF IInv, Typed, Issue, journal
<1>4. Plans'
  <2>1. CreditPlan(t) \in Seq(Installment)
    BY PlanType DEF GoodPlan
  <2>2. plan' = [plan EXCEPT ![i] = CreditPlan(t)]
    BY DEF Issue
  <2>. QED
    BY <2>1, <2>2, PlanType DEF IInv, Plans
<1>5. ASSUME NEW j \in Invoices PROVE Sound(j)'
  <2>1. Sound(j)
    BY DEF IInv
  <2>2. CASE j # i
    BY <2>1, <2>2 DEF Issue, Sound, IInv, Typed, journal, Net
  <2>3. CASE j = i
    <3>1. /\ status'[i] = "ISSUED" /\ terms'[i] = t /\ paid'[i] = paid[i]
          /\ entry'[i] = entry[i] /\ drawn'[i] = drawn[i] /\ reversed' = reversed
          /\ balance'[i] = IF t.cash THEN 0 ELSE t.total
          /\ owing' = IF t.cash THEN owing ELSE owing \union {i}
      BY DEF Issue, IInv, Typed, journal
    <3>2. /\ paid[i] = 0 /\ entry[i] = NotPosted /\ drawn[i] = Empty
          /\ i \notin owing /\ i \notin reversed
      BY <1>1, <2>1, <2>3 DEF Sound
    <3>. QED
      BY <1>1, <2>3, <3>1, <3>2 DEF Sound
  <2>. QED
    BY <2>2, <2>3
<1>6. \A q \in Procs : Knows(req[q])'
  <2>1. Knows(r)'
    BY <1>2 DEF Knows, Issue, IInv, Typed
  <2>2. StatusKeeps
    BY <1>1 DEF StatusKeeps, Issue, IInv, Typed
  <2>3. UNCHANGED <<paid, crossed>> /\ req' = [req EXCEPT ![p] = r]
    BY <1>2 DEF Issue
  <2>. QED
    BY <1>2, <2>1, <2>2, <2>3, OthersKnow, NoPaymentNow
<1>. QED
  BY <1>3, <1>4, <1>5, <1>6 DEF IInv

LEMMA StartVoidKeeps ==
  ASSUME IInv, NEW p \in Procs, StartVoid(p)
  PROVE  IInv'
<1>1. PICK i \in Invoices : Voidable(i) /\ req' = [req EXCEPT ![p] = Todo("void", i)]
  BY DEF StartVoid
<1>2. PICK r \in Request : r = Todo("void", i) /\ r.stage = "void" /\ r.invoice = i
  BY TodoType DEF Stages
<1>3. UNCHANGED <<status, terms, owing, balance, plan, paid, named, crossed,
                  stocked, left, drawn, entry, reversed, settled>>
  BY DEF StartVoid, payable, stock, journal
<1>4. Typed' /\ Plans'
  BY <1>1, <1>2, <1>3 DEF IInv, Typed, Plans
<1>5. ASSUME NEW j \in Invoices PROVE Sound(j)'
  BY <1>3 DEF IInv, Sound, Net
<1>6. Knows(r)'
  BY <1>1, <1>2, <1>3 DEF Knows, Voidable
<1>7. \A q \in Procs : Knows(req[q])'
  BY <1>1, <1>2, <1>3, <1>6, OthersKnow, NoPaymentNow DEF StatusKeeps
<1>. QED
  BY <1>4, <1>5, <1>7 DEF IInv

LEMMA CommitVoidKeeps ==
  ASSUME IInv, NEW p \in Procs, CommitVoid(p)
  PROVE  IInv'
<1>. DEFINE i == req[p].invoice
<1>0. PICK v \in Invoices : v = i
  BY DEF IInv, Typed, Request
<1>1. /\ req[p].stage = "void" /\ Knows(req[p]) /\ Sound(v)
  BY <1>0 DEF CommitVoid, IInv
<1>2. PICK r \in Request : r = Todo("reverse", v) /\ r.stage = "reverse" /\ r.invoice = v
  BY TodoType DEF Stages
<1>3. /\ Deletable(v)
      /\ status' = [status EXCEPT ![v] = "VOID"]
      /\ owing' = owing \ {v}
      /\ plan' = [plan EXCEPT ![v] = <<>>]
      /\ stocked' = stocked \ {v}
      /\ req' = [req EXCEPT ![p] = r]
      /\ UNCHANGED <<terms, balance, paid, named, crossed, left, drawn, entry, reversed, settled>>
  BY <1>0, <1>2 DEF CommitVoid, journal
<1>4. Typed'
  BY <1>3 DEF IInv, Typed
<1>5. Plans'
  BY <1>3, EmptyPlan DEF IInv, Plans
<1>6. ASSUME NEW j \in Invoices PROVE Sound(j)'
  <2>1. Sound(j)
    BY DEF IInv
  <2>2. CASE j # v
    BY <1>3, <2>1, <2>2 DEF Sound, IInv, Typed, Net
  <2>3. CASE j = v
    <3>1. /\ status'[v] = "VOID" /\ v \notin owing' /\ v \notin stocked'
          /\ terms' = terms /\ paid' = paid /\ entry' = entry /\ drawn' = drawn
          /\ crossed' = crossed
      BY <1>3 DEF IInv, Typed
    <3>2. drawn[v] = Empty
      BY <1>1, <1>3 DEF Deletable, Sound
    <3>3. paid[v] > 0 => v \in crossed
      BY <1>0, <1>1 DEF Knows
    <3>4. entry'[v] # NotPosted => entry'[v] = Net(terms'[v])
      BY <1>1, <3>1 DEF Sound
    <3>5. terms'[v].cash => paid'[v] = 0
      BY <1>1, <3>1 DEF Sound
    <3>. QED
      BY <2>3, <3>1, <3>2, <3>3, <3>4, <3>5 DEF Sound
  <2>. QED
    BY <2>2, <2>3
<1>7. Knows(r)'
  BY <1>2, <1>3 DEF Knows, IInv, Typed
<1>8. \A q \in Procs : Knows(req[q])'
  <2>1. StatusKeeps
    BY <1>1, <1>3 DEF StatusKeeps, Knows, IInv, Typed
  <2>. QED
    BY <1>3, <1>7, <2>1, OthersKnow, NoPaymentNow
<1>. QED
  BY <1>4, <1>5, <1>6, <1>8 DEF IInv
-----------------------------------------------------------------------------
(* Outputs of stock. *)

LEMMA ReadLayerKeeps ==
  ASSUME IInv, NEW p \in Procs, ReadLayer(p)
  PROVE  IInv'
<1>0. PICK i \in Invoices, l \in Lines :
        req' = [req EXCEPT ![p] = [Todo("output", i) EXCEPT !.line = l, !.seen = left[i][l]]]
  BY DEF ReadLayer, IInv, Typed
<1>1. PICK n \in Int : n = left[i][l]
  BY DEF IInv, Typed
<1>2. PICK r : /\ r = [Todo("output", i) EXCEPT !.line = l, !.seen = n]
               /\ r \in Request
               /\ r.stage = "output"
               /\ req' = [req EXCEPT ![p] = r]
  BY <1>0, <1>1 DEF Todo, Stages, Request, None
<1>3. UNCHANGED <<status, terms, owing, balance, plan, paid, named, crossed,
                  stocked, left, drawn, entry, reversed, settled>>
  BY DEF ReadLayer, payable, stock, journal
<1>4. Typed' /\ Plans'
  BY <1>1, <1>2, <1>3 DEF IInv, Typed, Plans
<1>5. ASSUME NEW j \in Invoices PROVE Sound(j)'
  BY <1>3 DEF IInv, Sound, Net
<1>6. Knows(r)'
  BY <1>2 DEF Knows
<1>7. \A q \in Procs : Knows(req[q])'
  BY <1>1, <1>2, <1>3, <1>6, OthersKnow, NoPaymentNow DEF StatusKeeps
<1>. QED
  BY <1>4, <1>5, <1>7 DEF IInv

\* A request that ends knows nothing.
LEMMA EndKnows == Knows(Idle)'
BY IdleType DEF Knows

LEMMA ConsumeKeeps ==
  ASSUME IInv, NEW p \in Procs, Consume(p)
  PROVE  IInv'
<1>1. PICK i \in Invoices, l \in Lines, n \in Int :
        /\ i \in stocked
        /\ left' = [left EXCEPT ![i] = [left[i] EXCEPT ![l] = n]]
        /\ drawn' = [drawn EXCEPT ![i] = [drawn[i] EXCEPT ![l] = @ + 1]]
  <2>1. req[p].invoice \in Invoices /\ req[p].line \in Lines /\ req[p].seen - 1 \in Int
    BY DEF IInv, Typed, Request
  <2>. QED
    BY <2>1 DEF Consume
<1>2. /\ UNCHANGED <<status, terms, owing, balance, plan, paid, named, crossed,
                     stocked, entry, reversed, settled>>
      /\ req' = [req EXCEPT ![p] = Idle]
  BY DEF Consume, payable, journal
<1>3. Typed'
  <2>1. left' \in [Invoices -> [Lines -> Int]] /\ drawn' \in [Invoices -> [Lines -> Nat]]
    BY <1>1 DEF IInv, Typed
  <2>. QED
    BY <1>2, <2>1, IdleType DEF IInv, Typed
<1>4. Plans'
  BY <1>2 DEF IInv, Plans
<1>5. ASSUME NEW j \in Invoices PROVE Sound(j)'
  <2>1. Sound(j)
    BY DEF IInv
  <2>2. j # i => drawn'[j] = drawn[j]
    BY <1>1 DEF IInv, Typed
  <2>3. j = i => j \in stocked /\ status[j] = "ISSUED"
    BY <1>1, <2>1 DEF Sound
  <2>. QED
    BY <1>2, <2>1, <2>2, <2>3 DEF Sound, Net
<1>6. \A q \in Procs : Knows(req[q])'
  BY <1>2, IdleType, EndKnows, OthersKnow, NoPaymentNow DEF StatusKeeps
<1>. QED
  BY <1>3, <1>4, <1>5, <1>6 DEF IInv

-----------------------------------------------------------------------------
(* Payments. *)

LEMMA PaymentKeeps ==
  ASSUME IInv, NEW p \in Procs, Payment(p)
  PROVE  IInv'
<1>1. PICK asked \in [Invoices -> Payments \union {0}],
           inst \in [Invoices -> 0..MaxCuotas] :
      LET amount == Applied(asked) IN
        /\ \A i \in Invoices :
             /\ asked[i] > 0 => status[i] # "none"
             /\ amount[i] > 0 => i \in owing
             /\ inst[i] <= IF amount[i] = 0 THEN 0 ELSE Len(plan[i])
        /\ paid' = [i \in Invoices |-> paid[i] + amount[i]]
        /\ named' = [i \in Invoices |-> named[i] + IF inst[i] = 0 THEN 0 ELSE amount[i]]
        /\ balance' = [i \in Invoices |-> balance[i] - amount[i]]
        /\ plan' = [i \in Invoices |-> PaidInto(plan[i], inst[i], amount[i])]
        /\ crossed' = crossed \union
             {i \in Invoices : /\ amount[i] > 0
                               /\ \E q \in Procs : req[q].stage = "void" /\ req[q].invoice = i}
        /\ req' = [req EXCEPT ![p] = [Todo("payment", @.invoice) EXCEPT !.alloc = amount]]
  BY DEF Payment
<1>. DEFINE amount == Applied(asked)
<1>2. amount \in [Invoices -> Nat]
  <2>1. Payments \subseteq Nat
    BY ConstantsAssumption
  <2>. QED
    BY <1>1, <2>1 DEF Applied
<1>3. UNCHANGED <<status, terms, owing, stocked, left, drawn, entry, reversed, settled>>
  BY DEF Payment, stock, journal
<1>4. req[p] \in Request /\ req[p].invoice \in Invoices
  BY DEF IInv, Typed, Request
<1>. HIDE DEF amount
<1>5. PICK r : r = [Todo("payment", req[p].invoice) EXCEPT !.alloc = amount]
  OBVIOUS
<1>6. r \in Request /\ r.stage = "payment" /\ req' = [req EXCEPT ![p] = r]
  <2>1. r \in Request /\ r.stage = "payment"
    <3>1. PICK l \in Lines : l = CHOOSE x \in Lines : TRUE
      BY ConstantsAssumption
    <3>2. r = [stage |-> "payment", invoice |-> req[p].invoice, net |-> 0,
               line |-> l, seen |-> 0, alloc |-> amount]
      BY <1>5, <3>1 DEF Todo
    <3>. QED
      BY <1>2, <1>4, <3>2 DEF Stages, Request
  <2>2. req' = [req EXCEPT ![p] = r]
    BY <1>1, <1>4, <1>5 DEF IInv, Typed, amount
  <2>. QED
    BY <2>1, <2>2
<1>7. Typed'
  <2>1. /\ paid' = [i \in Invoices |-> paid[i] + amount[i]]
        /\ named' = [i \in Invoices |-> named[i] + IF inst[i] = 0 THEN 0 ELSE amount[i]]
        /\ balance' = [i \in Invoices |-> balance[i] - amount[i]]
        /\ crossed \subseteq Invoices /\ crossed' \subseteq Invoices
    BY <1>1 DEF IInv, Typed, amount
  <2>2. /\ paid' \in [Invoices -> Nat] /\ named' \in [Invoices -> Nat]
        /\ balance' \in [Invoices -> Int]
    BY <1>2, <2>1 DEF IInv, Typed
  <2>. QED
    BY <1>3, <1>6, <2>1, <2>2 DEF IInv, Typed
<1>8. Plans'
  <2>1. ASSUME NEW i \in Invoices PROVE GoodPlan(PaidInto(plan[i], inst[i], amount[i]))
    <3>1. GoodPlan(plan[i]) /\ Len(plan[i]) \in Nat
      BY DEF IInv, Plans
    <3>2. inst[i] \in 0..MaxCuotas /\ amount[i] \in Nat
      BY <1>2
    <3>3. MaxCuotas \in Nat
      BY ConstantsAssumption
    <3>4. inst[i] <= IF amount[i] = 0 THEN 0 ELSE Len(plan[i])
      BY <1>1 DEF amount
    <3>5. inst[i] \in 0..Len(plan[i]) /\ (amount[i] = 0 => inst[i] = 0)
      BY <3>1, <3>2, <3>3, <3>4
    <3>. QED
      BY <3>1, <3>2, <3>5, PaidPlan
  <2>. QED
    BY <1>1, <2>1 DEF Plans, GoodPlan, amount
<1>9. ASSUME NEW j \in Invoices PROVE Sound(j)'
  <2>1. Sound(j) /\ paid[j] \in Nat /\ amount[j] \in Nat /\ balance[j] \in Int
    BY <1>2 DEF IInv, Typed
  <2>2. paid'[j] = paid[j] + amount[j] /\ balance'[j] = balance[j] - amount[j]
    BY <1>1 DEF amount
  <2>3. amount[j] > 0 => j \in owing
    BY <1>1 DEF amount
  <2>4. terms[j] \in Terms /\ terms[j].total \in Nat
    BY TermType DEF IInv, Typed
  <2>5. j \in crossed => j \in crossed'
    BY <1>1
  <2>6. amount[j] > 0 => status[j] = "ISSUED" /\ ~terms[j].cash
    BY <2>1, <2>3 DEF Sound
  <2>7. j \in owing => balance'[j] = terms[j].total - paid'[j]
    BY <2>1, <2>2, <2>4 DEF Sound
  <2>8. amount[j] = 0 => paid'[j] = paid[j]
    BY <2>1, <2>2
  <2>9. CASE amount[j] = 0
    BY <1>3, <2>1, <2>5, <2>7, <2>8, <2>9 DEF Sound, Net
  <2>10. CASE amount[j] > 0
    BY <1>3, <2>1, <2>6, <2>7, <2>10 DEF Sound, Net
  <2>. QED
    BY <2>1, <2>9, <2>10
<1>10. VoidsKeep
  <2>1. SUFFICES ASSUME NEW q \in Procs, req[q].stage = "void",
                        NEW i, i = req[q].invoice
                 PROVE  /\ paid'[i] > 0 /\ paid[i] = 0 => i \in crossed'
                        /\ paid[i] > 0 /\ i \in crossed => i \in crossed'
    BY DEF VoidsKeep
  <2>2. i \in Invoices
    BY <2>1 DEF IInv, Typed, Request
  <2>3. paid'[i] = paid[i] + amount[i]
    BY <1>1, <2>2 DEF amount
  <2>4. paid'[i] > 0 /\ paid[i] = 0 => amount[i] > 0
    BY <1>2, <2>2, <2>3
  <2>. QED
    BY <1>1, <2>1, <2>2, <2>4 DEF amount
<1>11. \A q \in Procs : Knows(req[q])'
  <2>1. SUFFICES ASSUME NEW q \in Procs PROVE Knows(req[q])'
    OBVIOUS
  <2>2. CASE q = p
    BY <1>6, <2>2 DEF Knows, IInv, Typed
  <2>3. CASE q # p
    <3>1. /\ req'[q] = req[q] /\ req[q] \in Request /\ req[q].invoice \in Invoices
          /\ Knows(req[q]) /\ paid[req[q].invoice] \in Nat
      BY <1>6, <2>3 DEF IInv, Typed, Request
    <3>. QED
      BY <1>3, <1>10, <3>1 DEF Knows, VoidsKeep, Net
  <2>. QED
    BY <2>2, <2>3
<1>. QED
  BY <1>7, <1>8, <1>9, <1>11 DEF IInv
-----------------------------------------------------------------------------
(* Postings. *)

LEMMA ReadInvoiceKeeps ==
  ASSUME IInv, NEW p \in Procs, ReadInvoice(p)
  PROVE  IInv'
<1>1. PICK i \in Invoices : i = req[p].invoice /\ status[i] # "none" /\ terms[i] \in Terms
  BY DEF ReadInvoice, IInv, Typed, Request, Knows
<1>2. PICK n \in Nat : n = Net(terms[i])
  BY <1>1, TermType
<1>3. PICK r : /\ r = IF status[i] = "ISSUED" THEN [Todo("insert", i) EXCEPT !.net = n] ELSE Idle
               /\ req' = [req EXCEPT ![p] = r]
  BY <1>1, <1>2 DEF ReadInvoice
<1>4. UNCHANGED <<status, terms, owing, balance, plan, paid, named, crossed,
                  stocked, left, drawn, entry, reversed, settled>>
  BY DEF ReadInvoice, payable, stock, journal
<1>5. ASSUME status[i] = "ISSUED" PROVE r \in Request /\ Knows(r)'
  <2>1. r \in Request /\ r.stage = "insert" /\ r.invoice = i /\ r.net = n
    <3>1. PICK l \in Lines : l = CHOOSE x \in Lines : TRUE
      BY ConstantsAssumption
    <3>2. r = [stage |-> "insert", invoice |-> i, net |-> n, line |-> l, seen |-> 0,
               alloc |-> None]
      BY <1>3, <1>5, <3>1 DEF Todo
    <3>3. None \in [Invoices -> Nat]
      BY DEF None
    <3>. QED
      BY <3>2, <3>3 DEF Stages, Request
  <2>2. Knows(r)'
    BY <1>1, <1>2, <1>4, <2>1 DEF Knows, Net
  <2>. QED
    BY <2>1, <2>2
<1>7. r \in Request /\ Knows(r)'
  BY <1>3, <1>5, IdleType, EndKnows
<1>8. Typed' /\ Plans'
  BY <1>3, <1>4, <1>7 DEF IInv, Typed, Plans
<1>9. ASSUME NEW j \in Invoices PROVE Sound(j)'
  BY <1>4 DEF IInv, Sound, Net
<1>10. \A q \in Procs : Knows(req[q])'
  BY <1>3, <1>4, <1>7, OthersKnow, NoPaymentNow DEF StatusKeeps
<1>. QED
  BY <1>8, <1>9, <1>10 DEF IInv

LEMMA InsertInvoiceKeeps ==
  ASSUME IInv, NEW p \in Procs, InsertInvoice(p)
  PROVE  IInv'
<1>1. PICK i \in Invoices : i = req[p].invoice
  BY DEF IInv, Typed, Request
<1>2. /\ status[i] # "none" /\ req[p].net = Net(terms[i]) /\ req[p].net \in Nat
      /\ entry' = [entry EXCEPT ![i] = IF @ = NotPosted THEN req[p].net ELSE @]
      /\ req' = [req EXCEPT ![p] = Idle]
      /\ UNCHANGED <<status, terms, owing, balance, plan, paid, named, crossed,
                     stocked, left, drawn, reversed, settled>>
  BY <1>1 DEF InsertInvoice, IInv, Typed, Request, Knows, payable, stock
<1>3. entry' \in [Invoices -> Nat \union {NotPosted}]
  BY <1>1, <1>2 DEF IInv, Typed
<1>4. Typed' /\ Plans'
  BY <1>2, <1>3, IdleType DEF IInv, Typed, Plans
<1>5. ASSUME NEW j \in Invoices PROVE Sound(j)'
  <2>1. PICK n : n = IF entry[i] = NotPosted THEN req[p].net ELSE entry[i]
    OBVIOUS
  <2>2. entry'[j] = IF j = i THEN n ELSE entry[j]
    BY <1>1, <1>2, <2>1 DEF IInv, Typed
  <2>3. CASE j = i /\ entry[i] = NotPosted
    <3>1. entry'[j] = Net(terms[j]) /\ status[j] # "none"
      BY <1>2, <2>1, <2>2, <2>3
    <3>. QED
      BY <1>2, <3>1 DEF IInv, Sound, Net
  <2>4. CASE ~(j = i /\ entry[i] = NotPosted)
    <3>1. entry'[j] = entry[j]
      BY <2>1, <2>2, <2>4
    <3>. QED
      BY <1>2, <3>1 DEF IInv, Sound, Net
  <2>. QED
    BY <2>3, <2>4
<1>6. \A q \in Procs : Knows(req[q])'
  BY <1>2, IdleType, EndKnows, OthersKnow, NoPaymentNow DEF StatusKeeps
<1>. QED
  BY <1>4, <1>5, <1>6 DEF IInv

LEMMA PostPaymentKeeps ==
  ASSUME IInv, NEW p \in Procs, PostPayment(p)
  PROVE  IInv'
<1>1. /\ settled' = [i \in Invoices |-> settled[i] + req[p].alloc[i]]
      /\ req' = [req EXCEPT ![p] = Idle]
      /\ UNCHANGED <<status, terms, owing, balance, plan, paid, named, crossed,
                     stocked, left, drawn, entry, reversed>>
  BY DEF PostPayment, payable, stock
<1>2. settled' \in [Invoices -> Nat]
  <2>1. req[p].alloc \in [Invoices -> Nat]
    BY DEF IInv, Typed, Request
  <2>. QED
    BY <1>1, <2>1 DEF IInv, Typed
<1>3. Typed' /\ Plans'
  BY <1>1, <1>2, IdleType DEF IInv, Typed, Plans
<1>4. ASSUME NEW j \in Invoices PROVE Sound(j)'
  BY <1>1 DEF IInv, Sound, Net
<1>5. \A q \in Procs : Knows(req[q])'
  BY <1>1, IdleType, EndKnows, OthersKnow, NoPaymentNow DEF StatusKeeps
<1>. QED
  BY <1>3, <1>4, <1>5 DEF IInv

LEMMA ReverseKeeps ==
  ASSUME IInv, NEW p \in Procs, Reverse(p)
  PROVE  IInv'
<1>1. PICK i \in Invoices : i = req[p].invoice /\ status[i] = "VOID"
  BY DEF Reverse, IInv, Typed, Request, Knows
<1>2. /\ reversed' \subseteq reversed \union {i}
      /\ req' = [req EXCEPT ![p] = Idle]
      /\ UNCHANGED <<status, terms, owing, balance, plan, paid, named, crossed,
                     stocked, left, drawn, entry, settled>>
  BY <1>1 DEF Reverse, payable, stock
<1>3. Typed' /\ Plans'
  BY <1>1, <1>2, IdleType DEF IInv, Typed, Plans
<1>4. ASSUME NEW j \in Invoices PROVE Sound(j)'
  BY <1>1, <1>2 DEF IInv, Sound, Net
<1>5. \A q \in Procs : Knows(req[q])'
  BY <1>2, IdleType, EndKnows, OthersKnow, NoPaymentNow DEF StatusKeeps
<1>. QED
  BY <1>3, <1>4, <1>5 DEF IInv

LEMMA LoseKeeps ==
  ASSUME IInv, NEW p \in Procs, Lose(p)
  PROVE  IInv'
<1>1. /\ req' = [req EXCEPT ![p] = Idle]
      /\ UNCHANGED <<status, terms, owing, balance, plan, paid, named, crossed,
                     stocked, left, drawn, entry, reversed, settled>>
  BY DEF Lose, payable, stock, journal
<1>2. Typed' /\ Plans'
  BY <1>1, IdleType DEF IInv, Typed, Plans
<1>3. ASSUME NEW j \in Invoices PROVE Sound(j)'
  BY <1>1 DEF IInv, Sound, Net
<1>4. \A q \in Procs : Knows(req[q])'
  BY <1>1, IdleType, EndKnows, OthersKnow, NoPaymentNow DEF StatusKeeps
<1>. QED
  BY <1>2, <1>3, <1>4 DEF IInv

-----------------------------------------------------------------------------
(* The theorems. *)

LEMMA Stutter ==
  ASSUME IInv, UNCHANGED vars
  PROVE  IInv'
BY DEF vars, IInv, Typed, Plans, Sound, Knows, Net

LEMMA StepKeeps == IInv /\ [Next]_vars => IInv'
<1>1. SUFFICES ASSUME IInv, [Next]_vars PROVE IInv'
  OBVIOUS
<1>2. CASE UNCHANGED vars
  BY <1>1, <1>2, Stutter
<1>3. ASSUME NEW p \in Procs, Create(p) \/ CreateWithStock(p) PROVE IInv'
  <2>1. PICK i \in Invoices, t \in Terms :
          /\ Issue(p, i, t)
          /\ \/ UNCHANGED <<stocked, left>>
             \/ /\ stocked' = stocked \union {i}
                /\ left' = [left EXCEPT ![i] = [l \in Lines |-> t.units]]
    BY <1>3 DEF Create, CreateWithStock
  <2>. QED
    BY <1>1, <2>1, IssueKeeps
<1>4. ASSUME NEW p \in Procs,
             StartVoid(p) \/ CommitVoid(p) \/ ReadLayer(p) \/ Consume(p) \/ Payment(p)
      PROVE  IInv'
  BY <1>1, <1>4, StartVoidKeeps, CommitVoidKeeps, ReadLayerKeeps, ConsumeKeeps, PaymentKeeps
<1>5. ASSUME NEW p \in Procs,
             ReadInvoice(p) \/ InsertInvoice(p) \/ PostPayment(p) \/ Reverse(p) \/ Lose(p)
      PROVE  IInv'
  BY <1>1, <1>5, ReadInvoiceKeeps, InsertInvoiceKeeps, PostPaymentKeeps, ReverseKeeps, LoseKeeps
<1>. QED
  BY <1>1, <1>2, <1>3, <1>4, <1>5 DEF Next

\* The invariant from which the theorems below follow: what a purchase, its
\* payable, its layers and its entry have in common, and what requests know.
THEOREM Inductive == Spec => []IInv
<1>. QED
  BY Initial, StepKeeps, PTL DEF Spec

\* Every variable keeps its type: no plan grows, and no payment, output or
\* posting takes a counter below zero.
THEOREM TypeCorrect == Spec => []TypeOK
<1>1. IInv => TypeOK
  BY DEF IInv, Typed, Plans, GoodPlan, TypeOK
<1>. QED
  BY <1>1, Inductive, PTL

\* The void of a purchase races its payments: any number of payments and voids
\* leave a void purchase paid only if they crossed.
THEOREM VoidsAreUnpaid == Spec => []VoidIsUnpaid
<1>1. IInv => VoidIsUnpaid
  BY DEF IInv, Sound, VoidIsUnpaid
<1>. QED
  BY <1>1, Inductive, PTL

\* The check of a void on the stock is stale by its commit, and still no
\* consumption loses its layer: the foreign key is enough.
THEOREM ConsumedLayersAlwaysStay == Spec => []ConsumedLayersStay
<1>1. IInv => ConsumedLayersStay
  BY DEF IInv, Sound, ConsumedLayersStay
<1>. QED
  BY <1>1, Inductive, PTL

\* The payable account of the journal differs from the payables by what was
\* withheld, however many payments and postings interleave.
THEOREM PayablesAgree == Spec => []PayableAgrees
<1>1. IInv => PayableAgrees
  <2>1. SUFFICES ASSUME IInv, NEW i \in owing
                 PROVE  /\ balance[i] = terms[i].total - paid[i]
                        /\ entry[i] # NotPosted /\ settled[i] = paid[i] =>
                             /\ entry[i] - settled[i] =
                                  balance[i] - Smaller(terms[i].withheld, terms[i].total)
                             /\ i \notin reversed
    BY DEF PayableAgrees
  <2>2. i \in Invoices /\ Sound(i)
    BY <2>1 DEF IInv, Typed
  <2>3. /\ terms[i] \in Terms /\ paid[i] \in Nat /\ settled[i] \in Nat
        /\ terms[i].total \in Nat /\ terms[i].withheld \in Nat
    BY <2>1, <2>2, TermType DEF IInv, Typed
  <2>4. /\ balance[i] = terms[i].total - paid[i] /\ ~terms[i].cash
        /\ i \notin reversed
        /\ entry[i] # NotPosted => entry[i] = Net(terms[i])
    BY <2>1, <2>2 DEF Sound
  <2>5. Net(terms[i]) = terms[i].total - Smaller(terms[i].withheld, terms[i].total)
    BY <2>3, <2>4, NetIsTotalLess
  <2>6. Smaller(terms[i].withheld, terms[i].total) \in Nat
    BY <2>3 DEF Smaller
  <2>. QED
    BY <2>3, <2>4, <2>5, <2>6
<1>. QED
  BY <1>1, Inductive, PTL

\* Part of PlanAccounts: whoever paid an installment, its status says whether it
\* is paid in part, in whole or not at all.
InstallmentsTell == \A i \in Invoices : \A k \in DOMAIN plan[i] : Tells(plan[i][k])

THEOREM InstallmentsAlwaysTell == Spec => []InstallmentsTell
<1>1. IInv => InstallmentsTell
  BY DEF IInv, Plans, GoodPlan, InstallmentsTell
<1>. QED
  BY <1>1, Inductive, PTL

-----------------------------------------------------------------------------
(* The installments of a payable account for its total and its payments. *)

LEMMA PlanFacts ==
  ASSUME NEW pl, GoodPlan(pl)
  PROVE  /\ Len(pl) \in Nat /\ DOMAIN pl = 1..Len(pl) /\ IsFiniteSet(DOMAIN pl)
         /\ \A k \in DOMAIN pl : pl[k].amount \in Int /\ pl[k].paid \in Nat
<1>1. pl \in Seq(Installment) /\ Len(pl) \in Nat /\ DOMAIN pl = 1..Len(pl)
  BY DEF GoodPlan
<1>2. IsFiniteSet(1..Len(pl))
  BY <1>1, FS_Interval
<1>3. \A k \in 1..Len(pl) : pl[k] \in Installment
  BY <1>1
<1> QED BY <1>1, <1>2, <1>3 DEF Installment

\* The parts of a split add up to what is split, the difference of the rounding
\* included.
LEMMA SplitSum ==
  ASSUME NEW total \in Nat, NEW n \in Nat \ {0}, NEW f,
         \A k \in 1..n : f[k] = SplitEven(total, n)[k]
  PROVE  SumFunctionOnSet(f, 1..n) = total
<1> DEFINE base == (2 * total + n) \div (2 * n)
           S == 1..(n - 1)
<1>1. base \in Int
  OBVIOUS
<1>2. IsFiniteSet(S) /\ Cardinality(S) = n - 1
  <2>1. 1 \in Int /\ n - 1 \in Int
    OBVIOUS
  <2>2. IsFiniteSet(S) /\ Cardinality(S) = IF 1 > n - 1 THEN 0 ELSE (n - 1) - 1 + 1
    BY <2>1, FS_Interval
  <2> QED BY <2>2
<1>3. 1..n = S \union {n} /\ n \notin S /\ n \in 1..n
  OBVIOUS
<1>4. (\A k \in S : f[k] = base) /\ f[n] = total - (n - 1) * base
  <2>1. \A k \in 1..n : f[k] = IF k < n THEN base ELSE total - (n - 1) * base
    BY DEF SplitEven
  <2> HIDE DEF base
  <2> QED BY <2>1
<1>5. (n - 1) * base \in Int
  BY <1>1
<1> HIDE DEF base, S
<1>6. SumFunctionOnSet(f, S) = (n - 1) * base
  BY <1>1, <1>2, <1>4, SumConstant
<1>7. SumFunctionOnSet(f, S \union {n}) = f[n] + SumFunctionOnSet(f, S)
  BY <1>1, <1>2, <1>3, <1>4, <1>5, SumAdd
<1>8. SumFunctionOnSet(f, 1..n) = f[n] + SumFunctionOnSet(f, S)
  BY <1>3, <1>7, Zenon
<1>9. PICK b \in Int : b = (n - 1) * base
  BY <1>5
<1>10. f[n] = total - b /\ SumFunctionOnSet(f, S) = b
  BY <1>4, <1>6, <1>9
<1> QED BY <1>8, <1>9, <1>10

\* A new plan owes the total, and nothing of it is paid.
LEMMA CreditPlanSums ==
  ASSUME NEW t \in Terms, CreditPlan(t) # <<>>
  PROVE  AmountOf(CreditPlan(t)) = t.total /\ PaidOf(CreditPlan(t)) = 0
<1> DEFINE n == t.cuotas
           part(k) == [amount |-> SplitEven(t.total, n)[k], paid |-> 0, status |-> "PENDING"]
           pl == [k \in 1..n |-> part(k)]
           amounts == [k \in DOMAIN pl |-> pl[k].amount]
           paids == [k \in DOMAIN pl |-> pl[k].paid]
<1>1. CreditPlan(t) = pl /\ n \in Nat \ {0} /\ t.total \in Nat
  BY TermType, ConstantsAssumption DEF CreditPlan
<1>2. /\ AmountOf(pl) = SumFunctionOnSet(amounts, DOMAIN amounts)
      /\ PaidOf(pl) = SumFunctionOnSet(paids, DOMAIN paids)
  BY DEF AmountOf, PaidOf, SumFunction
<1>3. /\ DOMAIN amounts = 1..n /\ DOMAIN paids = 1..n
      /\ \A k \in 1..n : amounts[k] = SplitEven(t.total, n)[k] /\ paids[k] = 0
  OBVIOUS
<1>4. IsFiniteSet(1..n)
  BY <1>1, FS_Interval
<1> HIDE DEF pl, n, amounts, paids
<1>5. SumFunctionOnSet(amounts, 1..n) = t.total
  BY <1>1, <1>3, SplitSum
<1>6. SumFunctionOnSet(paids, 1..n) = 0
  BY <1>3, <1>4, SumZero
<1> QED BY <1>1, <1>2, <1>3, <1>5, <1>6

\* An allocation changes what is paid of the installment it names, and no amount.
LEMMA PaidIntoSums ==
  ASSUME NEW pl, GoodPlan(pl), NEW a \in Nat, NEW k \in 1..Len(pl)
  PROVE  /\ PaidInto(pl, k, a) # <<>>
         /\ AmountOf(PaidInto(pl, k, a)) = AmountOf(pl)
         /\ PaidOf(PaidInto(pl, k, a)) = PaidOf(pl) + a
<1> DEFINE new == PaidInto(pl, k, a)
           amounts == [j \in DOMAIN pl |-> pl[j].amount]
           paids == [j \in DOMAIN pl |-> pl[j].paid]
           newAmounts == [j \in DOMAIN new |-> new[j].amount]
           newPaids == [j \in DOMAIN new |-> new[j].paid]
           S == DOMAIN pl
<1>1. /\ IsFiniteSet(S) /\ k \in S /\ k # 0
      /\ \A j \in S : pl[j].amount \in Int /\ pl[j].paid \in Nat
  BY PlanFacts
<1>2. /\ DOMAIN new = S
      /\ \A j \in S \ {k} : new[j] = pl[j]
      /\ new[k].amount = pl[k].amount /\ new[k].paid = pl[k].paid + a
  <2>1. PICK x : x = [amount |-> pl[k].amount, paid |-> pl[k].paid + a,
                      status |-> IF pl[k].paid + a >= pl[k].amount THEN "PAID"
                                 ELSE "PARTIALLY_PAID"]
    OBVIOUS
  <2>2. new = [pl EXCEPT ![k] = x]
    BY <1>1, <2>1 DEF PaidInto
  <2> HIDE DEF new
  <2> QED BY <1>1, <2>1, <2>2
<1>3. /\ AmountOf(pl) = SumFunctionOnSet(amounts, DOMAIN amounts)
      /\ PaidOf(pl) = SumFunctionOnSet(paids, DOMAIN paids)
      /\ AmountOf(new) = SumFunctionOnSet(newAmounts, DOMAIN newAmounts)
      /\ PaidOf(new) = SumFunctionOnSet(newPaids, DOMAIN newPaids)
  BY DEF AmountOf, PaidOf, SumFunction
<1> HIDE DEF new
<1>4. /\ DOMAIN amounts = S /\ DOMAIN paids = S
      /\ DOMAIN newAmounts = S /\ DOMAIN newPaids = S
      /\ \A j \in S : newAmounts[j] = amounts[j]
      /\ \A j \in S \ {k} : newPaids[j] = paids[j]
      /\ \A j \in S : paids[j] \in Int
      /\ newPaids[k] = paids[k] + a
  BY <1>1, <1>2
<1> HIDE DEF amounts, paids, newAmounts, newPaids, S
<1>5. SumFunctionOnSet(newAmounts, S) = SumFunctionOnSet(amounts, S)
  BY <1>1, <1>4, SumAgree
<1>6. SumFunctionOnSet(newPaids, S) = SumFunctionOnSet(paids, S) - paids[k] + newPaids[k]
  <2>1. paids[k] \in Int /\ newPaids[k] = paids[k] + a
    BY <1>1, <1>4
  <2>2. newPaids[k] \in Int
    BY <2>1
  <2>3. IsFiniteSet(S) /\ k \in S
    BY <1>1
  <2>4. (\A j \in S : paids[j] \in Int) /\ \A j \in S \ {k} : newPaids[j] = paids[j]
    BY <1>4
  <2> QED BY <2>2, <2>3, <2>4, SumDiffer, ZenonT(60)
<1>7. SumFunctionOnSet(paids, S) \in Int /\ paids[k] \in Int
  BY <1>1, <1>4, SumType
<1>8. new # <<>>
  BY <1>1, <1>2 DEF S
<1> QED BY <1>3, <1>4, <1>5, <1>6, <1>7, <1>8 DEF new

\* Installments pl of a payable opened with the total t, of whose payments m
\* named one of them.
Account(pl, t, m) == pl # <<>> => AmountOf(pl) = t /\ PaidOf(pl) = m

AllAccount ==
  \A i \in Invoices :
    /\ status[i] = "none" => named[i] = 0
    /\ i \in owing => Account(plan[i], terms[i].total, named[i])

LEMMA IssueAccounts ==
  ASSUME IInv, AllAccount, NEW p \in Procs, NEW i \in Invoices, NEW t \in Terms, Issue(p, i, t)
  PROVE  AllAccount'
<1>1. /\ status[i] = "none"
      /\ status' = [status EXCEPT ![i] = "ISSUED"]
      /\ terms' = [terms EXCEPT ![i] = t]
      /\ owing' \subseteq owing \union {i}
      /\ plan' = [plan EXCEPT ![i] = CreditPlan(t)]
      /\ named' = named
  BY DEF Issue
<1>2. Typed /\ Plans
  BY DEF IInv
<1> SUFFICES ASSUME NEW j \in Invoices
             PROVE  /\ status'[j] = "none" => named'[j] = 0
                    /\ j \in owing' => Account(plan'[j], terms'[j].total, named'[j])
  BY DEF AllAccount
<1>3. CASE j = i
  <2>1. /\ status'[j] = "ISSUED" /\ plan'[j] = CreditPlan(t) /\ terms'[j] = t
        /\ named'[j] = 0
    BY <1>1, <1>2, <1>3 DEF AllAccount, Typed, Plans
  <2> QED BY <2>1, CreditPlanSums DEF Account
<1>4. CASE j # i
  BY <1>1, <1>2, <1>4 DEF AllAccount, Typed, Plans
<1> QED BY <1>3, <1>4

LEMMA PaymentAccounts ==
  ASSUME IInv, AllAccount, NEW p \in Procs, Payment(p)
  PROVE  AllAccount'
<1>1. PICK asked \in [Invoices -> Payments \union {0}],
           inst \in [Invoices -> 0..MaxCuotas] :
      LET amount == Applied(asked) IN
        /\ \A i \in Invoices :
             /\ asked[i] > 0 => status[i] # "none"
             /\ amount[i] > 0 => i \in owing
             /\ inst[i] <= IF amount[i] = 0 THEN 0 ELSE Len(plan[i])
        /\ paid' = [i \in Invoices |-> paid[i] + amount[i]]
        /\ named' = [i \in Invoices |-> named[i] + IF inst[i] = 0 THEN 0 ELSE amount[i]]
        /\ balance' = [i \in Invoices |-> balance[i] - amount[i]]
        /\ plan' = [i \in Invoices |-> PaidInto(plan[i], inst[i], amount[i])]
        /\ crossed' = crossed \union
             {i \in Invoices : /\ amount[i] > 0
                               /\ \E q \in Procs : req[q].stage = "void" /\ req[q].invoice = i}
        /\ req' = [req EXCEPT ![p] = [Todo("payment", @.invoice) EXCEPT !.alloc = amount]]
  BY DEF Payment
<1> DEFINE amount == Applied(asked)
<1>2. UNCHANGED <<status, terms, owing>> /\ Typed /\ Plans
  BY DEF Payment, IInv
<1> SUFFICES ASSUME NEW i \in Invoices
             PROVE  /\ status[i] = "none" => named'[i] = 0
                    /\ i \in owing => Account(plan'[i], terms[i].total, named'[i])
  BY <1>2 DEF AllAccount
<1>3. PICK a, k, pl : a = amount[i] /\ k = inst[i] /\ pl = plan[i]
  OBVIOUS
<1>4. a \in Nat /\ (status[i] = "none" => a = 0)
  <2>1. asked[i] \in Nat /\ (asked[i] > 0 => status[i] # "none")
    <3>1. asked[i] \in Nat
      BY <1>1, ConstantsAssumption
    <3> QED BY <1>1, <3>1
  <2>2. a = IF status[i] # "none" /\ terms[i].cash THEN 0 ELSE asked[i]
    BY <1>3 DEF Applied
  <2> QED BY <2>1, <2>2
<1>5. GoodPlan(pl) /\ k \in 0..Len(pl) /\ (a = 0 => k = 0)
  <2>1. GoodPlan(pl) /\ Len(pl) \in Nat
    BY <1>2, <1>3, PlanFacts DEF Plans
  <2>2. k \in 0..MaxCuotas /\ k <= IF a = 0 THEN 0 ELSE Len(pl)
    BY <1>1, <1>3
  <2> QED BY <2>1, <2>2, ConstantsAssumption
<1>6. /\ plan'[i] = PaidInto(pl, k, a)
      /\ named'[i] = named[i] + IF k = 0 THEN 0 ELSE a
      /\ named[i] \in Nat
  <2>1. named[i] \in Nat
    BY <1>2 DEF Typed
  <2>2. plan'[i] = PaidInto(plan[i], inst[i], amount[i])
    BY <1>1
  <2>3. named'[i] = named[i] + IF inst[i] = 0 THEN 0 ELSE amount[i]
    BY <1>1
  <2> HIDE DEF amount
  <2> QED BY <1>3, <2>1, <2>2, <2>3
<1>7. status[i] = "none" => named'[i] = 0
  BY <1>4, <1>5, <1>6 DEF AllAccount
<1>8. ASSUME i \in owing PROVE Account(plan'[i], terms[i].total, named'[i])
  <2>1. Account(pl, terms[i].total, named[i])
    BY <1>3, <1>8 DEF AllAccount
  <2>2. CASE k = 0
    <3>1. plan'[i] = pl /\ named'[i] = named[i]
      BY <1>6, <2>2 DEF PaidInto
    <3> QED BY <2>1, <3>1
  <2>3. CASE k # 0
    <3>1. k \in 1..Len(pl) /\ pl # <<>>
      BY <1>5, <2>3, PlanFacts
    <3>2. AmountOf(plan'[i]) = AmountOf(pl) /\ PaidOf(plan'[i]) = PaidOf(pl) + a
      BY <1>4, <1>5, <1>6, <3>1, PaidIntoSums
    <3> QED BY <1>6, <2>1, <2>3, <3>1, <3>2 DEF Account
  <2> QED BY <2>2, <2>3
<1> QED BY <1>7, <1>8

LEMMA CommitVoidAccounts ==
  ASSUME IInv, AllAccount, NEW p \in Procs, CommitVoid(p)
  PROVE  AllAccount'
<1>1. PICK v \in Invoices : v = req[p].invoice
  BY DEF IInv, Typed, Request
<1>2. /\ status' = [status EXCEPT ![v] = "VOID"]
      /\ owing' = owing \ {v}
      /\ plan' = [plan EXCEPT ![v] = <<>>]
      /\ UNCHANGED <<terms, named>>
  BY <1>1 DEF CommitVoid
<1> QED BY <1>2 DEF AllAccount, IInv, Typed, Plans

LEMMA StepAccounts == IInv /\ AllAccount /\ [Next]_vars => AllAccount'
<1> SUFFICES ASSUME IInv, AllAccount, [Next]_vars PROVE AllAccount'
  OBVIOUS
<1>1. ASSUME UNCHANGED <<status, terms, owing, plan, named>> PROVE AllAccount'
  BY <1>1 DEF AllAccount, Account
<1>2. CASE UNCHANGED vars
  BY <1>1, <1>2 DEF vars
<1>3. ASSUME NEW p \in Procs, Create(p) \/ CreateWithStock(p) PROVE AllAccount'
  BY <1>3, IssueAccounts DEF Create, CreateWithStock
<1>4. ASSUME NEW p \in Procs,
             \/ StartVoid(p) \/ ReadLayer(p) \/ Consume(p) \/ ReadInvoice(p)
             \/ InsertInvoice(p) \/ PostPayment(p) \/ Reverse(p) \/ Lose(p)
      PROVE  AllAccount'
  BY <1>1, <1>4 DEF StartVoid, ReadLayer, Consume, ReadInvoice, InsertInvoice, PostPayment,
                    Reverse, Lose, payable
<1> QED BY <1>2, <1>3, <1>4, PaymentAccounts, CommitVoidAccounts DEF Next

\* The installments of a payable are parts of the total it was opened with, the
\* rounding included, and account for every payment that named one of them.
THEOREM PlansAlwaysAccount == Spec => []PlanAccounts
<1>1. Init => AllAccount
  BY DEF Init, AllAccount, None
<1>2. IInv /\ AllAccount => PlanAccounts
  BY DEF IInv, Typed, Plans, GoodPlan, AllAccount, Account, PlanAccounts
<1> QED BY <1>1, <1>2, StepAccounts, Inductive, PTL DEF Spec
=============================================================================
