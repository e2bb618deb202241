------------------------- MODULE ReceivablesProofs -------------------------
(***************************************************************************)
(* The receivables of Receivables: what is proved for any number of        *)
(* requests and invoices, and any amounts and plans.                       *)
(***************************************************************************)
EXTENDS Receivables, SumTheorems, TLAPS

\* Only a receipt that names an installment revives one of a voided plan.
OneFate(pl) ==
  \/ \A k \in DOMAIN pl : pl[k].status = "CANCELED"
  \/ \A k \in DOMAIN pl : pl[k].status # "CANCELED"

\* What the documents and their entries have in common.
Books(i) ==
  /\ status[i] = "none" => received[i] = 0 /\ entry[i] = NotPosted /\ i \notin edited
  /\ i \in reversed => status[i] = "VOID"
  /\ entry[i] # NotPosted /\ i \notin edited => entry[i] = Net(terms[i])

\* What a request knows of its invoice.
Knows(r) ==
  /\ r.stage \in {"post", "insert", "void", "reverse"} => status[r.invoice] # "none"
  /\ r.stage = "reverse" => status[r.invoice] = "VOID"
  /\ r.stage = "insert" /\ r.invoice \notin edited => r.net = Net(terms[r.invoice])

\* A plan of the right type, whose statuses tell what is paid.
GoodPlan(pl) ==
  /\ pl \in Seq(Installment)
  /\ Len(pl) <= MaxCuotas
  /\ \A k \in DOMAIN pl : Tells(pl[k])

\* A plan that only receipts without a named installment have paid.
OrderlyPlan(pl) == OneFate(pl) /\ InOrder(pl)

-----------------------------------------------------------------------------
(* Amounts. *)

LEMMA TermType ==
  ASSUME NEW t \in Terms
  PROVE  /\ t \in [total : Nat, withheld : Nat, down : Nat, cuotas : 0..MaxCuotas]
         /\ Remaining(t) \in Nat
         /\ Net(t) \in Nat
<1>1. t \in [total : Nat, withheld : Nat, down : Nat, cuotas : 0..MaxCuotas]
  BY ConstantsAssumption
<1>. QED
  BY <1>1 DEF Remaining, Net, Positive

LEMMA SplitType ==
  ASSUME NEW total \in Nat, NEW n \in Nat \ {0}, NEW k \in 1..n
  PROVE  SplitEven(total, n)[k] \in Int
<1>. DEFINE base == (2 * total + n) \div (2 * n)
<1>1. base \in Int
  OBVIOUS
<1>2. total - (n - 1) * base \in Int
  BY <1>1
<1>. QED
  BY <1>1, <1>2 DEF SplitEven

LEMMA PlanType ==
  ASSUME NEW t \in Terms
  PROVE  GoodPlan(CreditPlan(t)) /\ OrderlyPlan(CreditPlan(t))
<1>. DEFINE pl == CreditPlan(t)
<1>0. Remaining(t) \in Nat /\ t.cuotas \in 0..MaxCuotas /\ MaxCuotas \in Nat
  BY TermType, ConstantsAssumption
<1>1. CASE Remaining(t) = 0 \/ t.cuotas = 0
  <2>1. pl = <<>>
    BY <1>1 DEF CreditPlan
  <2>. QED
    BY <2>1, <1>0 DEF GoodPlan, OrderlyPlan, OneFate, InOrder
<1>2. CASE ~(Remaining(t) = 0 \/ t.cuotas = 0)
  <2>. DEFINE n == t.cuotas
  <2>1. n \in Nat \ {0} /\ n <= MaxCuotas
    BY <1>0, <1>2
  <2>. DEFINE part(k) == [amount |-> SplitEven(Remaining(t), n)[k], paid |-> 0,
                          status |-> "PENDING"]
  <2>2. pl = [k \in 1..n |-> part(k)]
    BY <1>2 DEF CreditPlan
  <2>3. ASSUME NEW k \in 1..n PROVE part(k) \in Installment
    BY <1>0, <2>1, SplitType DEF Installment
  <2>4. pl \in Seq(Installment) /\ Len(pl) = n
    <3>. HIDE DEF part, n, pl
    <3>. QED
      BY <2>1, <2>2, <2>3
  <2>5. \A k \in 1..n : pl[k].paid = 0 /\ pl[k].status = "PENDING"
    BY <2>2
  <2>6. DOMAIN pl = 1..n
    BY <2>2
  <2>. HIDE DEF pl, n
  <2>7. GoodPlan(pl)
    BY <2>1, <2>4, <2>5, <2>6 DEF GoodPlan, Tells
  <2>8. OrderlyPlan(pl)
    BY <2>1, <2>4, <2>5, <2>6 DEF OrderlyPlan, OneFate, InOrder
  <2>. QED
    BY <2>7, <2>8 DEF pl
<1>. QED
  BY <1>1, <1>2

-----------------------------------------------------------------------------
(* Plans. *)

LEMMA CanceledPlan ==
  ASSUME NEW pl, GoodPlan(pl)
  PROVE  /\ GoodPlan(Canceled(pl))
         /\ OrderlyPlan(pl) => OrderlyPlan(Canceled(pl))
<1>. DEFINE new == Canceled(pl)
<1>1. /\ pl \in Seq(Installment)
      /\ Len(pl) \in Nat /\ DOMAIN pl = 1..Len(pl)
      /\ \A k \in 1..Len(pl) : pl[k] \in Installment
  BY DEF GoodPlan
<1>2. /\ DOMAIN new = 1..Len(pl)
      /\ \A k \in 1..Len(pl) : new[k] = [pl[k] EXCEPT !.status = "CANCELED"]
  BY <1>1 DEF Canceled
<1>3. \A k \in 1..Len(pl) : /\ new[k] \in Installment
                            /\ new[k].status = "CANCELED"
                            /\ new[k].paid = pl[k].paid
                            /\ new[k].amount = pl[k].amount
  <2>1. SUFFICES ASSUME NEW k \in 1..Len(pl)
                 PROVE  /\ new[k] \in Installment
                        /\ new[k].status = "CANCELED"
                        /\ new[k].paid = pl[k].paid
                        /\ new[k].amount = pl[k].amount
    OBVIOUS
  <2>2. PICK c \in Installment : c = pl[k]
    BY <1>1
  <2>3. new[k] = [c EXCEPT !.status = "CANCELED"]
    BY <1>2, <2>2
  <2>. QED
    BY <2>2, <2>3 DEF Installment
<1>4. new = [k \in 1..Len(pl) |-> new[k]]
  BY <1>1, <1>2 DEF Canceled
<1>. HIDE DEF new
<1>5. new \in Seq(Installment) /\ Len(new) = Len(pl)
  BY <1>1, <1>3, <1>4
<1>6. GoodPlan(new)
  BY <1>2, <1>3, <1>5 DEF GoodPlan, Tells
<1>7. OrderlyPlan(pl) => OrderlyPlan(new)
  BY <1>1, <1>2, <1>3, <1>5 DEF OrderlyPlan, OneFate, InOrder, Pending
<1>. QED
  BY <1>6, <1>7 DEF new

\* One installment of the plan after a receipt that names none: what it had
\* left to pay and what it has left to give.
LEMMA PaysOne ==
  ASSUME NEW c \in Installment, Tells(c), NEW a \in Nat, NEW rest \in 0..a, NEW next \in 0..a,
         next = rest - Pay(c, rest),
         NEW d, d = IF next = rest THEN c ELSE Paid(c, rest - next)
  PROVE  /\ d \in Installment
         /\ Tells(d)
         /\ d.amount = c.amount
         /\ next = rest => d = c
         /\ next # rest => Payable(c) /\ rest > 0
         /\ next > 0 /\ c.status # "CANCELED" => Pending(d) <= 0
         /\ d.status = "CANCELED" <=> c.status = "CANCELED"
<1>0. /\ c.amount \in Int /\ c.paid \in Nat
      /\ c.status \in {"PENDING", "PARTIALLY_PAID", "PAID", "CANCELED"}
  BY DEF Installment
<1>1. CASE next = rest
  <2>1. d = c
    BY <1>1
  <2>2. next > 0 => ~Payable(c)
    BY <1>0, <1>1 DEF Pay, Payable, Pending
  <2>. QED
    BY <1>0, <1>1, <2>1, <2>2 DEF Payable, Pending, Tells
<1>2. CASE next # rest
  <2>1. Payable(c)
    BY <1>0, <1>2 DEF Pay
  <2>2. PICK pay \in Nat : pay = rest - next
    BY <1>0, <1>2, <2>1 DEF Pay, Payable, Pending
  <2>3. /\ pay > 0 /\ pay <= c.amount - c.paid
        /\ next > 0 => pay = c.amount - c.paid
    BY <1>0, <1>2, <2>1, <2>2 DEF Pay, Payable, Pending
  <2>4. PICK s \in {"PAID", "PARTIALLY_PAID"} :
          s = IF pay = c.amount - c.paid THEN "PAID" ELSE "PARTIALLY_PAID"
    OBVIOUS
  <2>5. /\ d \in Installment
        /\ d.amount = c.amount
        /\ d.paid = c.paid + pay
        /\ d.status = IF pay = c.amount - c.paid THEN "PAID" ELSE "PARTIALLY_PAID"
    <3>1. PICK n \in Nat : n = c.paid + pay
      BY <1>0
    <3>2. d = [c EXCEPT !.paid = n, !.status = s]
      BY <1>2, <2>2, <2>4, <3>1 DEF Paid, Pending
    <3>3. d \in Installment /\ d.amount = c.amount /\ d.paid = n /\ d.status = s
      BY <3>2 DEF Installment
    <3>. QED
      BY <2>4, <3>1, <3>3
  <2>6. Tells(d)
    BY <1>0, <2>3, <2>5 DEF Tells
  <2>7. c.status # "CANCELED"
    BY <2>1 DEF Payable
  <2>8. rest > 0
    BY <2>2, <2>3
  <2>. QED
    BY <1>0, <1>2, <2>1, <2>3, <2>5, <2>6, <2>7, <2>8 DEF Pending
<1>. QED
  BY <1>1, <1>2

LEMMA OldestPlan ==
  ASSUME NEW pl, GoodPlan(pl), NEW a \in Nat, NEW new \in PaidOldest(pl, a)
  PROVE  GoodPlan(new) /\ Len(new) = Len(pl) /\ (OrderlyPlan(pl) => OrderlyPlan(new))
<1>1. /\ pl \in Seq(Installment)
      /\ Len(pl) \in Nat /\ DOMAIN pl = 1..Len(pl)
      /\ \A k \in 1..Len(pl) : pl[k] \in Installment /\ Tells(pl[k])
  BY DEF GoodPlan
<1>2. PICK rest \in Rests(pl, a) :
        new = [k \in DOMAIN pl |-> IF rest[k] = rest[k - 1] THEN pl[k]
                                   ELSE Paid(pl[k], rest[k - 1] - rest[k])]
  BY DEF PaidOldest
<1>3. /\ rest \in [0..Len(pl) -> 0..a]
      /\ \A k \in 1..Len(pl) : rest[k] = rest[k - 1] - Pay(pl[k], rest[k - 1])
  BY DEF Rests
<1>4. \A k \in 1..Len(pl) :
        /\ new[k] \in Installment
        /\ Tells(new[k])
        /\ new[k].amount = pl[k].amount
        /\ rest[k] = rest[k - 1] => new[k] = pl[k]
        /\ rest[k] # rest[k - 1] => Payable(pl[k]) /\ rest[k - 1] > 0
        /\ rest[k] > 0 /\ pl[k].status # "CANCELED" => Pending(new[k]) <= 0
        /\ new[k].status = "CANCELED" <=> pl[k].status = "CANCELED"
  <2>1. SUFFICES ASSUME NEW k \in 1..Len(pl)
                 PROVE
                   /\ new[k] \in Installment
                   /\ Tells(new[k])
                   /\ new[k].amount = pl[k].amount
                   /\ rest[k] = rest[k - 1] => new[k] = pl[k]
                   /\ rest[k] # rest[k - 1] => Payable(pl[k]) /\ rest[k - 1] > 0
                   /\ rest[k] > 0 /\ pl[k].status # "CANCELED" => Pending(new[k]) <= 0
                   /\ new[k].status = "CANCELED" <=> pl[k].status = "CANCELED"
    OBVIOUS
  <2>2. k - 1 \in 0..Len(pl) /\ k \in 0..Len(pl)
    BY <1>1
  <2>3. rest[k] \in 0..a /\ rest[k - 1] \in 0..a
    BY <1>3, <2>2
  <2>4. new[k] = IF rest[k] = rest[k - 1] THEN pl[k] ELSE Paid(pl[k], rest[k - 1] - rest[k])
    BY <1>1, <1>2
  <2>5. rest[k] = rest[k - 1] - Pay(pl[k], rest[k - 1])
    BY <1>3
  <2>6. pl[k] \in Installment /\ Tells(pl[k])
    BY <1>1
  <2>. QED
    BY <2>3, <2>4, <2>5, <2>6, PaysOne
<1>5. DOMAIN new = 1..Len(pl)
  BY <1>1, <1>2
<1>6. new = [k \in 1..Len(pl) |-> new[k]]
  BY <1>1, <1>2
<1>7. new \in Seq(Installment) /\ Len(new) = Len(pl)
  BY <1>1, <1>4, <1>6
<1>8. GoodPlan(new)
  BY <1>4, <1>5, <1>7 DEF GoodPlan
<1>9. ASSUME OrderlyPlan(pl) PROVE OrderlyPlan(new)
  <2>1. OneFate(new)
    BY <1>1, <1>4, <1>5, <1>9 DEF OrderlyPlan, OneFate
  <2>2. InOrder(new)
    <3>1. SUFFICES ASSUME NEW k \in 1..(Len(pl) - 1), new[k + 1].paid > 0
                   PROVE  Pending(new[k]) <= 0
      BY <1>7 DEF InOrder
    <3>2. k \in 1..Len(pl) /\ k + 1 \in 1..Len(pl) /\ (k + 1) - 1 = k
      BY <1>1
    <3>3. CASE rest[k + 1] = rest[k]
      <4>1. new[k + 1] = pl[k + 1]
        BY <1>4, <3>2, <3>3
      <4>2. Pending(pl[k]) <= 0
        BY <1>9, <3>1, <4>1 DEF OrderlyPlan, InOrder
      <4>3. ~Payable(pl[k])
        BY <1>1, <3>2, <4>2 DEF Payable, Pending, Installment
      <4>. QED
        BY <1>4, <3>2, <4>2, <4>3
    <3>4. CASE rest[k + 1] # rest[k]
      <4>1. Payable(pl[k + 1]) /\ rest[k] > 0
        BY <1>4, <3>2, <3>4
      <4>2. pl[k].status # "CANCELED"
        BY <1>1, <1>9, <3>2, <4>1 DEF OrderlyPlan, OneFate, Payable
      <4>. QED
        BY <1>4, <3>2, <4>1, <4>2
    <3>. QED
      BY <3>3, <3>4
  <2>. QED
    BY <2>1, <2>2 DEF OrderlyPlan
<1>. QED
  BY <1>7, <1>8, <1>9

LEMMA NamedPlan ==
  ASSUME NEW pl, GoodPlan(pl), NEW a \in Nat \ {0}, NEW k \in 1..Len(pl)
  PROVE  GoodPlan(PaidInto(pl, k, a))
<1>. DEFINE new == PaidInto(pl, k, a)
<1>1. /\ pl \in Seq(Installment)
      /\ Len(pl) \in Nat /\ DOMAIN pl = 1..Len(pl)
      /\ \A j \in 1..Len(pl) : pl[j] \in Installment /\ Tells(pl[j])
  BY DEF GoodPlan
<1>2. PICK c \in Installment : c = pl[k]
  BY <1>1
<1>3. c.amount \in Int /\ c.paid \in Nat
  BY DEF Installment
<1>4. PICK x : x = [amount |-> c.amount, paid |-> c.paid + a,
                    status |-> IF c.paid + a >= c.amount THEN "PAID" ELSE "PARTIALLY_PAID"]
  OBVIOUS
<1>5. x \in Installment
  BY <1>3, <1>4 DEF Installment
<1>6. Tells(x)
  BY <1>3, <1>4 DEF Tells
<1>7. new = [pl EXCEPT ![k] = x]
  BY <1>1, <1>2, <1>4 DEF PaidInto
<1>. HIDE DEF new
<1>8. new \in Seq(Installment) /\ Len(new) = Len(pl) /\ DOMAIN new = 1..Len(pl)
  BY <1>1, <1>5, <1>7
<1>9. \A j \in 1..Len(pl) : Tells(new[j])
  BY <1>1, <1>6, <1>7
<1>. QED
  BY <1>8, <1>9 DEF GoodPlan, new

LEMMA OutcomePlan ==
  ASSUME NEW pl, GoodPlan(pl), NEW a \in Nat, NEW k \in 0..Len(pl), a = 0 => k = 0,
         NEW new \in Outcomes(pl, a, k)
  PROVE  GoodPlan(new) /\ (k = 0 /\ OrderlyPlan(pl) => OrderlyPlan(new))
<1>1. CASE k = 0
  BY <1>1, OldestPlan DEF Outcomes
<1>2. CASE k # 0
  <2>1. a \in Nat \ {0} /\ k \in 1..Len(pl)
    BY <1>2 DEF GoodPlan
  <2>. QED
    BY <1>2, <2>1, NamedPlan DEF Outcomes
<1>. QED
  BY <1>1, <1>2

-----------------------------------------------------------------------------
(* What a plan owes.                                                       *)

\* A plan of an invoice that stands has no canceled installment, and one that
\* nothing can be paid into owes nothing on any of them.
Standing(pl) == \A k \in DOMAIN pl : pl[k].status # "CANCELED"

Stuck(pl) == \A k \in DOMAIN pl : ~Payable(pl[k])

PlanFacts(pl) ==
  /\ pl \in Seq(Installment)
  /\ Len(pl) \in Nat /\ DOMAIN pl = 1..Len(pl) /\ IsFiniteSet(DOMAIN pl)
  /\ \A k \in DOMAIN pl : pl[k] \in Installment /\ Tells(pl[k]) /\ Pending(pl[k]) \in Int

LEMMA GoodPlanFacts == ASSUME NEW pl, GoodPlan(pl) PROVE PlanFacts(pl)
<1>1. /\ pl \in Seq(Installment)
      /\ Len(pl) \in Nat /\ DOMAIN pl = 1..Len(pl)
      /\ \A k \in 1..Len(pl) : pl[k] \in Installment /\ Tells(pl[k])
  BY DEF GoodPlan
<1>2. IsFiniteSet(1..Len(pl))
  BY <1>1, FS_Interval
<1>3. \A c \in Installment : Pending(c) \in Int
  BY DEF Installment, Pending
<1> QED BY <1>1, <1>2, <1>3 DEF PlanFacts

LEMMA OwesOnSet ==
  ASSUME NEW pl, GoodPlan(pl)
  PROVE  \E f : /\ Owes(pl) = SumFunctionOnSet(f, DOMAIN pl)
                /\ \A k \in DOMAIN pl : f[k] = Pending(pl[k]) /\ f[k] \in Int
<1> DEFINE f == [k \in DOMAIN pl |-> Pending(pl[k])]
<1>1. Owes(pl) = SumFunctionOnSet(f, DOMAIN pl)
  BY DEF Owes, SumFunction
<1>2. \A k \in DOMAIN pl : f[k] = Pending(pl[k]) /\ f[k] \in Int
  BY GoodPlanFacts DEF PlanFacts
<1> HIDE DEF f
<1> QED BY <1>1, <1>2

LEMMA OwesType == ASSUME NEW pl, GoodPlan(pl) PROVE Owes(pl) \in Int
BY OwesOnSet, GoodPlanFacts, SumType DEF PlanFacts

\* The parts of a split add up to what is split, the difference of the rounding
\* included.
LEMMA SplitSum ==
  ASSUME NEW total \in Nat, NEW n \in Nat \ {0}, NEW f,
         \A k \in 1..n : f[k] = SplitEven(total, n)[k]
  PROVE  SumFunctionOnSet(f, 1..n) = total
<1> DEFINE base == (2 * total + n) \div (2 * n)
           S == 1..(n - 1)
<1>1. base \in Int
  OBVIOUS
<1>2. IsFiniteSet(S) /\ Cardinality(S) = n - 1
  <2>1. 1 \in Int /\ n - 1 \in Int
    OBVIOUS
  <2>2. IsFiniteSet(S) /\ Cardinality(S) = IF 1 > n - 1 THEN 0 ELSE (n - 1) - 1 + 1
    BY <2>1, FS_Interval
  <2> QED BY <2>2
<1>3. 1..n = S \union {n} /\ n \notin S /\ n \in 1..n
  OBVIOUS
<1>4. (\A k \in S : f[k] = base) /\ f[n] = total - (n - 1) * base
  <2>1. \A k \in 1..n : f[k] = IF k < n THEN base ELSE total - (n - 1) * base
    BY DEF SplitEven
  <2> HIDE DEF base
  <2> QED BY <2>1
<1>5. (n - 1) * base \in Int
  BY <1>1
<1> HIDE DEF base, S
<1>6. SumFunctionOnSet(f, S) = (n - 1) * base
  BY <1>1, <1>2, <1>4, SumConstant
<1>7. SumFunctionOnSet(f, S \union {n}) = f[n] + SumFunctionOnSet(f, S)
  BY <1>1, <1>2, <1>3, <1>4, <1>5, SumAdd
<1>8. SumFunctionOnSet(f, 1..n) = f[n] + SumFunctionOnSet(f, S)
  BY <1>3, <1>7, Zenon
<1>9. PICK b \in Int : b = (n - 1) * base
  BY <1>5
<1>10. f[n] = total - b /\ SumFunctionOnSet(f, S) = b
  BY <1>4, <1>6, <1>9
<1> QED BY <1>8, <1>9, <1>10

LEMMA CreditPlanOwes ==
  ASSUME NEW t \in Terms
  PROVE  /\ Standing(CreditPlan(t))
         /\ CreditPlan(t) # <<>> => Owes(CreditPlan(t)) = Remaining(t)
<1> DEFINE pl == CreditPlan(t)
           n == t.cuotas
<1>0. Remaining(t) \in Nat /\ n \in Nat
  BY TermType, ConstantsAssumption
<1>1. CASE Remaining(t) = 0 \/ n = 0
  BY <1>1 DEF CreditPlan, Standing
<1>2. CASE ~(Remaining(t) = 0 \/ n = 0)
  <2>1. pl = [k \in 1..n |-> [amount |-> SplitEven(Remaining(t), n)[k], paid |-> 0,
                              status |-> "PENDING"]]
    BY <1>2 DEF CreditPlan
  <2>2. DOMAIN pl = 1..n /\ \A k \in 1..n : /\ pl[k].status = "PENDING"
                                          /\ pl[k].paid = 0
                                          /\ pl[k].amount = SplitEven(Remaining(t), n)[k]
    BY <2>1
  <2>3. GoodPlan(pl)
    BY PlanType
  <2> HIDE DEF pl
  <2>4. PICK f : /\ Owes(pl) = SumFunctionOnSet(f, DOMAIN pl)
                 /\ \A k \in DOMAIN pl : f[k] = Pending(pl[k]) /\ f[k] \in Int
    BY <2>3, OwesOnSet
  <2>5. \A k \in 1..n : f[k] = SplitEven(Remaining(t), n)[k]
    <3> SUFFICES ASSUME NEW k \in 1..n PROVE f[k] = SplitEven(Remaining(t), n)[k]
      OBVIOUS
    <3>1. SplitEven(Remaining(t), n)[k] \in Int
      BY <1>0, <1>2, SplitType
    <3> QED BY <2>2, <2>4, <3>1 DEF Pending
  <2>6. Owes(pl) = Remaining(t)
    <3>1. n \in Nat \ {0}
      BY <1>0, <1>2
    <3> HIDE DEF n
    <3>2. SumFunctionOnSet(f, 1..n) = Remaining(t)
      BY <1>0, <2>5, <3>1, SplitSum
    <3> QED BY <2>2, <2>4, <3>2
  <2> QED BY <2>2, <2>6 DEF Standing, pl
<1> QED BY <1>1, <1>2

LEMMA StuckMeans ==
  ASSUME NEW pl, GoodPlan(pl), Standing(pl)
  PROVE  \A k \in DOMAIN pl : ~Payable(pl[k]) <=> Pending(pl[k]) <= 0
<1> SUFFICES ASSUME NEW k \in DOMAIN pl
             PROVE  ~Payable(pl[k]) <=> Pending(pl[k]) <= 0
  OBVIOUS
<1>1. pl[k] \in Installment /\ Tells(pl[k]) /\ pl[k].status # "CANCELED"
  BY GoodPlanFacts DEF PlanFacts, Standing
<1>2. /\ pl[k].amount \in Int /\ pl[k].paid \in Nat
      /\ pl[k].status \in {"PENDING", "PARTIALLY_PAID", "PAID"}
  BY <1>1 DEF Installment
<1> QED BY <1>1, <1>2 DEF Payable, Pending, Tells

\* Money that names an installment: the plan owes as much less, and a plan that
\* nothing more could be paid into stays so.
LEMMA NamedOwes ==
  ASSUME NEW pl, GoodPlan(pl), Standing(pl), NEW a \in Nat \ {0}, NEW k \in 1..Len(pl)
  PROVE  LET new == PaidInto(pl, k, a)
         IN  /\ Standing(new) /\ DOMAIN new = DOMAIN pl
             /\ Owes(new) = Owes(pl) - a
             /\ Stuck(pl) => Stuck(new)
<1> DEFINE new == PaidInto(pl, k, a)
<1>1. PlanFacts(pl) /\ GoodPlan(new)
  BY GoodPlanFacts, NamedPlan
<1>2. k \in DOMAIN pl /\ pl[k].amount \in Int /\ pl[k].paid \in Nat
  BY <1>1 DEF PlanFacts, Installment
<1>3. /\ DOMAIN new = DOMAIN pl
      /\ \A j \in DOMAIN pl : j # k => new[j] = pl[j]
      /\ new[k].amount = pl[k].amount /\ new[k].paid = pl[k].paid + a
      /\ new[k].status = IF pl[k].paid + a >= pl[k].amount THEN "PAID" ELSE "PARTIALLY_PAID"
  <2>1. PICK x : x = [amount |-> pl[k].amount, paid |-> pl[k].paid + a,
                      status |-> IF pl[k].paid + a >= pl[k].amount THEN "PAID"
                                 ELSE "PARTIALLY_PAID"]
    OBVIOUS
  <2>2. new = [pl EXCEPT ![k] = x]
    BY <1>2, <2>1 DEF PaidInto
  <2> HIDE DEF new
  <2> QED BY <1>2, <2>1, <2>2
<1> HIDE DEF new
<1>4. Standing(new)
  BY <1>3 DEF Standing
<1>5. PICK f : /\ Owes(pl) = SumFunctionOnSet(f, DOMAIN pl)
               /\ \A j \in DOMAIN pl : f[j] = Pending(pl[j]) /\ f[j] \in Int
  BY OwesOnSet
<1>6. PICK e : /\ Owes(new) = SumFunctionOnSet(e, DOMAIN new)
               /\ \A j \in DOMAIN new : e[j] = Pending(new[j]) /\ e[j] \in Int
  BY <1>1, OwesOnSet
<1>7. e[k] = f[k] - a
  BY <1>2, <1>3, <1>5, <1>6 DEF Pending
<1>8. \A j \in DOMAIN pl \ {k} : e[j] = f[j]
  BY <1>3, <1>5, <1>6
<1>9. SumFunctionOnSet(e, DOMAIN pl) = SumFunctionOnSet(f, DOMAIN pl) - f[k] + e[k]
  <2>1. /\ IsFiniteSet(DOMAIN pl) /\ e[k] \in Int
        /\ \A j \in DOMAIN pl : f[j] \in Int
    BY <1>1, <1>2, <1>3, <1>5, <1>6 DEF PlanFacts
  <2> QED BY <1>2, <1>8, <2>1, SumDiffer
<1>10. Owes(pl) \in Int
  BY OwesType
<1>11. Owes(new) = Owes(pl) - a
  BY <1>2, <1>3, <1>5, <1>6, <1>7, <1>9, <1>10
<1>12. ASSUME Stuck(pl) PROVE Stuck(new)
  <2> SUFFICES ASSUME NEW j \in DOMAIN new PROVE ~Payable(new[j])
    BY DEF Stuck
  <2>1. CASE j = k
    <3>1. pl[k].amount - pl[k].paid <= 0
      BY <1>2, <1>12, StuckMeans DEF Stuck, Pending
    <3> QED BY <1>2, <1>3, <2>1, <3>1 DEF Payable
  <2>2. CASE j # k
    BY <1>3, <1>12, <2>2 DEF Stuck
  <2> QED BY <2>1, <2>2
<1> QED BY <1>3, <1>4, <1>11, <1>12 DEF new

\* Money that names none: the plan owes as much less, except for what is left
\* over when nothing more can be paid into it.
LEMMA OldestOwes ==
  ASSUME NEW pl, GoodPlan(pl), Standing(pl), NEW a \in Nat, NEW new \in PaidOldest(pl, a)
  PROVE  /\ Standing(new) /\ DOMAIN new = DOMAIN pl
         /\ \E left \in 0..a : /\ Owes(new) = Owes(pl) - a + left
                               /\ left > 0 => Stuck(new)
         /\ Stuck(pl) => new = pl
<1>1. PlanFacts(pl) /\ GoodPlan(new)
  BY GoodPlanFacts, OldestPlan
<1>2. PICK rest \in Rests(pl, a) :
        new = [k \in DOMAIN pl |-> IF rest[k] = rest[k - 1] THEN pl[k]
                                   ELSE Paid(pl[k], rest[k - 1] - rest[k])]
  BY DEF PaidOldest
<1> DEFINE n == Len(pl)
<1>3. /\ n \in Nat /\ DOMAIN pl = 1..n /\ DOMAIN new = 1..n
      /\ rest[0] = a
      /\ \A k \in 0..n : rest[k] \in 0..a
      /\ \A k \in 1..n : /\ k - 1 \in 0..n /\ k \in 0..n
                         /\ rest[k] = rest[k - 1] - Pay(pl[k], rest[k - 1])
  <2>1. n \in Nat /\ DOMAIN pl = 1..n
    BY <1>1 DEF PlanFacts
  <2>2. DOMAIN new = DOMAIN pl
    BY <1>2
  <2>3. /\ rest \in [0..n -> 0..a] /\ rest[0] = a
        /\ \A k \in 1..n : rest[k] = rest[k - 1] - Pay(pl[k], rest[k - 1])
    BY DEF Rests
  <2> HIDE DEF n
  <2>4. \A k \in 1..n : k - 1 \in 0..n /\ k \in 0..n
    BY <2>1
  <2> QED BY <2>1, <2>2, <2>3, <2>4
<1>4. \A k \in 1..n :
        /\ new[k].amount = pl[k].amount
        /\ rest[k] = rest[k - 1] => new[k] = pl[k]
        /\ rest[k] > 0 /\ pl[k].status # "CANCELED" => Pending(new[k]) <= 0
        /\ new[k].status = "CANCELED" <=> pl[k].status = "CANCELED"
        /\ Pending(new[k]) = Pending(pl[k]) - (rest[k - 1] - rest[k])
        /\ rest[k - 1] - rest[k] \in Nat
        /\ ~Payable(pl[k]) => rest[k] = rest[k - 1]
  <2> SUFFICES ASSUME NEW k \in 1..n
               PROVE  /\ new[k].amount = pl[k].amount
                      /\ rest[k] = rest[k - 1] => new[k] = pl[k]
                      /\ rest[k] > 0 /\ pl[k].status # "CANCELED" => Pending(new[k]) <= 0
                      /\ new[k].status = "CANCELED" <=> pl[k].status = "CANCELED"
                      /\ Pending(new[k]) = Pending(pl[k]) - (rest[k - 1] - rest[k])
                      /\ rest[k - 1] - rest[k] \in Nat
                      /\ ~Payable(pl[k]) => rest[k] = rest[k - 1]
    OBVIOUS
  <2>1. /\ rest[k] \in 0..a /\ rest[k - 1] \in 0..a
        /\ rest[k] = rest[k - 1] - Pay(pl[k], rest[k - 1])
        /\ pl[k] \in Installment /\ Tells(pl[k])
    BY <1>1, <1>3 DEF PlanFacts
  <2>2. new[k] = IF rest[k] = rest[k - 1] THEN pl[k] ELSE Paid(pl[k], rest[k - 1] - rest[k])
    BY <1>2, <1>3
  <2>3. pl[k].amount \in Int /\ pl[k].paid \in Nat
    BY <2>1 DEF Installment
  <2>4. rest[k - 1] - rest[k] \in Nat
    BY <2>1, <2>3 DEF Pay, Payable, Pending
  <2>5. Pending(new[k]) = Pending(pl[k]) - (rest[k - 1] - rest[k])
    <3>1. CASE rest[k] = rest[k - 1]
      BY <2>1, <2>2, <2>3, <3>1 DEF Pending
    <3>2. CASE rest[k] # rest[k - 1]
      <4>1. PICK pay \in Nat : pay = rest[k - 1] - rest[k]
        BY <2>4
      <4>2. new[k] = Paid(pl[k], pay)
        BY <2>2, <3>2, <4>1
      <4>3. new[k].amount = pl[k].amount /\ new[k].paid = pl[k].paid + pay
        BY <2>1, <4>2 DEF Paid, Installment
      <4> QED BY <2>3, <4>1, <4>3 DEF Pending
    <3> QED BY <3>1, <3>2
  <2>6. ~Payable(pl[k]) => rest[k] = rest[k - 1]
    BY <2>1 DEF Pay
  <2> QED BY <2>1, <2>2, <2>4, <2>5, <2>6, PaysOne
<1>5. Standing(new)
  BY <1>3, <1>4 DEF Standing
<1>6. PICK f : /\ Owes(pl) = SumFunctionOnSet(f, DOMAIN pl)
               /\ \A k \in DOMAIN pl : f[k] = Pending(pl[k]) /\ f[k] \in Int
  BY OwesOnSet
<1>7. PICK e : /\ Owes(new) = SumFunctionOnSet(e, DOMAIN new)
               /\ \A k \in DOMAIN new : e[k] = Pending(new[k]) /\ e[k] \in Int
  BY <1>1, OwesOnSet
<1>8. PICK pays : /\ \A k \in 1..n : pays[k] = rest[k - 1] - rest[k] /\ pays[k] \in Nat
                  /\ DOMAIN pays = 1..n
  <2> DEFINE x == [k \in 1..n |-> rest[k - 1] - rest[k]]
  <2>1. /\ \A k \in 1..n : x[k] = rest[k - 1] - rest[k] /\ x[k] \in Nat
        /\ DOMAIN x = 1..n
    BY <1>4
  <2> HIDE DEF x
  <2> QED BY <2>1
<1> HIDE DEF n
<1>9. IsFiniteSet(1..n)
  BY <1>1, <1>3 DEF PlanFacts
<1>10. ASSUME NEW m \in 0..n PROVE SumFunctionOnSet(pays, (m + 1)..n) = rest[m] - rest[n]
  <2>1. m \in Int /\ n \in Int /\ m <= n /\ \A k \in m..n : rest[k] \in Int
    BY <1>3
  <2>2. \A k \in (m + 1)..n : pays[k] = rest[k - 1] - rest[k]
    BY <1>3, <1>8
  <2> QED BY <2>1, <2>2, SumTelescope
<1>11. SumFunctionOnSet(f, 1..n) = SumFunctionOnSet(e, 1..n) + SumFunctionOnSet(pays, 1..n)
  <2>1. \A k \in 1..n : e[k] \in Int /\ pays[k] \in Int /\ f[k] = e[k] + pays[k]
    <3> SUFFICES ASSUME NEW k \in 1..n
                 PROVE  e[k] \in Int /\ pays[k] \in Int /\ f[k] = e[k] + pays[k]
      OBVIOUS
    <3>1. f[k] = Pending(pl[k]) /\ f[k] \in Int /\ e[k] = Pending(new[k]) /\ e[k] \in Int
      BY <1>3, <1>6, <1>7
    <3>2. Pending(new[k]) = Pending(pl[k]) - pays[k] /\ pays[k] \in Nat
      BY <1>4, <1>8
    <3> QED BY <3>1, <3>2
  <2> QED BY <1>9, <2>1, SumOfSums
<1>12. SumFunctionOnSet(pays, 1..n) = a - rest[n]
  <2>1. 0 \in 0..n /\ 0 + 1 = 1
    BY <1>3
  <2>2. SumFunctionOnSet(pays, (0 + 1)..n) = rest[0] - rest[n]
    BY <1>10, <2>1
  <2> QED BY <1>3, <2>1, <2>2
<1>13. n \in 0..n /\ rest[n] \in 0..a
  BY <1>3
<1>14. Owes(new) = Owes(pl) - a + rest[n]
  <2>1. Owes(new) \in Int /\ Owes(pl) \in Int
    BY <1>1, OwesType
  <2> QED BY <1>3, <1>6, <1>7, <1>11, <1>12, <1>13, <2>1
<1>15. ASSUME rest[n] > 0 PROVE Stuck(new)
  <2> SUFFICES ASSUME NEW k \in 1..n PROVE Pending(new[k]) <= 0
    BY <1>1, <1>3, <1>5, StuckMeans DEF Stuck
  <2>1. k \in 0..n /\ (k + 1)..n \subseteq 1..n
    BY <1>3
  <2>2. IsFiniteSet((k + 1)..n) /\ \A j \in (k + 1)..n : pays[j] \in Nat
    BY <1>8, <1>9, <2>1, FS_Subset
  <2>3. SumFunctionOnSet(pays, (k + 1)..n) \in Nat
    BY <2>2, SumNat
  <2>4. SumFunctionOnSet(pays, (k + 1)..n) = rest[k] - rest[n]
    BY <1>10, <2>1
  <2>5. rest[k] > 0
    <3>1. rest[k] \in 0..a
      BY <1>3, <2>1
    <3> QED BY <1>13, <1>15, <2>3, <2>4, <3>1
  <2> QED BY <1>3, <1>4, <2>5 DEF Standing
<1>16. ASSUME Stuck(pl) PROVE new = pl
  <2>1. \A k \in 1..n : new[k] = pl[k]
    BY <1>3, <1>4, <1>16 DEF Stuck
  <2>2. new = [k \in 1..n |-> new[k]]
    BY <1>2, <1>3
  <2>3. pl = [k \in 1..n |-> pl[k]]
    BY <1>1, <1>3 DEF PlanFacts
  <2> QED BY <2>1, <2>2, <2>3
<1> QED BY <1>3, <1>5, <1>13, <1>14, <1>15, <1>16

-----------------------------------------------------------------------------
(* The inductive invariant. *)

TypesOfRest ==
  /\ status \in [Invoices -> Statuses]
  /\ terms \in [Invoices -> Terms]
  /\ balance \in [Invoices -> Int]
  /\ received \in [Invoices -> Nat]
  /\ chosen \subseteq Invoices
  /\ entry \in [Invoices -> Nat \union {NotPosted}]
  /\ reversed \subseteq Invoices
  /\ collected \in [Invoices -> Nat]
  /\ edited \subseteq Invoices
  /\ req \in [Procs -> Request]

Plans ==
  /\ plan = [i \in Invoices |-> plan[i]]
  /\ \A i \in Invoices : GoodPlan(plan[i])
  /\ \A i \in Invoices \ chosen : OrderlyPlan(plan[i])

Ledgers ==
  /\ BalanceIsUnpaid
  /\ \A i \in Invoices : Books(i)
  /\ \A p \in Procs : Knows(req[p])

IInv == TypesOfRest /\ Plans /\ Ledgers

LEMMA TodoType ==
  ASSUME NEW stage \in Stages, NEW i \in Invoices
  PROVE  /\ Todo(stage, i) \in Request
         /\ \A n \in Nat : [Todo(stage, i) EXCEPT !.net = n]
                             = [stage |-> stage, invoice |-> i, net |-> n, paid |-> None]
         /\ \A f \in [Invoices -> Nat] : [Todo(stage, i) EXCEPT !.paid = f]
                             = [stage |-> stage, invoice |-> i, net |-> 0, paid |-> f]
  BY DEF Todo, Request, None

LEMMA IdleType == Idle \in Request /\ Idle.stage = "idle"
<1>1. (CHOOSE i \in Invoices : TRUE) \in Invoices
  BY ConstantsAssumption
<1>. QED
  BY <1>1, TodoType DEF Idle, Todo, Stages

THEOREM InitIInv == Init => IInv
<1>. SUFFICES ASSUME Init PROVE TypesOfRest /\ Plans /\ Ledgers
  BY DEF IInv
<1>1. (CHOOSE t \in Terms : TRUE) \in Terms
  BY ConstantsAssumption
<1>2. TypesOfRest
  BY <1>1, IdleType DEF Init, TypesOfRest, Statuses, None
<1>3. GoodPlan(<<>>) /\ OrderlyPlan(<<>>)
  BY ConstantsAssumption DEF GoodPlan, OrderlyPlan, OneFate, InOrder
<1>4. Plans
  BY <1>3 DEF Init, Plans
<1>5. Ledgers
  BY IdleType DEF Init, Ledgers, BalanceIsUnpaid, Books, Knows, None
<1>. QED
  BY <1>2, <1>4, <1>5

LEMMA CreateKeepsIInv ==
  ASSUME IInv, NEW p \in Procs, Create(p) PROVE IInv'
<1>0. TypesOfRest /\ Plans /\ Ledgers
  BY DEF IInv
<1>1. PICK i \in Invoices, t \in Terms :
        /\ req[p].stage = "idle"
        /\ status[i] = "none"
        /\ status' = [status EXCEPT ![i] = "ISSUED"]
        /\ terms' = [terms EXCEPT ![i] = t]
        /\ balance' = [balance EXCEPT ![i] = Remaining(t)]
        /\ plan' = [plan EXCEPT ![i] = CreditPlan(t)]
        /\ req' = [req EXCEPT ![p] = Todo("post", i)]
  BY DEF Create
<1>2. UNCHANGED <<received, chosen, edited, entry, reversed, collected>>
  BY DEF Create, journal
<1>3. Todo("post", i) \in Request /\ Todo("post", i).stage = "post"
      /\ Todo("post", i).invoice = i
  BY TodoType DEF Stages, Todo
<1>4. Remaining(t) \in Nat /\ GoodPlan(CreditPlan(t)) /\ OrderlyPlan(CreditPlan(t))
  BY TermType, PlanType
<1>5. TypesOfRest'
  BY <1>0, <1>1, <1>2, <1>3, <1>4 DEF TypesOfRest, Statuses
<1>6. Plans'
  BY <1>0, <1>1, <1>2, <1>4 DEF Plans, GoodPlan, OrderlyPlan
<1>7. Ledgers'
  <2>1. BalanceIsUnpaid'
    BY <1>0, <1>1, <1>2, <1>4 DEF Ledgers, BalanceIsUnpaid, Books, TypesOfRest
  <2>2. ASSUME NEW j \in Invoices PROVE Books(j)'
    BY <1>0, <1>1, <1>2 DEF Ledgers, Books, TypesOfRest
  <2>3. ASSUME NEW q \in Procs PROVE Knows(req[q])'
    BY <1>0, <1>1, <1>2, <1>3 DEF Ledgers, Knows, TypesOfRest, Request
  <2>. QED
    BY <2>1, <2>2, <2>3 DEF Ledgers
<1>. QED
  BY <1>5, <1>6, <1>7 DEF IInv

LEMMA EditKeepsIInv ==
  ASSUME IInv, NEW p \in Procs, Edit(p) PROVE IInv'
<1>0. TypesOfRest /\ Plans /\ Ledgers
  BY DEF IInv
<1>1. PICK i \in Invoices, t \in Editions :
        /\ status[i] # "none"
        /\ terms' = [terms EXCEPT ![i] = t]
        /\ balance' = [balance EXCEPT ![i] = Remaining(t)]
        /\ plan' = [plan EXCEPT ![i] = CreditPlan(t)]
        /\ chosen' = chosen \ {i}
        /\ edited' = edited \union {i}
  BY DEF Edit
<1>2. UNCHANGED <<status, received, entry, reversed, collected, req>>
  BY DEF Edit, journal
<1>3. t \in Terms
  BY ConstantsAssumption
<1>4. Remaining(t) \in Nat /\ GoodPlan(CreditPlan(t)) /\ OrderlyPlan(CreditPlan(t))
  BY <1>3, TermType, PlanType
<1>5. TypesOfRest'
  BY <1>0, <1>1, <1>2, <1>3, <1>4 DEF TypesOfRest
<1>6. Plans'
  BY <1>0, <1>1, <1>2, <1>4 DEF Plans, GoodPlan, OrderlyPlan
<1>7. Ledgers'
  <2>1. BalanceIsUnpaid'
    BY <1>0, <1>1, <1>2 DEF Ledgers, BalanceIsUnpaid, TypesOfRest
  <2>2. ASSUME NEW j \in Invoices PROVE Books(j)'
    BY <1>0, <1>1, <1>2 DEF Ledgers, Books, TypesOfRest
  <2>3. ASSUME NEW q \in Procs PROVE Knows(req[q])'
    BY <1>0, <1>1, <1>2 DEF Ledgers, Knows, TypesOfRest, Request
  <2>. QED
    BY <2>1, <2>2, <2>3 DEF Ledgers
<1>. QED
  BY <1>5, <1>6, <1>7 DEF IInv

LEMMA CommitVoidKeepsIInv ==
  ASSUME IInv, NEW p \in Procs, CommitVoid(p) PROVE IInv'
<1>0. TypesOfRest /\ Plans /\ Ledgers
  BY DEF IInv
<1>1. PICK i \in Invoices : i = req[p].invoice
  BY <1>0 DEF TypesOfRest, Request
<1>2. /\ req[p].stage = "void"
      /\ status' = [status EXCEPT ![i] = "VOID"]
      /\ balance' = [balance EXCEPT ![i] = 0]
      /\ plan' = [plan EXCEPT ![i] = Canceled(plan[i])]
      /\ req' = [req EXCEPT ![p] = Todo("reverse", i)]
  BY <1>1 DEF CommitVoid
<1>3. UNCHANGED <<terms, edited, received, chosen, entry, reversed, collected>>
  BY DEF CommitVoid, journal
<1>4. Todo("reverse", i) \in Request /\ Todo("reverse", i).stage = "reverse"
      /\ Todo("reverse", i).invoice = i
  BY TodoType DEF Stages, Todo
<1>5. GoodPlan(plan[i]) /\ (i \notin chosen => OrderlyPlan(plan[i]))
  BY <1>0 DEF Plans
<1>6. GoodPlan(Canceled(plan[i])) /\ (i \notin chosen => OrderlyPlan(Canceled(plan[i])))
  BY <1>5, CanceledPlan
<1>7. TypesOfRest'
  BY <1>0, <1>2, <1>3, <1>4 DEF TypesOfRest, Statuses
<1>8. Plans'
  BY <1>0, <1>2, <1>3, <1>6 DEF Plans, GoodPlan, OrderlyPlan
<1>9. status[i] # "none"
  BY <1>0, <1>1, <1>2 DEF Ledgers, Knows
<1>10. Ledgers'
  <2>1. BalanceIsUnpaid'
    BY <1>0, <1>2, <1>3 DEF Ledgers, BalanceIsUnpaid, TypesOfRest
  <2>2. ASSUME NEW j \in Invoices PROVE Books(j)'
    BY <1>0, <1>2, <1>3 DEF Ledgers, Books, TypesOfRest
  <2>3. ASSUME NEW q \in Procs PROVE Knows(req[q])'
    BY <1>0, <1>2, <1>3, <1>4 DEF Ledgers, Knows, TypesOfRest, Request
  <2>. QED
    BY <2>1, <2>2, <2>3 DEF Ledgers
<1>. QED
  BY <1>7, <1>8, <1>10 DEF IInv

LEMMA ReceiptKeepsIInv ==
  ASSUME IInv, NEW p \in Procs, Receipt(p) PROVE IInv'
<1>0. TypesOfRest /\ Plans /\ Ledgers
  BY DEF IInv
<1>1. PICK amount \in [Invoices -> Payments \union {0}], inst \in [Invoices -> 0..MaxCuotas] :
        /\ \A i \in Invoices :
             /\ amount[i] > 0 => status[i] # "none"
             /\ inst[i] <= Len(plan[i])
             /\ amount[i] = 0 => inst[i] = 0
        /\ \E new \in [Invoices -> UNION {Outcomes(plan[i], amount[i], inst[i]) : i \in Invoices}] :
             /\ \A i \in Invoices : new[i] \in Outcomes(plan[i], amount[i], inst[i])
             /\ plan' = new
        /\ balance' = [i \in Invoices |-> Lowered(i, amount[i])]
        /\ received' = [i \in Invoices |-> received[i] + amount[i]]
        /\ chosen' = chosen \union {i \in Invoices : inst[i] # 0}
        /\ req' = [req EXCEPT ![p] = [Todo("receipt", req[p].invoice) EXCEPT !.paid = amount]]
  BY DEF Receipt
<1>2. UNCHANGED <<status, terms, edited, entry, reversed, collected>>
  BY DEF Receipt, sale, journal
<1>3. \A i \in Invoices : amount[i] \in Nat /\ inst[i] \in 0..MaxCuotas
  BY <1>1, ConstantsAssumption, SMTT(30)
<1>4. amount \in [Invoices -> Nat]
  BY <1>1, <1>3
<1>5. PICK r \in Request : /\ r = [Todo("receipt", req[p].invoice) EXCEPT !.paid = amount]
                           /\ r.stage = "receipt"
  <2>1. PICK j \in Invoices : j = req[p].invoice
    BY <1>0 DEF TypesOfRest, Request
  <2>2. [Todo("receipt", j) EXCEPT !.paid = amount]
          = [stage |-> "receipt", invoice |-> j, net |-> 0, paid |-> amount]
    BY <1>4, TodoType DEF Stages
  <2>3. [stage |-> "receipt", invoice |-> j, net |-> 0, paid |-> amount] \in Request
    BY <1>4 DEF Request, Stages
  <2>. QED
    BY <2>1, <2>2, <2>3
<1>6. TypesOfRest'
  <2>1. balance' \in [Invoices -> Int] /\ received' \in [Invoices -> Nat]
    <3>1. \A i \in Invoices : /\ received[i] \in Nat /\ balance[i] \in Int
                              /\ amount[i] \in Nat
      BY <1>0, <1>3 DEF TypesOfRest
    <3>2. \A i \in Invoices : /\ balance[i] - amount[i] \in Int
                              /\ received[i] + amount[i] \in Nat
      BY <3>1
    <3>. QED
      BY <1>1, <3>2 DEF Lowered
  <2>. QED
    BY <1>0, <1>1, <1>2, <1>5, <2>1 DEF TypesOfRest
<1>7. Plans'
  <2>1. PICK new \in [Invoices -> UNION {Outcomes(plan[i], amount[i], inst[i]) : i \in Invoices}] :
          /\ \A i \in Invoices : new[i] \in Outcomes(plan[i], amount[i], inst[i])
          /\ plan' = new
    BY <1>1
  <2>2. ASSUME NEW i \in Invoices
        PROVE  GoodPlan(new[i]) /\ (inst[i] = 0 /\ OrderlyPlan(plan[i]) => OrderlyPlan(new[i]))
    <3>1. GoodPlan(plan[i])
      BY <1>0 DEF Plans
    <3>2. inst[i] \in 0..Len(plan[i])
      BY <1>1, <1>3, <3>1, ConstantsAssumption DEF GoodPlan
    <3>3. new[i] \in Outcomes(plan[i], amount[i], inst[i])
      BY <2>1
    <3>4. amount[i] = 0 => inst[i] = 0
      BY <1>1
    <3>. QED
      BY <1>3, <3>1, <3>2, <3>3, <3>4, OutcomePlan
  <2>3. ASSUME NEW i \in Invoices \ chosen' PROVE OrderlyPlan(new[i])
    <3>1. i \notin chosen /\ inst[i] = 0
      BY <1>1
    <3>. QED
      BY <1>0, <2>2, <3>1 DEF Plans
  <2>4. new = [i \in Invoices |-> new[i]]
    BY <2>1
  <2>. QED
    BY <2>1, <2>2, <2>3, <2>4 DEF Plans, GoodPlan, OrderlyPlan
<1>8. Ledgers'
  <2>1. BalanceIsUnpaid'
    BY <1>0, <1>1, <1>2, <1>3, TermType DEF Ledgers, BalanceIsUnpaid, TypesOfRest, Lowered
  <2>2. ASSUME NEW j \in Invoices PROVE Books(j)'
    <3>1. status[j] = "none" => amount[j] = 0
      BY <1>1, <1>3
    <3>. QED
      BY <1>0, <1>1, <1>2, <3>1 DEF Ledgers, Books, TypesOfRest
  <2>3. ASSUME NEW q \in Procs PROVE Knows(req[q])'
    BY <1>0, <1>1, <1>2, <1>5 DEF Ledgers, Knows, TypesOfRest
  <2>. QED
    BY <2>1, <2>2, <2>3 DEF Ledgers
<1>. QED
  BY <1>6, <1>7, <1>8 DEF IInv

LEMMA PostingKeepsIInv ==
  ASSUME IInv, NEW p \in Procs,
         InsertInvoice(p) \/ PostReceipt(p) \/ Reverse(p)
  PROVE  IInv'
<1>0. TypesOfRest /\ Plans /\ Ledgers
  BY DEF IInv
<1>1. PICK i \in Invoices : i = req[p].invoice
  BY <1>0 DEF TypesOfRest, Request
<1>2. /\ UNCHANGED <<status, terms, edited, balance, plan, received, chosen>>
      /\ req' = [req EXCEPT ![p] = Idle]
  BY DEF InsertInvoice, PostReceipt, Reverse, sale, owed
<1>3. Idle \in Request /\ Idle.stage = "idle"
  BY IdleType
<1>4. /\ req[p].net \in Nat
      /\ \A j \in Invoices : req[p].paid[j] \in Nat
  BY <1>0 DEF TypesOfRest, Request
<1>5. ASSUME InsertInvoice(p) PROVE TypesOfRest' /\ \A j \in Invoices : Books(j)'
  <2>1. /\ req[p].stage = "insert"
        /\ entry' = [entry EXCEPT ![i] = IF entry[i] = NotPosted THEN req[p].net ELSE entry[i]]
        /\ UNCHANGED <<reversed, collected>>
    BY <1>1, <1>5 DEF InsertInvoice
  <2>2. TypesOfRest'
    BY <1>0, <1>2, <1>3, <1>4, <2>1 DEF TypesOfRest
  <2>3. Knows(req[p])
    BY <1>0 DEF Ledgers
  <2>4. \A j \in Invoices : Books(j)'
    BY <1>0, <1>1, <1>2, <2>1, <2>3 DEF Ledgers, Books, Knows, TypesOfRest
  <2>. QED
    BY <2>2, <2>4
<1>6. ASSUME PostReceipt(p) PROVE TypesOfRest' /\ \A j \in Invoices : Books(j)'
  <2>1. /\ collected' = [j \in Invoices |-> collected[j] + req[p].paid[j]]
        /\ UNCHANGED <<entry, reversed>>
    BY <1>6 DEF PostReceipt
  <2>2. \A j \in Invoices : collected[j] + req[p].paid[j] \in Nat
    BY <1>0, <1>4 DEF TypesOfRest
  <2>3. TypesOfRest'
    BY <1>0, <1>2, <1>3, <2>1, <2>2 DEF TypesOfRest
  <2>4. \A j \in Invoices : Books(j)'
    BY <1>0, <1>2, <2>1 DEF Ledgers, Books
  <2>. QED
    BY <2>3, <2>4
<1>7. ASSUME Reverse(p) PROVE TypesOfRest' /\ \A j \in Invoices : Books(j)'
  <2>1. /\ req[p].stage = "reverse"
        /\ reversed' = IF entry[i] = NotPosted THEN reversed ELSE reversed \union {i}
        /\ UNCHANGED <<entry, collected>>
    BY <1>1, <1>7 DEF Reverse
  <2>2. TypesOfRest'
    BY <1>0, <1>2, <1>3, <2>1 DEF TypesOfRest
  <2>3. Knows(req[p])
    BY <1>0 DEF Ledgers
  <2>4. \A j \in Invoices : Books(j)'
    BY <1>0, <1>1, <1>2, <2>1, <2>3 DEF Ledgers, Books, Knows, TypesOfRest
  <2>. QED
    BY <2>2, <2>4
<1>8. TypesOfRest' /\ \A j \in Invoices : Books(j)'
  BY <1>5, <1>6, <1>7
<1>9. Plans'
  BY <1>0, <1>2 DEF Plans, GoodPlan, OrderlyPlan
<1>10. BalanceIsUnpaid'
  BY <1>0, <1>2 DEF Ledgers, BalanceIsUnpaid
<1>11. \A q \in Procs : Knows(req[q])'
  BY <1>0, <1>2, <1>3 DEF Ledgers, Knows, TypesOfRest
<1>. QED
  BY <1>8, <1>9, <1>10, <1>11 DEF IInv, Ledgers

\* The steps that only move the request on.
LEMMA RequestKeepsIInv ==
  ASSUME IInv, NEW p \in Procs,
         StartVoid(p) \/ ReadInvoice(p) \/ PostAgain(p) \/ Lose(p)
  PROVE  IInv'
<1>0. TypesOfRest /\ Plans /\ Ledgers
  BY DEF IInv
<1>1. UNCHANGED <<status, terms, edited, balance, plan, received, chosen,
                  entry, reversed, collected>>
  BY DEF StartVoid, ReadInvoice, PostAgain, Lose, sale, owed, journal
<1>2. Idle \in Request /\ Idle.stage = "idle"
  BY IdleType
<1>3. \E r \in Request : req' = [req EXCEPT ![p] = r] /\ Knows(r)
  <2>1. CASE StartVoid(p)
    <3>1. PICK i \in Invoices : /\ status[i] = "ISSUED"
                                /\ req' = [req EXCEPT ![p] = Todo("void", i)]
      BY <2>1 DEF StartVoid
    <3>2. Todo("void", i) \in Request /\ Knows(Todo("void", i))
      BY <3>1, TodoType DEF Stages, Knows, Todo
    <3>. QED
      BY <3>1, <3>2
  <2>2. CASE ReadInvoice(p)
    <3>1. PICK i \in Invoices : i = req[p].invoice
      BY <1>0 DEF TypesOfRest, Request
    <3>2. CASE status[i] = "ISSUED"
      <4>1. terms[i] \in Terms /\ Net(terms[i]) \in Nat
        BY <1>0, TermType DEF TypesOfRest
      <4>2. PICK r : r = [stage |-> "insert", invoice |-> i, net |-> Net(terms[i]), paid |-> None]
        OBVIOUS
      <4>3. [Todo("insert", i) EXCEPT !.net = Net(terms[i])] = r
        BY <4>1, <4>2, TodoType DEF Stages
      <4>4. req' = [req EXCEPT ![p] = r]
        BY <2>2, <3>1, <3>2, <4>3 DEF ReadInvoice
      <4>5. r \in Request
        BY <4>1, <4>2 DEF Request, Stages, None
      <4>6. Knows(r)
        BY <3>2, <4>2 DEF Knows
      <4>. QED
        BY <4>4, <4>5, <4>6
    <3>3. CASE status[i] # "ISSUED"
      BY <1>2, <2>2, <3>1, <3>3 DEF ReadInvoice, Knows
    <3>. QED
      BY <3>2, <3>3
  <2>3. CASE PostAgain(p)
    <3>1. PICK i \in Invoices : /\ status[i] # "none"
                                /\ req' = [req EXCEPT ![p] = Todo("post", i)]
      BY <2>3 DEF PostAgain
    <3>2. Todo("post", i) \in Request /\ Knows(Todo("post", i))
      BY <3>1, TodoType DEF Stages, Knows, Todo
    <3>. QED
      BY <3>1, <3>2
  <2>4. CASE Lose(p)
    BY <1>2, <2>4 DEF Lose, Knows
  <2>. QED
    BY <2>1, <2>2, <2>3, <2>4
<1>4. PICK r \in Request : req' = [req EXCEPT ![p] = r] /\ Knows(r)
  BY <1>3
<1>5. TypesOfRest'
  BY <1>0, <1>1, <1>4 DEF TypesOfRest
<1>6. Plans'
  BY <1>0, <1>1 DEF Plans, GoodPlan, OrderlyPlan
<1>7. Ledgers'
  <2>1. BalanceIsUnpaid'
    BY <1>0, <1>1 DEF Ledgers, BalanceIsUnpaid
  <2>2. ASSUME NEW j \in Invoices PROVE Books(j)'
    BY <1>0, <1>1 DEF Ledgers, Books
  <2>3. ASSUME NEW q \in Procs PROVE Knows(req[q])'
    BY <1>0, <1>1, <1>4 DEF Ledgers, Knows, TypesOfRest
  <2>. QED
    BY <2>1, <2>2, <2>3 DEF Ledgers
<1>. QED
  BY <1>5, <1>6, <1>7 DEF IInv

\* Nothing a request does breaks the invariant, whatever the others are doing.
THEOREM Invariance == Spec => []IInv
<1>1. ASSUME IInv, [Next]_vars PROVE IInv'
  <2>1. CASE UNCHANGED vars
    BY <1>1, <2>1 DEF IInv, vars, TypesOfRest, Plans, Ledgers, BalanceIsUnpaid, Books, Knows,
                      GoodPlan, OrderlyPlan
  <2>2. ASSUME NEW p \in Procs, Create(p) PROVE IInv'
    BY <1>1, <2>2, CreateKeepsIInv
  <2>3. ASSUME NEW p \in Procs, Edit(p) PROVE IInv'
    BY <1>1, <2>3, EditKeepsIInv
  <2>4. ASSUME NEW p \in Procs, CommitVoid(p) PROVE IInv'
    BY <1>1, <2>4, CommitVoidKeepsIInv
  <2>5. ASSUME NEW p \in Procs, Receipt(p) PROVE IInv'
    BY <1>1, <2>5, ReceiptKeepsIInv
  <2>6. ASSUME NEW p \in Procs, InsertInvoice(p) \/ PostReceipt(p) \/ Reverse(p) PROVE IInv'
    BY <1>1, <2>6, PostingKeepsIInv
  <2>7. ASSUME NEW p \in Procs, StartVoid(p) \/ ReadInvoice(p) \/ PostAgain(p) \/ Lose(p)
        PROVE  IInv'
    BY <1>1, <2>7, RequestKeepsIInv
  <2>. QED
    BY <1>1, <2>1, <2>2, <2>3, <2>4, <2>5, <2>6, <2>7 DEF Next
<1>. QED
  BY <1>1, InitIInv, PTL DEF Spec

\* Every variable keeps its type; plans stay within the bound on installments.
THEOREM TypeCorrect == Spec => []TypeOK
<1>1. IInv => TypeOK
  <2>. SUFFICES ASSUME IInv PROVE TypeOK
    OBVIOUS
  <2>1. plan \in [Invoices -> Seq(Installment)]
    BY DEF IInv, Plans, GoodPlan
  <2>. QED
    BY <2>1 DEF IInv, TypesOfRest, Plans, GoodPlan, TypeOK
<1>. QED
  BY <1>1, Invariance, PTL

\* The balance of an invoice that stands, unedited, is what was financed less
\* what was received, however many requests decrement it at once.
THEOREM BalanceStaysUnpaid == Spec => []BalanceIsUnpaid
<1>1. IInv => BalanceIsUnpaid
  BY DEF IInv, Ledgers
<1>. QED
  BY <1>1, Invariance, PTL

\* The status of an installment tells what is paid of it.
THEOREM StatusAlwaysTells == Spec => []StatusTells
<1>1. IInv => StatusTells
  BY DEF IInv, Plans, GoodPlan, StatusTells
<1>. QED
  BY <1>1, Invariance, PTL

\* Money that names no installment never overtakes one that still owes.
THEOREM OldestPaidFirst == Spec => []OldestFirst
<1>1. IInv => OldestFirst
  BY DEF IInv, Plans, OrderlyPlan, OldestFirst
<1>. QED
  BY <1>1, Invariance, PTL

\* The receivable account and the receivables differ by the down payments alone,
\* for every invoice that is posted with its receipts.
THEOREM SubledgerAlwaysAgrees == Spec => []SubledgerAgrees
<1>1. IInv => SubledgerAgrees
  <2>. SUFFICES ASSUME IInv, NEW i \in Invoices \ edited,
                       status[i] = "ISSUED", entry[i] # NotPosted, collected[i] = received[i]
                PROVE  /\ entry[i] - collected[i]
                           = balance[i] + (Positive(terms[i].total - terms[i].withheld)
                                           - Remaining(terms[i]))
                       /\ i \notin reversed
    BY DEF SubledgerAgrees
  <2>1. TypesOfRest /\ Books(i) /\ BalanceIsUnpaid
    BY DEF IInv, Ledgers
  <2>2. entry[i] = Net(terms[i]) /\ balance[i] = Remaining(terms[i]) - received[i]
    BY <2>1 DEF Books, BalanceIsUnpaid
  <2>3. Net(terms[i]) \in Nat /\ Remaining(terms[i]) \in Nat /\ received[i] \in Nat
    BY <2>1, TermType DEF TypesOfRest
  <2>4. i \notin reversed
    BY <2>1 DEF Books
  <2>. QED
    BY <2>2, <2>3, <2>4 DEF Net
<1>. QED
  BY <1>1, Invariance, PTL

-----------------------------------------------------------------------------
(* The installments of an invoice that stands follow its balance. *)

\* Balance b of a receivable with status s and plan pl.
Follows(s, pl, b) ==
  s = "ISSUED" =>
    /\ Standing(pl)
    /\ pl # <<>> => Owes(pl) = b \/ (Owes(pl) > b /\ Stuck(pl))

AllFollow == \A i \in Invoices : Follows(status[i], plan[i], balance[i])

\* A receipt that finds nothing more to pay takes it from the balance alone.
LEMMA OutcomeFollows ==
  ASSUME NEW pl, GoodPlan(pl), NEW a \in Nat, NEW k \in 0..Len(pl), a = 0 => k = 0,
         NEW new \in Outcomes(pl, a, k), NEW b \in Int, Follows("ISSUED", pl, b)
  PROVE  Follows("ISSUED", new, b - a)
<1>1. Standing(pl) /\ (pl # <<>> => Owes(pl) = b \/ (Owes(pl) > b /\ Stuck(pl)))
  BY DEF Follows
<1>2. Owes(pl) \in Int /\ PlanFacts(pl)
  BY OwesType, GoodPlanFacts
<1>3. CASE k = 0
  <2>1. new \in PaidOldest(pl, a)
    BY <1>3 DEF Outcomes
  <2>2. Standing(new) /\ (Stuck(pl) => new = pl)
    BY <1>1, <2>1, OldestOwes
  <2>3. PICK left \in 0..a : Owes(new) = Owes(pl) - a + left /\ (left > 0 => Stuck(new))
    BY <1>1, <2>1, OldestOwes
  <2>4. CASE pl = <<>>
    BY <2>2, <2>4 DEF Stuck, Follows
  <2>5. CASE pl # <<>> /\ Owes(pl) = b
    BY <1>2, <2>2, <2>3, <2>5 DEF Follows
  <2>6. CASE pl # <<>> /\ Owes(pl) > b /\ Stuck(pl)
    BY <1>2, <2>2, <2>6 DEF Follows
  <2> QED BY <1>1, <2>4, <2>5, <2>6
<1>4. CASE k # 0
  <2>1. /\ a \in Nat \ {0} /\ k \in 1..Len(pl) /\ new = PaidInto(pl, k, a)
        /\ pl # <<>>
    BY <1>2, <1>4 DEF Outcomes, PlanFacts
  <2>2. Standing(new) /\ Owes(new) = Owes(pl) - a /\ (Stuck(pl) => Stuck(new))
    BY <1>1, <2>1, NamedOwes
  <2> QED BY <1>1, <1>2, <2>1, <2>2 DEF Follows
<1> QED BY <1>3, <1>4

LEMMA ReceiptFollows ==
  ASSUME IInv, AllFollow, NEW p \in Procs, Receipt(p) PROVE AllFollow'
<1>0. TypesOfRest /\ Plans
  BY DEF IInv
<1>1. PICK amount \in [Invoices -> Payments \union {0}], inst \in [Invoices -> 0..MaxCuotas] :
        /\ \A i \in Invoices :
             /\ inst[i] <= Len(plan[i])
             /\ amount[i] = 0 => inst[i] = 0
        /\ \E new \in [Invoices -> UNION {Outcomes(plan[i], amount[i], inst[i]) : i \in Invoices}] :
             /\ \A i \in Invoices : new[i] \in Outcomes(plan[i], amount[i], inst[i])
             /\ plan' = new
        /\ balance' = [i \in Invoices |-> Lowered(i, amount[i])]
  BY ZenonT(60) DEF Receipt
<1>2. status' = status
  BY DEF Receipt, sale
<1> SUFFICES ASSUME NEW i \in Invoices, status[i] = "ISSUED"
             PROVE  Follows("ISSUED", plan'[i], balance'[i])
  BY <1>2 DEF AllFollow, Follows
<1>3. /\ amount[i] \in Nat /\ (amount[i] = 0 => inst[i] = 0)
      /\ plan'[i] \in Outcomes(plan[i], amount[i], inst[i])
      /\ balance'[i] = balance[i] - amount[i] /\ balance[i] \in Int
  <2>1. amount[i] \in Nat
    BY <1>1, ConstantsAssumption, SMTT(30)
  <2>2. plan'[i] \in Outcomes(plan[i], amount[i], inst[i])
    <3>1. PICK new : /\ \A j \in Invoices : new[j] \in Outcomes(plan[j], amount[j], inst[j])
                     /\ plan' = new
      BY <1>1
    <3> QED BY <3>1
  <2>3. balance'[i] = balance[i] - amount[i] /\ balance[i] \in Int
    BY <1>0, <1>1 DEF TypesOfRest, Lowered
  <2> QED BY <1>1, <2>1, <2>2, <2>3
<1>4. GoodPlan(plan[i]) /\ inst[i] \in 0..Len(plan[i])
  <2>1. GoodPlan(plan[i])
    BY <1>0 DEF Plans
  <2>2. inst[i] \in 0..MaxCuotas /\ inst[i] <= Len(plan[i])
    BY <1>1
  <2> QED BY <2>1, <2>2, ConstantsAssumption DEF GoodPlan
<1>5. Follows("ISSUED", plan[i], balance[i])
  BY DEF AllFollow
<1> QED BY <1>3, <1>4, <1>5, OutcomeFollows

LEMMA StepFollows ==
  ASSUME IInv, AllFollow, [Next]_vars PROVE AllFollow'
<1>0. TypesOfRest /\ Plans
  BY DEF IInv
<1>1. ASSUME UNCHANGED <<status, plan, balance>> PROVE AllFollow'
  BY <1>1 DEF AllFollow, Follows
<1>2. ASSUME NEW i \in Invoices, NEW t \in Terms,
             plan' = [plan EXCEPT ![i] = CreditPlan(t)],
             balance' = [balance EXCEPT ![i] = Remaining(t)],
             \A j \in Invoices \ {i} : status'[j] = status[j]
      PROVE  AllFollow'
  <2> SUFFICES ASSUME NEW j \in Invoices PROVE Follows(status'[j], plan'[j], balance'[j])
    BY DEF AllFollow
  <2>1. CASE j = i
    <3>1. plan'[j] = CreditPlan(t) /\ balance'[j] = Remaining(t)
      BY <1>0, <1>2, <2>1 DEF TypesOfRest, Plans
    <3> QED BY <3>1, CreditPlanOwes DEF Follows
  <2>2. CASE j # i
    BY <1>0, <1>2, <2>2 DEF TypesOfRest, Plans, AllFollow
  <2> QED BY <2>1, <2>2
<1>3. ASSUME NEW p \in Procs, Create(p) PROVE AllFollow'
  <2>1. PICK i \in Invoices, t \in Terms :
          /\ status' = [status EXCEPT ![i] = "ISSUED"]
          /\ plan' = [plan EXCEPT ![i] = CreditPlan(t)]
          /\ balance' = [balance EXCEPT ![i] = Remaining(t)]
    BY <1>3 DEF Create
  <2>2. \A j \in Invoices \ {i} : status'[j] = status[j]
    BY <1>0, <2>1 DEF TypesOfRest
  <2> QED BY <1>2, <2>1, <2>2
<1>4. ASSUME NEW p \in Procs, Edit(p) PROVE AllFollow'
  <2>1. PICK i \in Invoices, t \in Editions :
          /\ plan' = [plan EXCEPT ![i] = CreditPlan(t)]
          /\ balance' = [balance EXCEPT ![i] = Remaining(t)]
    BY <1>4 DEF Edit
  <2>2. t \in Terms /\ status' = status
    BY <1>4, ConstantsAssumption DEF Edit
  <2> QED BY <1>2, <2>1, <2>2
<1>5. ASSUME NEW p \in Procs, CommitVoid(p) PROVE AllFollow'
  <2>1. PICK i : i = req[p].invoice /\ i \in Invoices
    BY <1>0 DEF TypesOfRest, Request
  <2>2. /\ status' = [status EXCEPT ![i] = "VOID"]
        /\ plan' = [plan EXCEPT ![i] = Canceled(plan[i])]
        /\ balance' = [balance EXCEPT ![i] = 0]
    BY <1>5, <2>1 DEF CommitVoid
  <2> SUFFICES ASSUME NEW j \in Invoices PROVE Follows(status'[j], plan'[j], balance'[j])
    BY DEF AllFollow
  <2>3. CASE j = i
    BY <1>0, <2>2, <2>3 DEF TypesOfRest, Follows
  <2>4. CASE j # i
    BY <1>0, <2>2, <2>4 DEF TypesOfRest, Plans, AllFollow
  <2> QED BY <2>3, <2>4
<1>6. ASSUME NEW p \in Procs,
             \/ StartVoid(p) \/ ReadInvoice(p) \/ InsertInvoice(p) \/ PostReceipt(p)
             \/ Reverse(p) \/ PostAgain(p) \/ Lose(p)
      PROVE  UNCHANGED <<status, plan, balance>>
  BY <1>6 DEF StartVoid, ReadInvoice, InsertInvoice, PostReceipt, Reverse, PostAgain, Lose,
              sale, owed
<1>7. CASE UNCHANGED vars
  BY <1>1, <1>7 DEF vars
<1> QED BY <1>1, <1>3, <1>4, <1>5, <1>6, <1>7, ReceiptFollows DEF Next

\* However receipts, voids and edits follow each other, the installments of an
\* invoice that stands owe what its balance says; they owe more only when a
\* receipt was more than all of them owed.
THEOREM PlanAlwaysFollows == Spec => []PlanFollowsBalance
<1>1. Init => AllFollow
  BY DEF Init, AllFollow, Follows
<1>2. AllFollow => PlanFollowsBalance
  BY DEF AllFollow, Follows, Stuck, PlanFollowsBalance
<1>3. IInv /\ AllFollow /\ [Next]_vars => AllFollow'
  BY StepFollows
<1> QED BY <1>1, <1>2, <1>3, Invariance, PTL DEF Spec
=============================================================================
