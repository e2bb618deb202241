------------------------- MODULE CounterSaleProofs -------------------------
(***************************************************************************)
(* The sessions of CounterSale: what is proved for any number of requests, *)
(* sessions, registers and sales.                                          *)
(***************************************************************************)
EXTENDS CounterSale, SumTheorems, SequenceTheorems, TLAPS

Stages == {"idle", "planned", "selling", "post", "check", "pay", "hook", "drop",
           "open", "move", "adjust", "close"}

Request == [stage : Stages, cart : Carts, take : Int, seen : Int, since : Int,
            number : 0..MaxNumber, due : Seq(Payment), session : Sessions,
            register : Registers, amount : Int]

Session == [status : Statuses, register : Registers, opening : Int, expected : Int]

Typed ==
  /\ prepared \in Int /\ supplied \in Int
  /\ invoice \in [Numbers -> [status : {"none", "ISSUED", "OTHER"}, cart : Carts,
                          took : Int, made : Int, given : BOOLEAN]]
  /\ session \in [Sessions -> Session]
  /\ drawer \in [Sessions -> Int]
  /\ raced \subseteq Registers
  /\ req \in [Procs -> Request]

\* A request that has begun to sell has a number.
Numbered == \A p \in Procs :
  req[p].stage \in {"selling", "post", "check", "pay", "hook", "drop"} => req[p].number # 0

\* Two requests that will open one register, or one that will open a register
\* with an open session, have raced.
Openings ==
  /\ \A p, q \in Procs :
       /\ p # q /\ req[p].stage = "open" /\ req[q].stage = "open"
       /\ req[p].register = req[q].register
       => req[p].register \in raced
  /\ \A p \in Procs, s \in Sessions :
       /\ req[p].stage = "open" /\ session[s].status = "OPEN"
       /\ session[s].register = req[p].register
       => req[p].register \in raced

IInv == Typed /\ Numbered /\ Openings /\ OneOpenSession

-----------------------------------------------------------------------------
LEMMA IdleType == Idle \in Request /\ Idle.stage = "idle"
<1>1. SomeCart \in Carts /\ SomeSession \in Sessions /\ SomeRegister \in Registers
  BY ConstantsAssumption DEF SomeCart, SomeSession, SomeRegister
<1>2. 0 \in 0..MaxNumber /\ <<>> \in Seq(Payment)
  BY ConstantsAssumption
<1>. QED
  BY <1>1, <1>2 DEF Idle, Request, Stages

LEMMA CartType ==
  ASSUME NEW c \in Carts
  PROVE  c.pays \in Seq(Payment) /\ c.lines \in Nat /\ c.units \in Nat /\ Sold(c) \in Nat
<1>1. c.pays \in Seq(Payment) /\ c.lines \in Nat /\ c.units \in Nat
  BY ConstantsAssumption
<1>. QED
  BY <1>1 DEF Sold

(* The greatest number. *)

LEMMA LeastOf ==
  ASSUME NEW T, T \subseteq Nat, T # {}
  PROVE  \E x \in T : \A y \in T : x <= y
<1>. DEFINE R == {ss \in Nat \X Nat : ss[1] < ss[2]}
<1>1. IsWellFoundedOn(R, Nat)
  BY NatLessThanWellFounded DEF OpToRel
<1>. HIDE DEF R
<1>2. PICK x \in T : \A y \in T : ~ (<<y, x>> \in R)
  BY <1>1, WFMin
<1>3. \A y \in T : x <= y
  <2>1. SUFFICES ASSUME NEW y \in T, y < x PROVE FALSE
    OBVIOUS
  <2>2. y \in Nat /\ x \in Nat
    OBVIOUS
  <2>3. <<y, x>> \in R
    BY <2>1, <2>2 DEF R
  <2>. QED
    BY <1>2, <2>3
<1>. QED
  BY <1>2, <1>3

LEMMA GreatestOf ==
  ASSUME NEW n \in Nat, NEW T, T \subseteq 0..n, T # {}
  PROVE  Max(T) \in T
<1>. DEFINE D == {n - x : x \in T}
<1>1. D \subseteq Nat /\ D # {}
  <2>1. \A x \in T : n - x \in Nat
    OBVIOUS
  <2>. QED
    BY <2>1
<1>. HIDE DEF D
<1>2. PICK d \in D : d \in Nat /\ \A e \in D : d <= e
  BY <1>1, LeastOf
<1>3. PICK x \in T : d = n - x
  BY DEF D
<1>4. \A y \in T : x >= y
  <2>1. SUFFICES ASSUME NEW y \in T PROVE x >= y
    OBVIOUS
  <2>2. d <= n - y
    BY <1>2 DEF D
  <2>. QED
    BY <1>3, <2>2
<1>. QED
  BY <1>3, <1>4 DEF Max

LEMMA NumberType == LastNumber < MaxNumber => LastNumber + 1 \in Numbers
<1>1. MaxNumber \in Nat /\ Used \subseteq 0..MaxNumber
  BY ConstantsAssumption DEF Used, Numbers
<1>2. Used # {} => LastNumber \in Used
  BY <1>1, GreatestOf DEF LastNumber
<1>3. LastNumber \in 0..MaxNumber
  <2>1. CASE Used = {}
    BY <1>1, <2>1 DEF LastNumber
  <2>2. CASE Used # {}
    BY <1>1, <1>2, <2>2
  <2>. QED
    BY <2>1, <2>2
<1>. QED
  BY <1>1, <1>3 DEF Numbers

-----------------------------------------------------------------------------
LEMMA Initial == Init => IInv
<1>1. SUFFICES ASSUME Init PROVE IInv
  OBVIOUS
<1>2. SomeCart \in Carts /\ SomeRegister \in Registers
  BY ConstantsAssumption DEF SomeCart, SomeRegister
<1>3. Typed
  BY <1>1, <1>2, IdleType DEF Init, Typed, NoInvoice, Session, Statuses
<1>. QED
  BY <1>1, <1>3, IdleType DEF Init, IInv, Numbered, Openings, OneOpenSession

-----------------------------------------------------------------------------
(* The steps. *)

\* A step that neither opens nor starts to open a session.
LEMMA Elsewhere ==
  ASSUME IInv, NEW p \in Procs, NEW r \in Request, req' = [req EXCEPT ![p] = r],
         r.stage # "open", Typed', Numbered', raced' = raced,
         \A s \in Sessions : /\ session'[s].register = session[s].register
                             /\ session'[s].status = "OPEN" => session[s].status = "OPEN"
  PROVE  IInv'
<1>1. \A q \in Procs : req'[q].stage = "open" => req'[q] = req[q]
  BY DEF IInv, Typed
<1>2. Openings'
  BY <1>1 DEF IInv, Openings
<1>3. OneOpenSession'
  BY DEF IInv, OneOpenSession
<1>. QED
  BY <1>2, <1>3 DEF IInv

LEMMA NumberedStep ==
  ASSUME IInv, NEW p \in Procs, NEW r \in Request, req' = [req EXCEPT ![p] = r],
         r.stage \in {"selling", "post", "check", "pay", "hook", "drop"} => r.number # 0
  PROVE  Numbered'
BY DEF IInv, Numbered, Typed

LEMMA SellKeeps ==
  ASSUME IInv, NEW p \in Procs, Plan(p) \/ Begin(p) \/ CommitSale(p)
  PROVE  IInv'
<1>0. /\ req[p] \in Request /\ Idle \in Request /\ SomeSession \in Sessions
      /\ MaxNumber \in Nat /\ prepared \in Int /\ supplied \in Int
  BY IdleType, ConstantsAssumption DEF IInv, Typed, SomeSession
<1>1. UNCHANGED <<session, drawer, raced>>
  BY DEF Plan, Begin, CommitSale, stock, sale, till
<1>2. \E r \in Request :
        /\ req' = [req EXCEPT ![p] = r]
        /\ r.stage \in {"planned", "selling", "post"}
        /\ r.stage # "planned" => r.number # 0
  <2>1. CASE Plan(p)
    <3>1. PICK c \in Carts : Go(p, [Idle EXCEPT !.stage = "planned", !.cart = c,
                                       !.take = Smaller(prepared, Sold(c))])
      BY <2>1 DEF Plan
    <3>2. PICK n \in Int : n = Smaller(prepared, Sold(c))
      BY <1>0, CartType DEF Smaller
    <3>3. PICK r : r = [Idle EXCEPT !.stage = "planned", !.cart = c, !.take = n]
      OBVIOUS
    <3>4. r \in Request /\ r.stage = "planned"
      BY <1>0, <3>3 DEF Request, Stages
    <3>. QED
      BY <3>1, <3>2, <3>3, <3>4 DEF Go
  <2>2. CASE Begin(p)
    <3>1. PICK n : n = LastNumber + 1 /\ n \in 0..MaxNumber /\ n # 0
      BY <1>0, <2>2, NumberType DEF Begin, Numbers
    <3>2. PICK r : r = [req[p] EXCEPT !.stage = "selling", !.number = n,
                                      !.seen = prepared, !.since = supplied]
      OBVIOUS
    <3>3. r \in Request /\ r.stage = "selling" /\ r.number = n
      BY <1>0, <3>1, <3>2 DEF Request, Stages
    <3>. QED
      BY <2>2, <3>1, <3>2, <3>3 DEF Begin, Go
  <2>3. CASE CommitSale(p)
    <3>1. PICK n : n = req[p].number /\ n \in 0..MaxNumber /\ n # 0
      BY <1>0, <2>3 DEF CommitSale, At, IInv, Numbered, Request
    <3>2. PICK r : r = [Idle EXCEPT !.stage = "post", !.number = n]
      OBVIOUS
    <3>3. r \in Request /\ r.stage = "post" /\ r.number = n
      BY <1>0, <3>1, <3>2 DEF Request, Stages
    <3>. QED
      BY <2>3, <3>1, <3>2, <3>3 DEF CommitSale, Go
  <2>. QED
    BY <2>1, <2>2, <2>3
<1>3. /\ prepared' \in Int /\ supplied' \in Int
      /\ invoice' \in [Numbers -> [status : {"none", "ISSUED", "OTHER"}, cart : Carts,
                                   took : Int, made : Int,
                          given : BOOLEAN]]
  <2>1. CASE Plan(p) \/ Begin(p)
    BY <2>1 DEF Plan, Begin, stock, sale, IInv, Typed
  <2>2. CASE CommitSale(p)
    <3>1. /\ req[p].cart \in Carts /\ req[p].take \in Int /\ req[p].seen \in Int
          /\ req[p].since \in Int
      BY <1>0 DEF Request
    <3>2. Taken(req[p]) \in Int /\ Made(req[p]) \in Int
      BY <3>1, CartType, ConstantsAssumption DEF Taken, Made
    <3>3. PICK row : row = [status |-> "ISSUED", cart |-> req[p].cart,
                            took |-> Taken(req[p]), made |-> Made(req[p]),
                            given |-> FALSE]
      OBVIOUS
    <3>4. row \in [status : {"none", "ISSUED", "OTHER"}, cart : Carts, took : Int, made : Int,
                   given : BOOLEAN]
      BY <1>0, <3>1, <3>2, <3>3 DEF Request
    <3>5. invoice' = [invoice EXCEPT ![req[p].number] = row]
      BY <2>2, <3>3 DEF CommitSale
    <3>6. prepared' \in Int /\ supplied' \in Int
      BY <1>0, <2>2, <3>1, <3>2 DEF CommitSale
    <3>. QED
      BY <3>4, <3>5, <3>6 DEF IInv, Typed
  <2>. QED
    BY <2>1, <2>2
<1>4. Typed'
  BY <1>1, <1>2, <1>3 DEF IInv, Typed
<1>. QED
  BY <1>1, <1>2, <1>4, NumberedStep, Elsewhere

LEMMA PayKeeps ==
  ASSUME IInv, NEW p \in Procs,
         PostSale(p) \/ CheckPayments(p) \/ Receive(p) \/ FindSession(p)
  PROVE  IInv'
<1>0. /\ req[p] \in Request /\ Idle \in Request
      /\ req[p].number \in 0..MaxNumber /\ req[p].due \in Seq(Payment)
      /\ req[p].number # 0
  BY IdleType DEF IInv, Typed, Request, Numbered, PostSale, CheckPayments, Receive,
     FindSession, At
<1>1. UNCHANGED <<prepared, supplied, invoice, session, drawer, raced>>
  BY DEF PostSale, CheckPayments, Receive, FindSession, stock, sale, till
<1>2. CartOf(p).pays \in Seq(Payment)
  <2>1. req[p].number \in Numbers
    BY <1>0, ConstantsAssumption DEF Numbers
  <2>2. CartOf(p) \in Carts
    BY <2>1 DEF CartOf, IInv, Typed
  <2>. QED
    BY <2>2, CartType
<1>3. \E r \in Request :
        /\ req' = [req EXCEPT ![p] = r]
        /\ r.stage \in {"check", "pay", "idle", "hook", "drop"}
        /\ r.stage # "idle" => r.number # 0
  <2>1. CASE PostSale(p)
    <3>1. PICK r : r = [req[p] EXCEPT !.stage = "check"]
      OBVIOUS
    <3>2. r \in Request /\ r.stage = "check" /\ r.number = req[p].number
      BY <1>0, <3>1 DEF Request, Stages
    <3>. QED
      BY <1>0, <2>1, <3>1, <3>2 DEF PostSale, Go
  <2>2. CASE CheckPayments(p)
    <3>1. PICK r : r = [req[p] EXCEPT !.stage = "pay", !.due = CartOf(p).pays]
      OBVIOUS
    <3>2. r \in Request /\ r.stage = "pay" /\ r.number = req[p].number
      BY <1>0, <1>2, <3>1 DEF Request, Stages
    <3>. QED
      BY <1>0, <2>2, <3>1, <3>2, IdleType DEF CheckPayments, Go
  <2>3. CASE Receive(p)
    <3>1. CASE req[p].due = <<>>
      BY <2>3, <3>1, IdleType DEF Receive, Go
    <3>2. CASE req[p].due # <<>>
      <4>1. PICK pay \in Payment : pay = Head(req[p].due)
        BY <1>0, <3>2
      <4>2. PICK rest \in Seq(Payment) : rest = Tail(req[p].due)
        BY <1>0, <3>2, HeadTailProperties
      <4>3. pay.amount \in Int
        BY DEF Payment
      <4>4. PICK r : r = [req[p] EXCEPT !.stage = IF pay.by = "cash" THEN "hook" ELSE "pay",
                                        !.amount = pay.amount, !.due = rest]
        OBVIOUS
      <4>5. r \in Request /\ r.stage \in {"hook", "pay"} /\ r.number = req[p].number
        BY <1>0, <4>3, <4>4 DEF Request, Stages
      <4>6. req' = [req EXCEPT ![p] = r]
        BY <2>3, <3>2, <4>1, <4>2, <4>4 DEF Receive, Go
      <4>. QED
        BY <1>0, <4>5, <4>6
    <3>. QED
      BY <3>1, <3>2
  <2>4. CASE FindSession(p)
    <3>1. \/ \E s \in Sessions : Go(p, [req[p] EXCEPT !.stage = "drop", !.session = s])
          \/ Go(p, [req[p] EXCEPT !.stage = "pay"])
      BY <2>4 DEF FindSession
    <3>2. PICK r : /\ \/ \E s \in Sessions : r = [req[p] EXCEPT !.stage = "drop", !.session = s]
                      \/ r = [req[p] EXCEPT !.stage = "pay"]
                   /\ req' = [req EXCEPT ![p] = r]
      BY <3>1 DEF Go
    <3>3. r \in Request /\ r.stage \in {"drop", "pay"} /\ r.number = req[p].number
      BY <1>0, <3>2 DEF Request, Stages
    <3>. QED
      BY <1>0, <3>2, <3>3
  <2>. QED
    BY <2>1, <2>2, <2>3, <2>4
<1>4. Typed'
  BY <1>1, <1>3 DEF IInv, Typed
<1>. QED
  BY <1>1, <1>3, <1>4, NumberedStep, Elsewhere
-----------------------------------------------------------------------------
(* The session. *)

LEMMA DropKeeps ==
  ASSUME IInv, NEW p \in Procs, DropCash(p) \/ AdjustExpected(p) \/ WriteMovement(p)
  PROVE  IInv'
<1>0. /\ req[p] \in Request /\ Idle \in Request
      /\ req[p].session \in Sessions /\ req[p].amount \in Int
      /\ Moves \subseteq Int
  BY IdleType, ConstantsAssumption DEF IInv, Typed, Request
<1>1. UNCHANGED <<prepared, supplied, invoice, raced>>
  BY DEF DropCash, AdjustExpected, WriteMovement, stock, sale
<1>2. PICK s \in Sessions : s = req[p].session
  BY <1>0
<1>3. session[s] \in Session /\ drawer[s] \in Int
  BY DEF IInv, Typed
<1>4. \E e \in Int : session' = [session EXCEPT ![s] = [session[s] EXCEPT !.expected = e]]
  <2>1. CASE WriteMovement(p)
    <3>1. session' = session
      BY <2>1 DEF WriteMovement
    <3>2. session[s].expected \in Int
          /\ [session[s] EXCEPT !.expected = session[s].expected] = session[s]
      BY <1>3 DEF Session
    <3>3. session = [session EXCEPT ![s] = session[s]]
      BY DEF IInv, Typed
    <3>. QED
      BY <3>1, <3>2, <3>3
  <2>2. CASE DropCash(p) \/ AdjustExpected(p)
    <3>1. PICK e \in Int : e = session[s].expected + req[p].amount
      BY <1>0, <1>3 DEF Session
    <3>. QED
      BY <1>2, <2>2, <3>1 DEF DropCash, AdjustExpected, Adjusted
  <2>. QED
    BY <2>1, <2>2
<1>5. session' \in [Sessions -> Session]
  BY <1>3, <1>4 DEF IInv, Typed, Session
<1>6. \A t \in Sessions : /\ session'[t].register = session[t].register
                          /\ session'[t].status = session[t].status
  BY <1>3, <1>4 DEF IInv, Typed, Session
<1>7. drawer' \in [Sessions -> Int]
  <2>1. CASE DropCash(p)
    <3>1. PICK d \in Int : d = drawer[s] + req[p].amount
      BY <1>0, <1>3
    <3>2. drawer' = [drawer EXCEPT ![s] = d]
      BY <1>2, <2>1, <3>1 DEF DropCash
    <3>. QED
      BY <3>2 DEF IInv, Typed
  <2>2. CASE WriteMovement(p)
    <3>1. PICK a \in Int : drawer' = [drawer EXCEPT ![s] = @ + a]
      BY <1>0, <1>2, <2>2 DEF WriteMovement
    <3>2. PICK d \in Int : d = drawer[s] + a
      BY <1>3
    <3>. QED
      BY <3>1, <3>2 DEF IInv, Typed
  <2>3. CASE AdjustExpected(p)
    BY <2>3 DEF AdjustExpected, IInv, Typed
  <2>. QED
    BY <2>1, <2>2, <2>3
<1>8. \E r \in Request :
        /\ req' = [req EXCEPT ![p] = r]
        /\ r.stage \in {"pay", "adjust", "idle"}
        /\ r.stage = "pay" => r.number # 0
  <2>1. CASE DropCash(p)
    <3>1. PICK r : r = [req[p] EXCEPT !.stage = "pay"]
      OBVIOUS
    <3>2. r \in Request /\ r.stage = "pay" /\ r.number = req[p].number
      BY <1>0, <3>1 DEF Request, Stages
    <3>3. req[p].number # 0
      BY <2>1 DEF DropCash, At, IInv, Numbered
    <3>. QED
      BY <2>1, <3>1, <3>2, <3>3 DEF DropCash, Go
  <2>2. CASE WriteMovement(p)
    <3>1. PICK a \in Int : Go(p, [req[p] EXCEPT !.stage = "adjust", !.amount = a])
      BY <1>0, <2>2 DEF WriteMovement
    <3>2. PICK r : r = [req[p] EXCEPT !.stage = "adjust", !.amount = a]
      OBVIOUS
    <3>3. r \in Request /\ r.stage = "adjust"
      BY <1>0, <3>2 DEF Request, Stages
    <3>. QED
      BY <3>1, <3>2, <3>3 DEF Go
  <2>3. CASE AdjustExpected(p)
    BY <2>3, IdleType DEF AdjustExpected, Go
  <2>. QED
    BY <2>1, <2>2, <2>3
<1>9. Typed'
  BY <1>1, <1>5, <1>7, <1>8 DEF IInv, Typed
<1>. QED
  BY <1>1, <1>6, <1>8, <1>9, NumberedStep, Elsewhere

LEMMA CloseKeeps ==
  ASSUME IInv, NEW p \in Procs, ReadSession(p) \/ CloseSession(p) \/ Lose(p)
  PROVE  IInv'
<1>0. req[p] \in Request /\ Idle \in Request /\ req[p].session \in Sessions
  BY IdleType DEF IInv, Typed, Request
<1>1. UNCHANGED <<prepared, supplied, invoice, drawer, raced>>
  BY DEF ReadSession, CloseSession, Lose, stock, sale, till
<1>2. PICK s \in Sessions : s = req[p].session
  BY <1>0
<1>3. session[s] \in Session
  BY DEF IInv, Typed
<1>4. /\ session' \in [Sessions -> Session]
      /\ \A t \in Sessions :
           /\ session'[t].register = session[t].register
           /\ session'[t].status = "OPEN" => session[t].status = "OPEN"
  <2>1. CASE ReadSession(p) \/ Lose(p)
    BY <2>1 DEF ReadSession, Lose, till, IInv, Typed
  <2>2. CASE CloseSession(p)
    <3>1. PICK c : c = [session[s] EXCEPT !.status = "CLOSED"]
      OBVIOUS
    <3>2. /\ c \in Session /\ c.register = session[s].register /\ c.status = "CLOSED"
          /\ session' = [session EXCEPT ![s] = c]
      BY <1>2, <1>3, <2>2, <3>1 DEF CloseSession, Session, Statuses
    <3>. QED
      BY <3>2 DEF IInv, Typed
  <2>. QED
    BY <2>1, <2>2
<1>5. \E r \in Request :
        /\ req' = [req EXCEPT ![p] = r]
        /\ r.stage \in {"move", "close", "idle"}
  <2>1. CASE ReadSession(p)
    <3>1. PICK t \in Sessions, stage \in {"move", "close"} :
            Go(p, [Idle EXCEPT !.stage = stage, !.session = t])
      BY <2>1 DEF ReadSession
    <3>2. PICK r : r = [Idle EXCEPT !.stage = stage, !.session = t]
      OBVIOUS
    <3>3. r \in Request /\ r.stage \in {"move", "close"}
      BY <1>0, <3>2 DEF Request, Stages
    <3>. QED
      BY <3>1, <3>2, <3>3 DEF Go
  <2>2. CASE CloseSession(p) \/ Lose(p)
    BY <2>2, IdleType DEF CloseSession, Lose, Go
  <2>. QED
    BY <2>1, <2>2
<1>6. Typed'
  BY <1>1, <1>4, <1>5 DEF IInv, Typed
<1>. QED
  BY <1>1, <1>4, <1>5, <1>6, NumberedStep, Elsewhere

LEMMA ReadForOpenKeeps ==
  ASSUME IInv, NEW p \in Procs, ReadForOpen(p)
  PROVE  IInv'
<1>0. Idle \in Request /\ req[p] \in Request
  BY IdleType DEF IInv, Typed
<1>1. PICK g \in Registers :
        /\ RegisterFree(g)
        /\ raced' = raced \union
             (IF \E q \in Procs : At(q, "open") /\ req[q].register = g THEN {g} ELSE {})
        /\ Go(p, [Idle EXCEPT !.stage = "open", !.register = g])
  BY DEF ReadForOpen
<1>2. PICK r : r = [Idle EXCEPT !.stage = "open", !.register = g]
  OBVIOUS
<1>3. r \in Request /\ r.stage = "open" /\ r.register = g
  BY <1>0, <1>2 DEF Request, Stages
<1>4. req' = [req EXCEPT ![p] = r]
  BY <1>1, <1>2 DEF Go
<1>5. UNCHANGED <<prepared, supplied, invoice, session, drawer>>
  BY DEF ReadForOpen, stock, sale
<1>6. Typed'
  BY <1>1, <1>3, <1>4, <1>5 DEF IInv, Typed
<1>7. Numbered'
  BY <1>3, <1>4, NumberedStep
<1>8. /\ raced \subseteq raced' /\ req'[p] = r
      /\ \A q \in Procs \ {p} : req'[q] = req[q]
  BY <1>1, <1>4 DEF IInv, Typed
<1>9. \A q \in Procs \ {p} :
        req[q].stage = "open" /\ req[q].register = g => g \in raced'
  BY <1>1 DEF At
<1>10. \A s \in Sessions : ~(session[s].status = "OPEN" /\ session[s].register = g)
  BY <1>1 DEF RegisterFree
<1>11. Openings'
  BY <1>3, <1>5, <1>8, <1>9, <1>10 DEF IInv, Openings
<1>12. OneOpenSession'
  BY <1>5, <1>8 DEF IInv, OneOpenSession
<1>. QED
  BY <1>6, <1>7, <1>11, <1>12 DEF IInv

LEMMA OpenKeeps ==
  ASSUME IInv, NEW p \in Procs, OpenSession(p)
  PROVE  IInv'
<1>0. req[p] \in Request /\ req[p].register \in Registers
  BY DEF IInv, Typed, Request
<1>1. PICK g \in Registers : g = req[p].register
  BY <1>0
<1>2. PICK s \in Sessions :
        /\ session[s].status = "none"
        /\ session' = [session EXCEPT ![s] = [status |-> "OPEN", register |-> g,
                                              opening |-> 1, expected |-> 1]]
  BY <1>1 DEF OpenSession
<1>3. /\ req[p].stage = "open"
      /\ req' = [req EXCEPT ![p] = Idle]
      /\ UNCHANGED <<prepared, supplied, invoice, drawer, raced>>
  BY DEF OpenSession, At, Go, stock, sale
<1>4. Typed'
  BY <1>2, <1>3, IdleType DEF IInv, Typed, Session, Statuses
<1>5. Numbered'
  BY <1>3, IdleType, NumberedStep
<1>6. /\ session'[s].status = "OPEN" /\ session'[s].register = g
      /\ \A t \in Sessions \ {s} : session'[t] = session[t]
      /\ req'[p].stage = "idle"
      /\ \A q \in Procs \ {p} : req'[q] = req[q]
  BY <1>2, <1>3, IdleType DEF IInv, Typed
<1>7. Openings'
  BY <1>1, <1>3, <1>6 DEF IInv, Openings
<1>8. OneOpenSession'
  BY <1>1, <1>3, <1>6 DEF IInv, Openings, OneOpenSession
<1>. QED
  BY <1>4, <1>5, <1>7, <1>8 DEF IInv

-----------------------------------------------------------------------------
(* The theorems. *)

\* What an invoice without stock changes.
LEMMA IssueTakes ==
  ASSUME IInv, Issue
  PROVE  \E n \in Numbers :
           /\ invoice[n].status = "none" /\ invoice'[n].status = "OTHER"
           /\ invoice'[n].took = invoice[n].took
           /\ invoice'[n].given = (n # LastNumber + 1)
           /\ \A m \in Numbers \ {n} : invoice'[m] = invoice[m]
           /\ invoice' \in [Numbers -> [status : {"none", "ISSUED", "OTHER"}, cart : Carts,
                                       took : Int, made : Int, given : BOOLEAN]]
<1>1. PICK n \in Numbers :
        /\ invoice[n].status = "none"
        /\ invoice' = [invoice EXCEPT ![n].status = "OTHER", ![n].given = n # LastNumber + 1]
  BY DEF Issue, NumberIsFree
<1>2. invoice \in [Numbers -> [status : {"none", "ISSUED", "OTHER"}, cart : Carts, took : Int,
                              made : Int, given : BOOLEAN]]
  BY DEF IInv, Typed
<1>3. PICK g \in BOOLEAN : g = (n # LastNumber + 1)
  OBVIOUS
<1>4. PICK row : row = [invoice[n] EXCEPT !.status = "OTHER", !.given = g]
  OBVIOUS
<1>5. /\ row \in [status : {"none", "ISSUED", "OTHER"}, cart : Carts, took : Int,
                  made : Int, given : BOOLEAN]
      /\ row.status = "OTHER" /\ row.took = invoice[n].took /\ row.given = g
  BY <1>2, <1>3, <1>4
<1>6. invoice' = [invoice EXCEPT ![n] = row]
  BY <1>1, <1>2, <1>3, <1>4
<1>7. invoice'[n] = row /\ \A m \in Numbers \ {n} : invoice'[m] = invoice[m]
  BY <1>2, <1>6
<1>. QED
  BY <1>1, <1>2, <1>3, <1>5, <1>6, <1>7

LEMMA IssueKeeps ==
  ASSUME IInv, Issue PROVE IInv'
<1>1. invoice' \in [Numbers -> [status : {"none", "ISSUED", "OTHER"}, cart : Carts,
                               took : Int, made : Int, given : BOOLEAN]]
  BY IssueTakes
<1>. QED
  BY <1>1 DEF Issue, stock, till, IInv, Typed, Numbered, Openings, OneOpenSession

LEMMA StepKeeps == IInv /\ [Next]_vars => IInv'
<1>1. SUFFICES ASSUME IInv, [Next]_vars PROVE IInv'
  OBVIOUS
<1>2. CASE UNCHANGED vars
  BY <1>1, <1>2 DEF vars, IInv, Typed, Numbered, Openings, OneOpenSession
<1>3. CASE Supply
  BY <1>1, <1>3 DEF Supply, sale, till, IInv, Typed, Numbered, Openings, OneOpenSession
<1>4. CASE Issue
  BY <1>1, <1>4, IssueKeeps
<1>5. ASSUME NEW p \in Procs, Step(p) PROVE IInv'
  BY <1>1, <1>5, SellKeeps, PayKeeps, DropKeeps, CloseKeeps, ReadForOpenKeeps, OpenKeeps
     DEF Step
<1>. QED
  BY <1>1, <1>2, <1>3, <1>4, <1>5 DEF Next

\* Rows and requests keep their types, and no register has two open sessions
\* without two openings that overlapped.
THEOREM Inductive == Spec => []IInv
<1>. QED
  BY Initial, StepKeeps, PTL DEF Spec

\* The look for an open session before another is opened is enough for requests
\* that do not overlap, on any number of registers.
THEOREM OpenSessionsRaced == Spec => []OneOpenSession
<1>1. IInv => OneOpenSession
  BY DEF IInv
<1>. QED
  BY <1>1, Inductive, PTL

LEMMA ClosedStep ==
  ASSUME IInv, [Next]_vars
  PROVE  \A s \in Sessions : ClosedStays(s)
<1>1. SUFFICES ASSUME NEW s \in Sessions, session[s].status = "CLOSED"
               PROVE  /\ \A q \in Procs : Holds(q, s)' => Holds(q, s)
                      /\ (\A q \in Procs : ~Holds(q, s)) =>
                           session'[s] = session[s] /\ drawer'[s] = drawer[s]
  BY DEF ClosedStays
<1>2. \A q \in Procs : req[q] \in Request
  BY DEF IInv, Typed
<1>3. CASE UNCHANGED vars
  BY <1>3 DEF vars, Holds
<1>4. CASE Supply \/ Issue
  BY <1>4 DEF Supply, Issue, sale, till, Holds
<1>5. ASSUME NEW p \in Procs, Step(p)
      PROVE  /\ \A q \in Procs : Holds(q, s)' => Holds(q, s)
             /\ (\A q \in Procs : ~Holds(q, s)) =>
                  session'[s] = session[s] /\ drawer'[s] = drawer[s]
  <2>1. \A q \in Procs \ {p} : req'[q] = req[q]
    BY <1>5 DEF IInv, Typed, Step, Plan, Begin, CommitSale, PostSale, CheckPayments, Receive,
       FindSession, DropCash, ReadForOpen, OpenSession, ReadSession, WriteMovement,
       AdjustExpected, CloseSession, Lose, Go
  <2>2. Holds(p, s)' => Holds(p, s)
    <3>0. /\ Idle \in Request
          /\ \A r : req' = [req EXCEPT ![p] = r] /\ Holds(p, s)' =>
                r.stage \in {"move", "adjust", "drop", "close"} /\ r.session = s
      BY IdleType DEF Holds, IInv, Typed
    <3>1. CASE Plan(p) \/ Begin(p) \/ CommitSale(p)
      <4>1. CASE Plan(p)
        <5>1. PICK c \in Carts :
                Go(p, [Idle EXCEPT !.stage = "planned", !.cart = c,
                                   !.take = Smaller(prepared, Sold(c))])
          BY <4>1 DEF Plan
        <5>2. PICK r : r = [Idle EXCEPT !.stage = "planned", !.cart = c,
                                        !.take = Smaller(prepared, Sold(c))]
          OBVIOUS
        <5>3. r.stage = "planned"
          BY <3>0, <5>2 DEF Request
        <5>. QED
          BY <3>0, <5>1, <5>2, <5>3 DEF Go
      <4>2. CASE Begin(p)
        <5>1. PICK r : r = [req[p] EXCEPT !.stage = "selling", !.number = LastNumber + 1,
                                          !.seen = prepared, !.since = supplied]
          OBVIOUS
        <5>2. r.stage = "selling"
          BY <1>2, <5>1 DEF Request
        <5>. QED
          BY <3>0, <4>2, <5>1, <5>2 DEF Begin, Go
      <4>3. CASE CommitSale(p)
        <5>1. PICK r : r = [Idle EXCEPT !.stage = "post", !.number = req[p].number]
          OBVIOUS
        <5>2. r.stage = "post"
          BY <3>0, <5>1 DEF Request
        <5>. QED
          BY <3>0, <4>3, <5>1, <5>2 DEF CommitSale, Go
      <4>. QED
        BY <3>1, <4>1, <4>2, <4>3
    <3>2. CASE PostSale(p) \/ CheckPayments(p) \/ Receive(p)
      <4>1. CASE Go(p, Idle)
        BY <3>0, <4>1, IdleType DEF Go
      <4>2. CASE ~Go(p, Idle)
        <5>1. CASE PostSale(p)
          <6>1. PICK r : r = [req[p] EXCEPT !.stage = "check"]
            OBVIOUS
          <6>2. r.stage = "check"
            BY <1>2, <6>1 DEF Request
          <6>. QED
            BY <3>0, <5>1, <6>1, <6>2 DEF PostSale, Go
        <5>2. CASE CheckPayments(p)
          <6>1. PICK r : r = [req[p] EXCEPT !.stage = "pay", !.due = CartOf(p).pays]
            OBVIOUS
          <6>2. r.stage = "pay"
            BY <1>2, <6>1 DEF Request
          <6>. QED
            BY <3>0, <4>2, <5>2, <6>1, <6>2 DEF CheckPayments, Go
        <5>3. CASE Receive(p)
          <6>1. PICK pay : pay = Head(req[p].due)
            OBVIOUS
          <6>2. PICK r : r = [req[p] EXCEPT !.stage = IF pay.by = "cash" THEN "hook" ELSE "pay",
                                            !.amount = pay.amount, !.due = Tail(req[p].due)]
            OBVIOUS
          <6>3. r.stage \in {"hook", "pay"}
            BY <1>2, <6>2 DEF Request
          <6>4. req' = [req EXCEPT ![p] = r]
            BY <4>2, <5>3, <6>1, <6>2 DEF Receive, Go
          <6>. QED
            BY <3>0, <6>3, <6>4
        <5>. QED
          BY <3>2, <5>1, <5>2, <5>3
      <4>. QED
        BY <4>1, <4>2
    <3>3. CASE FindSession(p)
      <4>1. \/ \E t \in Sessions : /\ session[t].status = "OPEN"
                                   /\ Go(p, [req[p] EXCEPT !.stage = "drop", !.session = t])
            \/ Go(p, [req[p] EXCEPT !.stage = "pay"])
        BY <3>3 DEF FindSession, MayTake
      <4>2. PICK r : /\ req' = [req EXCEPT ![p] = r]
                     /\ \/ \E t \in Sessions :
                             /\ session[t].status = "OPEN"
                             /\ r = [req[p] EXCEPT !.stage = "drop", !.session = t]
                        \/ r = [req[p] EXCEPT !.stage = "pay"]
        BY <4>1 DEF Go
      <4>3. r.stage = "pay" \/ session[r.session].status = "OPEN"
        BY <1>2, <4>2 DEF Request
      <4>. QED
        BY <1>1, <3>0, <4>2, <4>3
    <3>4. CASE DropCash(p) \/ AdjustExpected(p) \/ CloseSession(p) \/ Lose(p) \/ OpenSession(p)
      BY <1>2, <3>4, IdleType DEF DropCash, AdjustExpected, CloseSession, Lose, OpenSession,
         Go, Holds, IInv, Typed, Request
    <3>5. CASE ReadSession(p) \/ ReadForOpen(p)
      <4>1. \/ \E t \in Sessions, stage \in {"move", "close"} :
                 /\ session[t].status = "OPEN"
                 /\ Go(p, [Idle EXCEPT !.stage = stage, !.session = t])
            \/ \E g \in Registers : Go(p, [Idle EXCEPT !.stage = "open", !.register = g])
        BY <3>5 DEF ReadSession, ReadForOpen
      <4>2. PICK r : /\ req' = [req EXCEPT ![p] = r]
                     /\ \/ \E t \in Sessions, stage \in {"move", "close"} :
                             /\ session[t].status = "OPEN"
                             /\ r = [Idle EXCEPT !.stage = stage, !.session = t]
                        \/ \E g \in Registers :
                             r = [Idle EXCEPT !.stage = "open", !.register = g]
        BY <4>1 DEF Go
      <4>3. r.stage = "open" \/ session[r.session].status = "OPEN"
        BY <3>0, <4>2 DEF Request
      <4>. QED
        BY <1>1, <3>0, <4>2, <4>3
    <3>6. CASE WriteMovement(p)
      BY <1>2, <3>6 DEF WriteMovement, At, Go, Holds, IInv, Typed, Request
    <3>. QED
      BY <1>5, <3>1, <3>2, <3>3, <3>4, <3>5, <3>6 DEF Step
  <2>3. ASSUME ~Holds(p, s)
        PROVE  session'[s] = session[s] /\ drawer'[s] = drawer[s]
    <3>1. CASE UNCHANGED <<session, drawer>>
      BY <3>1
    <3>2. CASE DropCash(p) \/ AdjustExpected(p) \/ CloseSession(p)
      BY <1>2, <2>3, <3>2 DEF DropCash, AdjustExpected, CloseSession, At, Holds, IInv, Typed,
         Request
    <3>3. CASE WriteMovement(p)
      BY <1>2, <2>3, <3>3 DEF WriteMovement, At, Holds, IInv, Typed, Request
    <3>4. CASE OpenSession(p)
      BY <1>1, <3>4 DEF OpenSession, IInv, Typed
    <3>. QED
      BY <1>5, <3>1, <3>2, <3>3, <3>4 DEF Step, Plan, Begin, CommitSale, PostSale,
         CheckPayments, Receive, FindSession, ReadForOpen, ReadSession, Lose, till
  <2>. QED
    BY <2>1, <2>2, <2>3 DEF Holds
<1>. QED
  BY <1>1, <1>3, <1>4, <1>5 DEF Next

\* With the last request that had found a session open gone, a closed session
\* never changes again.
THEOREM ClosedStaysStill == Spec => ClosedIsStill
<1>1. IInv /\ [Next]_vars => [\A s \in Sessions : ClosedStays(s)]_<<session, drawer, req>>
  BY ClosedStep
<1>. QED
  BY <1>1, Inductive, PTL DEF Spec, ClosedIsStill

-----------------------------------------------------------------------------
(* What each step makes of its request. *)

Same(r, s) == r.number = s.number /\ r.due = s.due

\* The steps of a sale before its payments.
SaleStep(p, r) ==
  \/ Plan(p) /\ r.stage = "planned" /\ r.take = Smaller(prepared, Sold(r.cart))
  \/ /\ Begin(p) /\ r.stage = "selling" /\ r.take = req[p].take
     /\ r.number = LastNumber + 1
     /\ r.seen = prepared /\ r.since = supplied
  \/ CommitSale(p) /\ r.stage = "post" /\ r.number = req[p].number
  \/ PostSale(p) /\ r.stage = "check" /\ r.number = req[p].number

\* Its payments, one by one.
PayStep(p, r) ==
  \/ /\ CheckPayments(p) /\ Accepted(CartOf(p)) /\ failed' = failed
     /\ r.stage = "pay" /\ r.number = req[p].number /\ r.due = CartOf(p).pays
  \/ CheckPayments(p) /\ failed' = failed \union {req[p].number} /\ r = Idle
  \/ Receive(p) /\ req[p].due = <<>> /\ r = Idle
  \/ /\ Receive(p) /\ req[p].due # <<>>
     /\ r.stage \in {"hook", "pay"} /\ r.number = req[p].number /\ r.due = Tail(req[p].due)
  \/ FindSession(p) /\ r.stage = "drop" /\ Same(r, req[p]) /\ session[r.session].status = "OPEN"
  \/ FindSession(p) /\ r.stage = "pay" /\ Same(r, req[p])
  \/ DropCash(p) /\ r.stage = "pay" /\ Same(r, req[p])

\* The steps of a session.
TillStep(p, r) ==
  \/ ReadForOpen(p) /\ r.stage = "open"
  \/ /\ ReadSession(p) /\ r.stage \in {"move", "close"}
     /\ session[r.session].status = "OPEN"
  \/ /\ WriteMovement(p) /\ r.stage = "adjust" /\ r.session = req[p].session
     /\ drawer' = [drawer EXCEPT ![r.session] = drawer[r.session] + r.amount]
  \/ (OpenSession(p) \/ AdjustExpected(p) \/ CloseSession(p) \/ Lose(p)) /\ r = Idle

LEMMA RequestType ==
  ASSUME IInv, NEW p \in Procs
  PROVE  /\ req[p] \in Request /\ Idle \in Request /\ MaxNumber \in Nat
         /\ prepared \in Int /\ supplied \in Int
BY IdleType, ConstantsAssumption DEF IInv, Typed

LEMMA SaleRequest ==
  ASSUME IInv, NEW p \in Procs, Plan(p) \/ Begin(p) \/ CommitSale(p) \/ PostSale(p)
  PROVE  \E r \in Request : req' = [req EXCEPT ![p] = r] /\ SaleStep(p, r)
<1>0. /\ req[p] \in Request /\ Idle \in Request /\ MaxNumber \in Nat
      /\ prepared \in Int /\ supplied \in Int
  BY RequestType
<1>1. CASE Plan(p)
  <2>1. PICK c \in Carts : Go(p, [Idle EXCEPT !.stage = "planned", !.cart = c,
                                     !.take = Smaller(prepared, Sold(c))])
    BY <1>1 DEF Plan
  <2>2. PICK n \in Int : n = Smaller(prepared, Sold(c))
    BY <1>0, CartType DEF Smaller
  <2>3. PICK r : r = [Idle EXCEPT !.stage = "planned", !.cart = c, !.take = n]
    OBVIOUS
  <2>4. r \in Request /\ r.stage = "planned" /\ r.take = n /\ r.cart = c
    BY <1>0, <2>3 DEF Request, Stages
  <2> QED BY <1>1, <2>1, <2>2, <2>3, <2>4 DEF Go, SaleStep
<1>2. CASE Begin(p)
  <2>1. PICK n : n = LastNumber + 1 /\ n \in 0..MaxNumber
    BY <1>0, <1>2, NumberType DEF Begin, Numbers
  <2>2. PICK r : r = [req[p] EXCEPT !.stage = "selling", !.number = n,
                                    !.seen = prepared, !.since = supplied]
    OBVIOUS
  <2>3. /\ r \in Request /\ r.stage = "selling" /\ r.take = req[p].take
        /\ r.number = n /\ r.seen = prepared /\ r.since = supplied
    BY <1>0, <2>1, <2>2 DEF Request, Stages
  <2> QED BY <1>2, <2>1, <2>2, <2>3 DEF Begin, Go, SaleStep
<1>3. CASE CommitSale(p)
  <2>1. PICK n : n = req[p].number /\ n \in 0..MaxNumber
    BY <1>0 DEF Request
  <2>2. PICK r : r = [Idle EXCEPT !.stage = "post", !.number = n]
    OBVIOUS
  <2>3. r \in Request /\ r.stage = "post" /\ r.number = n
    BY <1>0, <2>1, <2>2 DEF Request, Stages
  <2> QED BY <1>3, <2>1, <2>2, <2>3 DEF CommitSale, Go, SaleStep
<1>4. CASE PostSale(p)
  <2>1. PICK r : r = [req[p] EXCEPT !.stage = "check"]
    OBVIOUS
  <2>2. r \in Request /\ r.stage = "check" /\ r.number = req[p].number
    BY <1>0, <2>1 DEF Request, Stages
  <2> QED BY <1>4, <2>1, <2>2 DEF PostSale, Go, SaleStep
<1> QED BY <1>1, <1>2, <1>3, <1>4

LEMMA PayRequest ==
  ASSUME IInv, NEW p \in Procs,
         CheckPayments(p) \/ Receive(p) \/ FindSession(p) \/ DropCash(p)
  PROVE  \E r \in Request : req' = [req EXCEPT ![p] = r] /\ PayStep(p, r)
<1>0. /\ req[p] \in Request /\ Idle \in Request /\ req[p].due \in Seq(Payment)
  BY RequestType DEF Request
<1>1. CASE CheckPayments(p)
  <2>1. CartOf(p).pays \in Seq(Payment)
    <3>1. req[p].number \in Numbers
      BY <1>0, <1>1, ConstantsAssumption DEF CheckPayments, At, IInv, Numbered, Request, Numbers
    <3>2. CartOf(p) \in Carts
      BY <3>1 DEF CartOf, IInv, Typed
    <3> QED BY <3>2, CartType
  <2>2. PICK r : r = [req[p] EXCEPT !.stage = "pay", !.due = CartOf(p).pays]
    OBVIOUS
  <2>3. /\ r \in Request /\ r.stage = "pay" /\ r.number = req[p].number
        /\ r.due = CartOf(p).pays
    BY <1>0, <2>1, <2>2 DEF Request, Stages
  <2>4. CASE Accepted(CartOf(p))
    BY <1>1, <2>2, <2>3, <2>4 DEF CheckPayments, Go, PayStep
  <2>5. CASE ~Accepted(CartOf(p))
    BY <1>0, <1>1, <2>5 DEF CheckPayments, Go, PayStep
  <2> QED BY <2>4, <2>5
<1>2. CASE Receive(p)
  <2>1. CASE req[p].due = <<>>
    BY <1>0, <1>2, <2>1 DEF Receive, Go, PayStep
  <2>2. CASE req[p].due # <<>>
    <3>1. PICK pay \in Payment : pay = Head(req[p].due)
      BY <1>0, <2>2
    <3>2. PICK rest \in Seq(Payment) : rest = Tail(req[p].due)
      BY <1>0, <2>2, HeadTailProperties
    <3>3. pay.amount \in Int
      BY DEF Payment
    <3>4. PICK r : r = [req[p] EXCEPT !.stage = IF pay.by = "cash" THEN "hook" ELSE "pay",
                                      !.amount = pay.amount, !.due = rest]
      OBVIOUS
    <3>5. r \in Request /\ r.stage \in {"hook", "pay"} /\ r.number = req[p].number /\ r.due = rest
      BY <1>0, <3>3, <3>4 DEF Request, Stages
    <3>6. req' = [req EXCEPT ![p] = r]
      BY <1>2, <2>2, <3>1, <3>2, <3>4 DEF Receive, Go
    <3> QED BY <1>2, <2>2, <3>2, <3>5, <3>6 DEF PayStep
  <2> QED BY <2>1, <2>2
<1>3. CASE FindSession(p)
  <2>1. \/ \E s \in Sessions : /\ session[s].status = "OPEN"
                               /\ Go(p, [req[p] EXCEPT !.stage = "drop", !.session = s])
        \/ Go(p, [req[p] EXCEPT !.stage = "pay"])
    BY <1>3 DEF FindSession, MayTake
  <2>2. PICK r : /\ \/ \E s \in Sessions : /\ session[s].status = "OPEN"
                                           /\ r = [req[p] EXCEPT !.stage = "drop", !.session = s]
                    \/ r = [req[p] EXCEPT !.stage = "pay"]
                 /\ req' = [req EXCEPT ![p] = r]
    BY <2>1 DEF Go
  <2>3. /\ r \in Request /\ r.number = req[p].number /\ r.due = req[p].due
        /\ r.stage = "pay" \/ (r.stage = "drop" /\ session[r.session].status = "OPEN")
    BY <1>0, <2>2 DEF Request, Stages
  <2> QED BY <1>3, <2>2, <2>3 DEF PayStep, Same
<1>4. CASE DropCash(p)
  <2>1. PICK r : r = [req[p] EXCEPT !.stage = "pay"]
    OBVIOUS
  <2>2. r \in Request /\ r.stage = "pay" /\ r.number = req[p].number /\ r.due = req[p].due
    BY <1>0, <2>1 DEF Request, Stages
  <2> QED BY <1>4, <2>1, <2>2 DEF DropCash, Go, PayStep, Same
<1> QED BY <1>1, <1>2, <1>3, <1>4

LEMMA TillRequest ==
  ASSUME IInv, NEW p \in Procs,
         \/ ReadForOpen(p) \/ OpenSession(p) \/ ReadSession(p) \/ WriteMovement(p)
         \/ AdjustExpected(p) \/ CloseSession(p) \/ Lose(p)
  PROVE  \E r \in Request : req' = [req EXCEPT ![p] = r] /\ TillStep(p, r)
<1>0. /\ req[p] \in Request /\ Idle \in Request
  BY RequestType
<1>1. CASE ReadForOpen(p)
  <2>1. PICK g \in Registers : Go(p, [Idle EXCEPT !.stage = "open", !.register = g])
    BY <1>1 DEF ReadForOpen
  <2>2. PICK r : r = [Idle EXCEPT !.stage = "open", !.register = g]
    OBVIOUS
  <2>3. r \in Request /\ r.stage = "open"
    BY <1>0, <2>2 DEF Request, Stages
  <2> QED BY <1>1, <2>1, <2>2, <2>3 DEF Go, TillStep
<1>2. CASE ReadSession(p)
  <2>1. PICK t \in Sessions, stage \in {"move", "close"} :
          /\ session[t].status = "OPEN"
          /\ Go(p, [Idle EXCEPT !.stage = stage, !.session = t])
    BY <1>2 DEF ReadSession
  <2>2. PICK r : r = [Idle EXCEPT !.stage = stage, !.session = t]
    OBVIOUS
  <2>3. r \in Request /\ r.stage = stage /\ r.session = t
    BY <1>0, <2>2 DEF Request, Stages
  <2> QED BY <1>2, <2>1, <2>2, <2>3 DEF Go, TillStep
<1>3. CASE WriteMovement(p)
  <2>1. PICK a \in Int :
          /\ drawer' = [drawer EXCEPT ![req[p].session] = @ + a]
          /\ Go(p, [req[p] EXCEPT !.stage = "adjust", !.amount = a])
    BY <1>3, ConstantsAssumption DEF WriteMovement
  <2>2. PICK r : r = [req[p] EXCEPT !.stage = "adjust", !.amount = a]
    OBVIOUS
  <2>3. r \in Request /\ r.stage = "adjust" /\ r.session = req[p].session /\ r.amount = a
    BY <1>0, <2>2 DEF Request, Stages
  <2>4. drawer' = [drawer EXCEPT ![r.session] = drawer[r.session] + r.amount]
    BY <2>1, <2>3
  <2> QED BY <1>3, <2>1, <2>2, <2>3, <2>4 DEF Go, TillStep
<1>4. CASE OpenSession(p) \/ AdjustExpected(p) \/ CloseSession(p) \/ Lose(p)
  BY <1>0, <1>4 DEF OpenSession, AdjustExpected, CloseSession, Lose, Go, TillStep
<1> QED BY <1>1, <1>2, <1>3, <1>4

\* Any step is one of those.
LEMMA StepRequest ==
  ASSUME IInv, NEW p \in Procs, Step(p)
  PROVE  \E r \in Request : /\ req' = [req EXCEPT ![p] = r]
                            /\ SaleStep(p, r) \/ PayStep(p, r) \/ TillStep(p, r)
<1>1. CASE Plan(p) \/ Begin(p) \/ CommitSale(p) \/ PostSale(p)
  BY <1>1, SaleRequest
<1>2. CASE CheckPayments(p) \/ Receive(p) \/ FindSession(p) \/ DropCash(p)
  BY <1>2, PayRequest
<1>3. CASE \/ ReadForOpen(p) \/ OpenSession(p) \/ ReadSession(p) \/ WriteMovement(p)
           \/ AdjustExpected(p) \/ CloseSession(p) \/ Lose(p)
  BY <1>3, TillRequest
<1> QED BY <1>1, <1>2, <1>3 DEF Step

-----------------------------------------------------------------------------
(* The prepared stock. *)

AllDrawn == \A n \in Numbers : ~invoice[n].given

\* What the layers show and what a sale will write there is never less than what
\* entered and was not taken by then.
Floor ==
  /\ prepared >= 0 /\ supplied >= 0
  /\ \A p \in Procs : req[p].stage \in {"planned", "selling"} => req[p].take >= 0
  /\ \A p \in Procs : req[p].stage = "selling" =>
       req[p].since <= supplied /\ req[p].seen >= req[p].since - TakenInAll
  /\ \A n \in Numbers : NumberIsFree(n) => invoice[n].took = 0 /\ ~invoice[n].given
  /\ prepared >= supplied - TakenInAll

\* While every number was the greatest plus one, invoices are numbered in a row,
\* and a sale whose number is still free is of the layers as they are, but for what was
\* supplied since it read them.
InRow ==
  AllDrawn =>
    /\ \E k \in 0..MaxNumber :
         /\ Used = 1..k
         /\ \A p \in Procs : req[p].stage = "selling" => req[p].number <= k + 1
    /\ \A p \in Procs :
         req[p].stage = "selling" /\ NumberIsFree(req[p].number) =>
           req[p].seen - req[p].since = prepared - supplied
    /\ prepared = supplied - TakenInAll

LEMMA LastIs ==
  ASSUME NEW k \in Nat, Used = 1..k
  PROVE  LastNumber = k
<1>1. CASE k = 0
  BY <1>1 DEF LastNumber
<1>2. CASE k # 0
  <2>1. k \in 1..k /\ \A y \in 1..k : k >= y
    BY <1>2
  <2>2. PICK m : m = Max(1..k)
    OBVIOUS
  <2>3. m \in 1..k /\ \A y \in 1..k : m >= y
    BY <2>1, <2>2 DEF Max
  <2>4. m = k
    BY <2>1, <2>3
  <2>5. Used # {}
    BY <2>1
  <2> QED BY <2>2, <2>4, <2>5 DEF LastNumber
<1> QED BY <1>1, <1>2

\* The sum of what the invoices took, as the sums of SumTheorems.
LEMMA TakenIs ==
  ASSUME IInv
  PROVE  /\ IsFiniteSet(Numbers)
         /\ \A n \in Numbers : [m \in Numbers |-> invoice[m].took][n] \in Int
         /\ TakenInAll = SumFunctionOnSet([m \in Numbers |-> invoice[m].took], Numbers)
         /\ TakenInAll \in Int
<1> DEFINE f == [m \in Numbers |-> invoice[m].took]
<1>1. IsFiniteSet(Numbers)
  BY ConstantsAssumption, FS_Interval DEF Numbers
<1>2. DOMAIN f = Numbers /\ \A n \in Numbers : f[n] \in Int
  BY DEF IInv, Typed
<1>3. TakenInAll = SumFunctionOnSet(f, DOMAIN f)
  BY DEF TakenInAll, SumFunction
<1> HIDE DEF f
<1>4. SumFunctionOnSet(f, Numbers) \in Int
  BY <1>1, <1>2, SumType
<1> QED BY <1>1, <1>2, <1>3, <1>4 DEF f

LEMMA TakenStays == ASSUME invoice' = invoice PROVE TakenInAll' = TakenInAll
<1>1. [n \in Numbers |-> invoice[n].took]' = [n \in Numbers |-> invoice[n].took]
  OBVIOUS
<1> QED BY <1>1 DEF TakenInAll

\* What a commit does to the stock and to the invoices.
LEMMA CommitTakes ==
  ASSUME IInv, IInv', Floor, NEW p \in Procs, CommitSale(p)
  PROVE  LET n == req[p].number
             t == Taken(req[p])
         IN  /\ req[p] \in Request /\ req[p].stage = "selling" /\ n \in Numbers /\ t \in Nat
             /\ req[p].seen >= t /\ supplied' = supplied
             /\ prepared' = req[p].seen - t + (supplied - req[p].since)
             /\ invoice[n].status = "none"
             /\ invoice'[n].status = "ISSUED" /\ ~invoice'[n].given
             /\ \A m \in Numbers \ {n} : invoice'[m] = invoice[m]
             /\ TakenInAll \in Int /\ TakenInAll' = TakenInAll + t
<1>0. /\ req[p] \in Request /\ MaxNumber \in Nat /\ req[p].stage = "selling"
      /\ invoice \in [Numbers -> [status : {"none", "ISSUED", "OTHER"}, cart : Carts, took : Int,
                                  made : Int, given : BOOLEAN]]
  BY RequestType DEF IInv, Typed, CommitSale, At
<1>1. PICK n, t : n = req[p].number /\ t = Taken(req[p])
  OBVIOUS
<1>2. n \in Numbers
  BY <1>0, <1>1 DEF Request, Numbers, IInv, Numbered
<1>3. t \in Nat
  <2>1. req[p].cart \in Carts /\ req[p].take \in Nat
    BY <1>0 DEF Request, Floor
  <2>2. req[p].cart.lines \in Nat
    BY <2>1, CartType
  <2> QED BY <1>1, <2>1, <2>2 DEF Taken
<1>4. /\ t <= req[p].seen /\ supplied' = supplied /\ invoice[n].status = "none"
      /\ prepared' = req[p].seen - t + (supplied - req[p].since)
      /\ invoice' = [invoice EXCEPT ![n] =
           [status |-> "ISSUED", cart |-> req[p].cart, took |-> t, made |-> Made(req[p]),
            given |-> FALSE]]
  BY <1>1 DEF CommitSale, NumberIsFree
<1>5. /\ invoice'[n].status = "ISSUED" /\ ~invoice'[n].given
      /\ invoice'[n].took = t /\ \A m \in Numbers \ {n} : invoice'[m] = invoice[m]
  BY <1>0, <1>2, <1>4
<1>6. TakenInAll \in Int /\ TakenInAll' = TakenInAll + t
  <2> DEFINE f == [m \in Numbers |-> invoice[m].took]
             e == [m \in Numbers |-> invoice'[m].took]
  <2>1. /\ IsFiniteSet(Numbers) /\ \A m \in Numbers : f[m] \in Int
        /\ TakenInAll = SumFunctionOnSet(f, Numbers) /\ TakenInAll \in Int
    BY TakenIs
  <2>2. TakenInAll' = SumFunctionOnSet(e, Numbers)
    <3>1. DOMAIN e = Numbers /\ TakenInAll' = SumFunctionOnSet(e, DOMAIN e)
      BY DEF TakenInAll, SumFunction
    <3> HIDE DEF e
    <3> QED BY <3>1
  <2>3. /\ e[n] = t /\ f[n] = 0
        /\ \A m \in Numbers \ {n} : e[m] = f[m]
    BY <1>2, <1>4, <1>5 DEF Floor, NumberIsFree
  <2> HIDE DEF f, e
  <2>4. SumFunctionOnSet(e, Numbers) = SumFunctionOnSet(f, Numbers) - f[n] + e[n]
    <3>1. e[n] \in Int
      BY <1>3, <2>3
    <3> QED BY <1>2, <2>1, <2>3, <3>1, SumDiffer
  <2> QED BY <1>3, <2>1, <2>2, <2>3, <2>4
<1> QED BY <1>0, <1>1, <1>2, <1>3, <1>4, <1>5, <1>6

LEMMA CommitFloor ==
  ASSUME IInv, IInv', Floor, NEW p \in Procs, CommitSale(p), NEW r \in Request,
         req' = [req EXCEPT ![p] = r], r.stage = "post"
  PROVE  Floor'
<1>0. /\ prepared \in Int /\ supplied \in Int /\ req \in [Procs -> Request]
      /\ \A q \in Procs : /\ req[q].take \in Int /\ req[q].seen \in Int /\ req[q].since \in Int
  BY DEF IInv, Typed, Request
<1>1. PICK n, t :
        /\ n = req[p].number /\ n \in Numbers /\ t \in Nat
        /\ req[p].stage = "selling" /\ req[p].seen >= t /\ supplied' = supplied
        /\ prepared' = req[p].seen - t + (supplied - req[p].since)
        /\ invoice'[n].status = "ISSUED"
        /\ \A m \in Numbers \ {n} : invoice'[m] = invoice[m]
        /\ TakenInAll \in Int /\ TakenInAll' = TakenInAll + t
  BY CommitTakes
<1>2. prepared' >= 0 /\ prepared' >= supplied' - TakenInAll'
  BY <1>0, <1>1 DEF Floor
<1>3. \A q \in Procs : req'[q].stage \in {"planned", "selling"} => req'[q] = req[q]
  BY <1>0
<1>4. \A q \in Procs : req'[q].stage = "selling" =>
        req'[q].since <= supplied' /\ req'[q].seen >= req'[q].since - TakenInAll'
  BY <1>0, <1>1, <1>3 DEF Floor
<1>5. \A m \in Numbers : NumberIsFree(m)' => invoice'[m].took = 0 /\ ~invoice'[m].given
  BY <1>1 DEF Floor, NumberIsFree
<1> QED BY <1>1, <1>2, <1>3, <1>4, <1>5 DEF Floor

LEMMA CommitInRow ==
  ASSUME IInv, IInv', Floor, InRow, NEW p \in Procs, CommitSale(p), NEW r \in Request,
         req' = [req EXCEPT ![p] = r], r.stage = "post"
  PROVE  InRow'
<1> SUFFICES ASSUME AllDrawn'
             PROVE  /\ \E j \in 0..MaxNumber :
                         /\ Used' = 1..j
                         /\ \A q \in Procs : req'[q].stage = "selling" =>
                              req'[q].number <= j + 1
                    /\ \A q \in Procs :
                         req'[q].stage = "selling" =>
                           invoice'[req'[q].number].status # "none"
                    /\ prepared' = supplied' - TakenInAll'
  BY DEF InRow, NumberIsFree
<1>0. /\ MaxNumber \in Nat /\ prepared \in Int /\ supplied \in Int /\ req \in [Procs -> Request]
      /\ req[p].seen \in Int /\ req[p].since \in Int
  BY RequestType DEF IInv, Typed, Request
<1>1. PICK n, t :
        /\ n = req[p].number /\ n \in Numbers /\ t \in Nat /\ supplied' = supplied
        /\ req[p].stage = "selling" /\ invoice[n].status = "none"
        /\ prepared' = req[p].seen - t + (supplied - req[p].since)
        /\ invoice'[n].status = "ISSUED" /\ ~invoice'[n].given
        /\ \A m \in Numbers \ {n} : invoice'[m] = invoice[m]
        /\ TakenInAll \in Int /\ TakenInAll' = TakenInAll + t
  BY CommitTakes
<1>2. AllDrawn
  BY <1>1 DEF AllDrawn, Floor, NumberIsFree
<1>3. PICK k \in 0..MaxNumber :
        /\ Used = 1..k
        /\ \A q \in Procs : req[q].stage = "selling" => req[q].number <= k + 1
  BY <1>2 DEF InRow
<1>4. n = k + 1
  <2>1. n \notin 1..k /\ n <= k + 1
    BY <1>1, <1>2, <1>3 DEF Used
  <2> QED BY <1>0, <1>1, <2>1 DEF Numbers
<1>5. prepared' = supplied' - TakenInAll'
  <2>1. prepared = supplied - TakenInAll
    BY <1>2 DEF InRow
  <2>2. req[p].seen - req[p].since = prepared - supplied
    BY <1>1, <1>2 DEF InRow, NumberIsFree
  <2>3. PICK seen \in Int, since \in Int : seen = req[p].seen /\ since = req[p].since
    BY <1>0
  <2>4. supplied' = supplied /\ TakenInAll' = TakenInAll + t /\ TakenInAll \in Int /\ t \in Int
    BY <1>1
  <2>5. prepared' = seen - t + (supplied - since) /\ seen - since = prepared - supplied
    BY <1>1, <2>2, <2>3
  <2> QED BY <1>0, <2>1, <2>4, <2>5
<1>6. Used' = 1..(k + 1)
  <2>1. \A m \in Numbers : invoice'[m].status # "none" <=> m \in 1..k \/ m = n
    BY <1>1, <1>3 DEF Used
  <2>2. Used' = {m \in Numbers : m \in 1..k \/ m = n}
    BY <2>1 DEF Used
  <2> QED BY <1>0, <1>1, <1>4, <2>2 DEF Numbers
<1>7. k + 1 \in 0..MaxNumber
  BY <1>0, <1>1, <1>4 DEF Numbers
<1>8. ASSUME NEW q \in Procs, req'[q].stage = "selling"
      PROVE  req'[q].number \in 1..(k + 1)
  <2>1. q # p /\ req'[q] = req[q]
    BY <1>0, <1>8
  <2>2. req[q].number \in 0..MaxNumber /\ req[q].number # 0 /\ req[q].number <= k + 1
    BY <1>0, <1>3, <1>8, <2>1 DEF Request, IInv, Numbered
  <2> QED BY <1>0, <2>1, <2>2
<1>9. \A q \in Procs : req'[q].stage = "selling" =>
        invoice'[req'[q].number].status # "none"
  BY <1>6, <1>8 DEF Used
<1>10. \A q \in Procs : req'[q].stage = "selling" =>
         req'[q].number <= (k + 1) + 1
  BY <1>8
<1> QED BY <1>5, <1>6, <1>7, <1>9, <1>10

LEMMA SupplyStep == ASSUME IInv, Floor, InRow, Supply PROVE Floor' /\ InRow'
<1>1. /\ prepared' = prepared + 1 /\ supplied' = supplied + 1 /\ UNCHANGED <<invoice, req>>
      /\ prepared \in Int /\ supplied \in Int
      /\ \A q \in Procs : req[q].seen \in Int /\ req[q].since \in Int
  BY DEF Supply, sale, IInv, Typed, Request
<1>2. TakenInAll' = TakenInAll /\ TakenInAll \in Int
  BY <1>1, TakenIs, TakenStays
<1>3. Floor'
  BY <1>1, <1>2 DEF Floor, NumberIsFree
<1>4. InRow'
  BY <1>1, <1>2 DEF InRow, AllDrawn, Used, NumberIsFree
<1> QED BY <1>3, <1>4

\* An invoice without stock leaves the layers alone, and is next in the row or ends it.
LEMMA IssueStep ==
  ASSUME IInv, Floor, InRow, Issue PROVE Floor' /\ InRow'
<1>0. MaxNumber \in Nat /\ UNCHANGED <<prepared, supplied, req>>
  BY ConstantsAssumption DEF Issue, stock
<1>1. PICK n \in Numbers :
        /\ invoice[n].status = "none" /\ invoice'[n].status = "OTHER"
        /\ invoice'[n].took = invoice[n].took
        /\ invoice'[n].given = (n # LastNumber + 1)
        /\ \A m \in Numbers \ {n} : invoice'[m] = invoice[m]
  BY IssueTakes
<1>2. TakenInAll' = TakenInAll
  <2>1. \A m \in Numbers : invoice'[m].took = invoice[m].took
    BY <1>1
  <2>2. [m \in Numbers |-> invoice[m].took]' = [m \in Numbers |-> invoice[m].took]
    BY <2>1
  <2> QED BY <2>2 DEF TakenInAll
<1>3. \A m \in Numbers : NumberIsFree(m)' => NumberIsFree(m) /\ invoice'[m] = invoice[m]
  BY <1>1 DEF NumberIsFree
<1>4. Floor'
  BY <1>0, <1>2, <1>3 DEF Floor
<1>5. InRow'
  <2> SUFFICES ASSUME AllDrawn' PROVE InRow'
    BY DEF InRow
  <2>1. AllDrawn
    BY <1>1 DEF AllDrawn, Floor, NumberIsFree
  <2>2. PICK k \in 0..MaxNumber :
          Used = 1..k /\ \A q \in Procs : req[q].stage = "selling" => req[q].number <= k + 1
    BY <2>1 DEF InRow
  <2>3. n = k + 1 /\ k + 1 \in 0..MaxNumber
    <3>1. n = LastNumber + 1
      BY <1>1 DEF AllDrawn
    <3>2. LastNumber = k
      BY <2>2, LastIs
    <3> QED BY <1>0, <3>1, <3>2 DEF Numbers
  <2>4. Used' = 1..(k + 1)
    <3>1. \A m \in Numbers : invoice'[m].status # "none" <=> m \in 1..k \/ m = n
      BY <1>1, <2>2 DEF Used
    <3>2. Used' = {m \in Numbers : m \in 1..k \/ m = n}
      BY <3>1 DEF Used
    <3> QED BY <1>0, <2>3, <3>2 DEF Numbers
  <2>5. \A q \in Procs : req'[q].stage = "selling" => req'[q].number <= (k + 1) + 1
    <3>1. SUFFICES ASSUME NEW q \in Procs, req[q].stage = "selling"
                   PROVE  req[q].number <= (k + 1) + 1
      BY <1>0
    <3>2. req[q].number \in 0..MaxNumber /\ req[q].number <= k + 1
      BY <2>2, <3>1 DEF IInv, Typed, Request
    <3> QED BY <1>0, <3>2
  <2>6. \A q \in Procs :
          req'[q].stage = "selling" /\ invoice'[req'[q].number].status = "none" =>
            req'[q].seen - req'[q].since = prepared' - supplied'
    <3>1. SUFFICES ASSUME NEW q \in Procs, req[q].stage = "selling",
                          invoice'[req[q].number].status = "none"
                   PROVE  req[q].seen - req[q].since = prepared - supplied
      BY <1>0
    <3>2. req[q].number \in Numbers
      BY <1>0, <3>1 DEF IInv, Typed, Numbered, Request, Numbers
    <3>3. NumberIsFree(req[q].number)
      BY <1>3, <3>1, <3>2 DEF NumberIsFree
    <3> QED BY <2>1, <3>1, <3>3 DEF InRow
  <2>7. prepared' = supplied' - TakenInAll'
    BY <1>0, <1>2, <2>1 DEF InRow
  <2> QED BY <2>3, <2>4, <2>5, <2>6, <2>7 DEF InRow, NumberIsFree
<1> QED BY <1>4, <1>5

LEMMA BeginStep ==
  ASSUME IInv, Floor, InRow, NEW p \in Procs, Begin(p)
  PROVE  Floor' /\ InRow'
<1>0. /\ prepared \in Int /\ supplied \in Int /\ req \in [Procs -> Request]
  BY DEF IInv, Typed
<1>1. PICK x \in Request :
        /\ req' = [req EXCEPT ![p] = x] /\ x.stage = "selling" /\ x.take = req[p].take
        /\ x.number = LastNumber + 1 /\ x.seen = prepared /\ x.since = supplied
  <2>1. req[p].stage = "planned"
    BY DEF Begin, At
  <2> QED BY <2>1, SaleRequest DEF SaleStep, Plan, CommitSale, PostSale, At
<1>2. UNCHANGED <<prepared, supplied, invoice>> /\ req[p].stage = "planned"
  BY DEF Begin, stock, sale, At
<1>3. TakenInAll' = TakenInAll /\ TakenInAll \in Int
  BY <1>2, TakenIs, TakenStays
<1>4. /\ req'[p] = x /\ \A q \in Procs \ {p} : req'[q] = req[q]
  BY <1>0, <1>1
<1>5. Floor'
  BY <1>0, <1>1, <1>2, <1>3, <1>4 DEF Floor, NumberIsFree
<1>6. InRow'
  <2> SUFFICES ASSUME AllDrawn PROVE InRow'
    BY <1>2 DEF InRow, AllDrawn
  <2>1. PICK k \in 0..MaxNumber :
          /\ Used = 1..k
          /\ \A q \in Procs : req[q].stage = "selling" => req[q].number <= k + 1
    BY DEF InRow
  <2>2. x.number = k + 1
    BY <1>1, <2>1, LastIs
  <2>3. \A q \in Procs : req'[q].stage = "selling" => req'[q].number <= k + 1
    BY <1>4, <2>1, <2>2
  <2>4. \A q \in Procs :
          req'[q].stage = "selling" /\ NumberIsFree(req'[q].number) =>
            req'[q].seen - req'[q].since = prepared - supplied
    BY <1>1, <1>4 DEF InRow
  <2> QED BY <1>2, <1>3, <2>1, <2>3, <2>4 DEF InRow, Used, NumberIsFree
<1> QED BY <1>5, <1>6

\* A step that leaves the stock and the invoices alone, and begins no sale.
LEMMA AwayFromStock ==
  ASSUME IInv, Floor, InRow, UNCHANGED <<prepared, supplied, invoice>>,
         \A q \in Procs :
           \/ req'[q] = req[q] \/ req'[q].stage \notin {"planned", "selling"}
           \/ req'[q].stage = "planned" /\ req'[q].take >= 0
  PROVE  Floor' /\ InRow'
<1>1. TakenInAll' = TakenInAll
  BY TakenStays
<1>2. \A q \in Procs : req'[q].stage = "selling" => req'[q] = req[q]
  OBVIOUS
<1>3. Floor'
  BY <1>1, <1>2 DEF Floor, NumberIsFree
<1>4. InRow'
  <2> SUFFICES ASSUME AllDrawn PROVE InRow'
    BY DEF InRow, AllDrawn
  <2>1. PICK k \in 0..MaxNumber :
          /\ Used = 1..k
          /\ \A q \in Procs : req[q].stage = "selling" => req[q].number <= k + 1
    BY DEF InRow
  <2>2. \A q \in Procs : req'[q].stage = "selling" => req'[q].number <= k + 1
    BY <1>2, <2>1
  <2>3. \A q \in Procs :
          req'[q].stage = "selling" /\ NumberIsFree(req'[q].number) =>
            req'[q].seen - req'[q].since = prepared - supplied
    BY <1>2 DEF InRow
  <2> QED BY <1>1, <2>1, <2>2, <2>3 DEF InRow, Used, NumberIsFree
<1> QED BY <1>3, <1>4

LEMMA StepInRow ==
  ASSUME IInv, IInv', Floor, InRow, [Next]_vars PROVE Floor' /\ InRow'
<1>0. prepared \in Int /\ supplied \in Int /\ req \in [Procs -> Request]
  BY DEF IInv, Typed
<1>1. CASE UNCHANGED vars
  BY <1>1, AwayFromStock DEF vars
<1>2. CASE Supply \/ Issue
  BY <1>2, SupplyStep, IssueStep
<1>3. ASSUME NEW p \in Procs, Step(p) PROVE Floor' /\ InRow'
  <2>1. PICK r \in Request : /\ req' = [req EXCEPT ![p] = r]
                             /\ SaleStep(p, r) \/ PayStep(p, r) \/ TillStep(p, r)
    BY <1>3, StepRequest
  <2>2. CASE CommitSale(p)
    <3>1. r.stage = "post"
      <4>1. req'[p].stage = "post"
        BY <1>0, <2>2, IdleType, SaleRequest DEF SaleStep, Plan, Begin, PostSale, CommitSale, At
      <4> QED BY <1>0, <2>1, <4>1
    <3> QED BY <2>1, <2>2, <3>1, CommitFloor, CommitInRow
  <2>3. CASE Begin(p)
    BY <2>3, BeginStep
  <2>4. CASE ~CommitSale(p) /\ ~Begin(p)
    <3>1. r.stage # "selling" /\ (r.stage = "planned" => r.take = Smaller(prepared, Sold(r.cart)))
      BY <2>1, <2>4, IdleType DEF SaleStep, PayStep, TillStep
    <3>2. r.stage = "planned" => r.take >= 0
      <4>1. Sold(r.cart) \in Nat
        BY CartType DEF Request
      <4> QED BY <1>0, <3>1, <4>1 DEF Floor, Smaller
    <3>3. UNCHANGED <<prepared, supplied, invoice>>
      BY <1>3, <2>4 DEF Step, Plan, PostSale, CheckPayments, Receive, FindSession, DropCash,
         ReadForOpen, OpenSession, ReadSession, WriteMovement, AdjustExpected, CloseSession,
         Lose, stock, sale
    <3>4. \A q \in Procs :
            \/ req'[q] = req[q] \/ req'[q].stage \notin {"planned", "selling"}
            \/ req'[q].stage = "planned" /\ req'[q].take >= 0
      BY <1>0, <2>1, <3>1, <3>2
    <3> QED BY <3>3, <3>4, AwayFromStock
  <2> QED BY <2>2, <2>3, <2>4
<1> QED BY <1>1, <1>2, <1>3 DEF Next

LEMMA AlwaysInRow == Spec => [](Floor /\ InRow)
<1>1. Init /\ IInv => Floor /\ InRow
  <2> SUFFICES ASSUME Init, IInv PROVE Floor /\ InRow
    OBVIOUS
  <2>0. MaxNumber \in Nat
    BY ConstantsAssumption
  <2>1. \A n \in Numbers :
          invoice[n].status = "none" /\ invoice[n].took = 0 /\ ~invoice[n].given
    BY DEF Init, NoInvoice
  <2>2. 0 \in 0..MaxNumber /\ Used = 1..0
    BY <2>0, <2>1 DEF Used
  <2>3. \A p \in Procs : req[p].stage = "idle"
    BY IdleType DEF Init
  <2>4. TakenInAll = 0
    <3> DEFINE f == [m \in Numbers |-> invoice[m].took]
    <3>1. /\ \A n \in Numbers : f[n] = 0
          /\ IsFiniteSet(Numbers) /\ TakenInAll = SumFunctionOnSet(f, Numbers)
      BY <2>1, TakenIs
    <3> HIDE DEF f
    <3> QED BY <3>1, SumZero
  <2>5. prepared = 0 /\ supplied = 0
    BY DEF Init
  <2> QED BY <2>1, <2>2, <2>3, <2>4, <2>5 DEF Floor, InRow
<1>2. IInv /\ IInv' /\ Floor /\ InRow /\ [Next]_vars => Floor' /\ InRow'
  BY StepInRow
<1> QED BY <1>1, <1>2, Inductive, PTL DEF Spec

\* However sales overlap, the layers never show less of the prepared product than
\* entered and no sale took; and as long as every invoice, with stock or without,
\* has the number after the greatest, they show exactly that: of the sales that
\* have read the same layers, the unique index on the number lets one commit.
THEOREM PreparedAlwaysAccounts == Spec => []PreparedAccounts
<1>1. Floor /\ InRow => PreparedAccounts
  BY DEF Floor, InRow, AllDrawn, PreparedAccounts
<1> QED BY <1>1, AlwaysInRow, PTL

-----------------------------------------------------------------------------
(* The drawer. *)

\* A request works on a session that was opened, and until then the session has
\* nothing in its drawer.
Tills ==
  /\ stray \in [Sessions -> Int]
  /\ \A p \in Procs : req[p].stage \in {"move", "adjust", "drop", "close"} =>
       session[req[p].session].status # "none"
  /\ \A s \in Sessions : session[s].status = "none" =>
       session[s].expected = session[s].opening
  /\ ExpectedAccounts

\* What a request has yet to adjust changes with that request alone.
LEMMA PendingStep ==
  ASSUME IInv, NEW p \in Procs, NEW r \in Request, req' = [req EXCEPT ![p] = r],
         NEW s \in Sessions
  PROVE  /\ Pending(s) \in Int
         /\ Pending(s)' = Pending(s) - Unadjusted(req[p], s) + Unadjusted(r, s)
<1> DEFINE f == [q \in Procs |-> Unadjusted(req[q], s)]
           e == [q \in Procs |-> Unadjusted(req'[q], s)]
<1>1. /\ Pending(s) = SumFunctionOnSet(f, DOMAIN f)
      /\ Pending(s)' = SumFunctionOnSet(e, DOMAIN e)
  BY DEF Pending, SumFunction, Unadjusted
<1>2. \A x \in Request : Unadjusted(x, s) \in Int
  BY DEF Request, Unadjusted
<1>3. /\ DOMAIN f = Procs /\ DOMAIN e = Procs /\ req \in [Procs -> Request]
      /\ \A q \in Procs : f[q] = Unadjusted(req[q], s) /\ e[q] = Unadjusted(req'[q], s)
  BY DEF IInv, Typed
<1>4. /\ \A q \in Procs : f[q] \in Int
      /\ \A q \in Procs \ {p} : e[q] = f[q]
      /\ f[p] = Unadjusted(req[p], s) /\ e[p] = Unadjusted(r, s) /\ e[p] \in Int
  BY <1>2, <1>3
<1> HIDE DEF f, e
<1>5. SumFunctionOnSet(e, Procs) = SumFunctionOnSet(f, Procs) - f[p] + e[p]
  BY <1>4, SumDiffer, ConstantsAssumption
<1>6. SumFunctionOnSet(f, Procs) \in Int
  BY <1>4, SumType, ConstantsAssumption
<1> QED BY <1>1, <1>3, <1>4, <1>5, <1>6

\* What is in the drawer and not in the expected close, but for what one request
\* has yet to adjust.
Off(s) == session[s].expected - session[s].opening - drawer[s] + stray[s]

LEMMA TillsKeep ==
  ASSUME IInv, IInv', Tills, NEW p \in Procs, NEW r \in Request, req' = [req EXCEPT ![p] = r],
         stray' \in [Sessions -> Int],
         r.stage \in {"move", "adjust", "drop", "close"} =>
           session'[r.session].status # "none",
         \A s \in Sessions :
           /\ session[s].status # "none" => session'[s].status # "none"
           /\ session'[s].status = "none" => session'[s].expected = session'[s].opening
           /\ Off(s)' + Unadjusted(r, s) = Off(s) + Unadjusted(req[p], s)
  PROVE  Tills'
<1>1. req \in [Procs -> Request] /\ \A q \in Procs : req[q].session \in Sessions
  BY DEF IInv, Typed, Request
<1>2. \A q \in Procs : req'[q].stage \in {"move", "adjust", "drop", "close"} =>
        session'[req'[q].session].status # "none"
  <2> SUFFICES ASSUME NEW q \in Procs,
                      req'[q].stage \in {"move", "adjust", "drop", "close"}
               PROVE  session'[req'[q].session].status # "none"
    OBVIOUS
  <2>1. CASE q = p
    BY <1>1, <2>1
  <2>2. CASE q # p
    BY <1>1, <2>2 DEF Tills
  <2> QED BY <2>1, <2>2
<1>3. ASSUME NEW s \in Sessions
      PROVE  session'[s].expected
               = session'[s].opening + drawer'[s] - Pending(s)' - stray'[s]
  <2>1. /\ session[s].expected \in Int /\ session[s].opening \in Int /\ drawer[s] \in Int
        /\ session'[s].expected \in Int /\ session'[s].opening \in Int /\ drawer'[s] \in Int
        /\ stray[s] \in Int /\ stray'[s] \in Int
    BY DEF IInv, Typed, Session, Tills
  <2>2. Unadjusted(req[p], s) \in Int /\ Unadjusted(r, s) \in Int
    BY <1>1 DEF Unadjusted, Request
  <2>3. /\ Pending(s) \in Int
        /\ Pending(s)' = Pending(s) - Unadjusted(req[p], s) + Unadjusted(r, s)
    BY PendingStep
  <2>4. session[s].expected = session[s].opening + drawer[s] - Pending(s) - stray[s]
    BY DEF Tills, ExpectedAccounts
  <2>5. session'[s].expected - session'[s].opening - drawer'[s] + stray'[s] + Unadjusted(r, s)
          = session[s].expected - session[s].opening - drawer[s] + stray[s]
            + Unadjusted(req[p], s)
    BY DEF Off
  <2>6. PICK x, y : x = Unadjusted(req[p], s) /\ y = Unadjusted(r, s)
    OBVIOUS
  <2> QED BY <2>1, <2>2, <2>3, <2>4, <2>5, <2>6
<1> QED BY <1>2, <1>3 DEF Tills, ExpectedAccounts

\* A step that leaves the sessions and their drawers alone.
LEMMA TillsStay ==
  ASSUME IInv, IInv', Tills, NEW p \in Procs, NEW r \in Request, req' = [req EXCEPT ![p] = r],
         UNCHANGED <<session, drawer, stray>>,
         r.stage # "adjust", req[p].stage # "adjust",
         r.stage \in {"move", "drop", "close"} => session[r.session].status # "none"
  PROVE  Tills'
<1>1. stray' \in [Sessions -> Int]
  BY DEF Tills
<1>2. ASSUME NEW s \in Sessions
      PROVE  Off(s)' + Unadjusted(r, s) = Off(s) + Unadjusted(req[p], s)
  BY DEF Off, Unadjusted
<1>3. \A s \in Sessions : session[s].status = "none" => session[s].expected = session[s].opening
  BY DEF Tills
<1> QED BY <1>1, <1>2, <1>3, TillsKeep

\* Request p, which becomes r, adds amounts to the expected close, to the drawer
\* and to what was never adjusted of its session z.
Shifts(p, r, z, de, dd, ds) ==
  /\ req[p].stage \in {"move", "adjust", "drop", "close"} /\ z = req[p].session
  /\ session' = [session EXCEPT ![z] =
                   [session[z] EXCEPT !.expected = session[z].expected + de]]
  /\ drawer' = [drawer EXCEPT ![z] = drawer[z] + dd]
  /\ stray' = [stray EXCEPT ![z] = stray[z] + ds]
  /\ req' = [req EXCEPT ![p] = r]
  /\ r.stage \in {"move", "adjust", "drop", "close"} => r.session = z
  /\ de - dd + ds + Unadjusted(r, z) = Unadjusted(req[p], z)

LEMMA TillsMove ==
  ASSUME IInv, IInv', Tills, NEW p \in Procs, NEW r \in Request, NEW z \in Sessions,
         NEW de \in Int, NEW dd \in Int, NEW ds \in Int, Shifts(p, r, z, de, dd, ds)
  PROVE  Tills'
<1>0. /\ req[p].stage \in {"move", "adjust", "drop", "close"} /\ z = req[p].session
      /\ session' = [session EXCEPT ![z] =
                       [session[z] EXCEPT !.expected = session[z].expected + de]]
      /\ drawer' = [drawer EXCEPT ![z] = drawer[z] + dd]
      /\ stray' = [stray EXCEPT ![z] = stray[z] + ds]
      /\ req' = [req EXCEPT ![p] = r]
      /\ r.stage \in {"move", "adjust", "drop", "close"} => r.session = z
      /\ de - dd + ds + Unadjusted(r, z) = Unadjusted(req[p], z)
  BY DEF Shifts
<1>1. /\ session[z] \in Session /\ drawer[z] \in Int /\ stray[z] \in Int
      /\ session[z].expected \in Int /\ session[z].opening \in Int
      /\ session \in [Sessions -> Session] /\ drawer \in [Sessions -> Int]
      /\ stray \in [Sessions -> Int] /\ session[z].status # "none"
  BY <1>0 DEF IInv, Typed, Session, Tills
<1>2. PICK e \in Int : e = session[z].expected + de
  BY <1>1
<1>3. PICK row : row = [session[z] EXCEPT !.expected = e]
  OBVIOUS
<1>4. row.status = session[z].status /\ row.opening = session[z].opening /\ row.expected = e
  BY <1>1, <1>3 DEF Session
<1>5. session' = [session EXCEPT ![z] = row]
  BY <1>0, <1>2, <1>3
<1>6. stray[z] + ds \in Int
  BY <1>1
<1>7. stray' \in [Sessions -> Int]
  BY <1>0, <1>1, <1>6
<1>8. /\ session'[z] = row /\ drawer'[z] = drawer[z] + dd /\ stray'[z] = stray[z] + ds
      /\ \A s \in Sessions \ {z} :
           session'[s] = session[s] /\ drawer'[s] = drawer[s] /\ stray'[s] = stray[s]
  BY <1>0, <1>1, <1>5
<1>9. r.stage \in {"move", "adjust", "drop", "close"} => session'[r.session].status # "none"
  BY <1>0, <1>1, <1>4, <1>8
<1>10. ASSUME NEW s \in Sessions
       PROVE  /\ session[s].status # "none" => session'[s].status # "none"
              /\ session'[s].status = "none" => session'[s].expected = session'[s].opening
              /\ Off(s)' + Unadjusted(r, s) = Off(s) + Unadjusted(req[p], s)
  <2>1. CASE s # z
    <3>1. /\ session'[s] = session[s] /\ drawer'[s] = drawer[s] /\ stray'[s] = stray[s]
          /\ Unadjusted(r, s) = 0 /\ Unadjusted(req[p], s) = 0
      BY <1>0, <1>8, <2>1 DEF Unadjusted
    <3> QED BY <3>1 DEF Off, Tills
  <2>2. CASE s = z
    <3>1. PICK x, y : x = Unadjusted(req[p], z) /\ y = Unadjusted(r, z)
      OBVIOUS
    <3>2. x \in Int /\ y \in Int
      BY <3>1 DEF Unadjusted, Request, IInv, Typed
    <3>3. de - dd + ds + y = x
      BY <1>0, <3>1
    <3>4. Off(z) = session[z].expected - session[z].opening - drawer[z] + stray[z]
      BY DEF Off
    <3>5. Off(z)' = e - session[z].opening - (drawer[z] + dd) + (stray[z] + ds)
      BY <1>4, <1>8 DEF Off
    <3>6. Off(z)' + y = Off(z) + x
      BY <1>1, <1>2, <3>2, <3>3, <3>4, <3>5
    <3> QED BY <1>1, <1>4, <1>8, <2>2, <3>1, <3>6
  <2> QED BY <2>1, <2>2
<1> QED BY <1>0, <1>7, <1>9, <1>10, TillsKeep

LEMMA SessionStepTills ==
  ASSUME IInv, IInv', Tills, NEW p \in Procs,
         DropCash(p) \/ WriteMovement(p) \/ AdjustExpected(p) \/ Lose(p)
  PROVE  Tills'
<1>0. /\ req[p] \in Request /\ Idle \in Request /\ Idle.stage = "idle"
      /\ req[p].session \in Sessions /\ req[p].amount \in Int
      /\ session \in [Sessions -> Session] /\ drawer \in [Sessions -> Int]
      /\ stray \in [Sessions -> Int]
  BY RequestType, IdleType DEF Request, IInv, Typed, Tills
<1>1. PICK z \in Sessions, a \in Int : z = req[p].session /\ a = req[p].amount
  BY <1>0
<1>2. /\ session[z].expected \in Int /\ drawer[z] \in Int /\ stray[z] \in Int
      /\ session[z] \in Session
  BY <1>0 DEF Session
<1>3. /\ session = [session EXCEPT ![z] = [session[z] EXCEPT !.expected = session[z].expected + 0]]
      /\ drawer = [drawer EXCEPT ![z] = drawer[z] + 0]
      /\ stray = [stray EXCEPT ![z] = stray[z] + 0]
  <2>1. /\ session[z].expected + 0 = session[z].expected /\ drawer[z] + 0 = drawer[z]
        /\ stray[z] + 0 = stray[z]
    BY <1>2
  <2>2. [session[z] EXCEPT !.expected = session[z].expected] = session[z]
    BY <1>2 DEF Session
  <2> QED BY <1>0, <2>1, <2>2
<1>4. CASE DropCash(p)
  <2>1. /\ session' = [session EXCEPT ![z] = [session[z] EXCEPT !.expected = session[z].expected + a]]
        /\ drawer' = [drawer EXCEPT ![z] = drawer[z] + a]
        /\ req[p].stage = "drop" /\ stray' = stray
    BY <1>1, <1>4 DEF DropCash, At
  <2>2. PICK r \in Request : req' = [req EXCEPT ![p] = r] /\ PayStep(p, r)
    BY <1>4, PayRequest
  <2>3. r.stage = "pay"
    BY <1>0, <2>1, <2>2, IdleType DEF PayStep, CheckPayments, Receive, FindSession, At
  <2>4. a - a + 0 + Unadjusted(r, z) = Unadjusted(req[p], z)
    BY <2>1, <2>3 DEF Unadjusted
  <2>5. stray' = [stray EXCEPT ![z] = stray[z] + 0]
    BY <1>3, <2>1
  <2>6. Shifts(p, r, z, a, a, 0)
    BY <1>1, <2>1, <2>2, <2>3, <2>4, <2>5 DEF Shifts
  <2> QED BY <2>6, TillsMove
<1>5. CASE WriteMovement(p)
  <2>1. PICK b \in Int :
          /\ drawer' = [drawer EXCEPT ![z] = drawer[z] + b]
          /\ req' = [req EXCEPT ![p] = [req[p] EXCEPT !.stage = "adjust", !.amount = b]]
    BY <1>1, <1>5, ConstantsAssumption DEF WriteMovement, Go
  <2>2. PICK r : r = [req[p] EXCEPT !.stage = "adjust", !.amount = b]
    OBVIOUS
  <2>3. r \in Request /\ r.stage = "adjust" /\ r.session = z /\ r.amount = b
    BY <1>0, <1>1, <2>2 DEF Request, Stages
  <2>4. req[p].stage = "move" /\ session' = session /\ stray' = stray
    BY <1>5 DEF WriteMovement, At
  <2>5. 0 - b + 0 + Unadjusted(r, z) = Unadjusted(req[p], z)
    BY <2>3, <2>4 DEF Unadjusted
  <2>6. /\ session' = [session EXCEPT ![z] = [session[z] EXCEPT !.expected = session[z].expected + 0]]
        /\ stray' = [stray EXCEPT ![z] = stray[z] + 0]
    BY <1>3, <2>4
  <2>7. Shifts(p, r, z, 0, b, 0)
    BY <1>1, <2>1, <2>2, <2>3, <2>4, <2>5, <2>6 DEF Shifts
  <2> QED BY <2>3, <2>7, TillsMove
<1>6. CASE AdjustExpected(p)
  <2>1. /\ session' = [session EXCEPT ![z] = [session[z] EXCEPT !.expected = session[z].expected + a]]
        /\ req[p].stage = "adjust" /\ drawer' = drawer /\ stray' = stray
        /\ req' = [req EXCEPT ![p] = Idle]
    BY <1>1, <1>6 DEF AdjustExpected, Adjusted, At, Go
  <2>2. a - 0 + 0 + Unadjusted(Idle, z) = Unadjusted(req[p], z)
    BY <1>0, <1>1, <2>1 DEF Unadjusted
  <2>3. /\ drawer' = [drawer EXCEPT ![z] = drawer[z] + 0]
        /\ stray' = [stray EXCEPT ![z] = stray[z] + 0]
    BY <1>3, <2>1
  <2>4. Shifts(p, Idle, z, a, 0, 0)
    BY <1>0, <1>1, <2>1, <2>2, <2>3 DEF Shifts
  <2> QED BY <1>0, <2>4, TillsMove
<1>7. CASE Lose(p)
  <2>1. /\ session' = session /\ drawer' = drawer /\ req' = [req EXCEPT ![p] = Idle]
        /\ stray' = IF req[p].stage = "adjust" THEN [stray EXCEPT ![z] = stray[z] + a] ELSE stray
    BY <1>1, <1>7 DEF Lose, At, Go
  <2>2. CASE req[p].stage = "adjust"
    <3>1. 0 - 0 + a + Unadjusted(Idle, z) = Unadjusted(req[p], z)
      BY <1>0, <1>1, <2>2 DEF Unadjusted
    <3>2. /\ session' = [session EXCEPT ![z] = [session[z] EXCEPT !.expected = session[z].expected + 0]]
          /\ drawer' = [drawer EXCEPT ![z] = drawer[z] + 0]
          /\ stray' = [stray EXCEPT ![z] = stray[z] + a]
      BY <1>3, <2>1, <2>2
    <3>3. Shifts(p, Idle, z, 0, 0, a)
      BY <1>0, <1>1, <2>1, <2>2, <3>1, <3>2 DEF Shifts
    <3>4. Idle \in Request /\ 0 \in Int /\ a \in Int /\ z \in Sessions /\ p \in Procs
      BY <1>0, <1>1
    <3> QED BY ONLY IInv, IInv', Tills, <3>3, <3>4, TillsMove, Zenon
  <2>3. CASE req[p].stage # "adjust"
    BY <1>0, <2>1, <2>3, TillsStay
  <2> QED BY <2>2, <2>3
<1> QED BY <1>4, <1>5, <1>6, <1>7

LEMMA OpenCloseTills ==
  ASSUME IInv, IInv', Tills, NEW p \in Procs, OpenSession(p) \/ CloseSession(p)
  PROVE  Tills'
<1>0. /\ Idle \in Request /\ Idle.stage = "idle"
      /\ req[p].session \in Sessions
      /\ session \in [Sessions -> Session] /\ stray \in [Sessions -> Int]
      /\ \A s \in Sessions : session[s].expected \in Int /\ session[s].opening \in Int
                             /\ drawer[s] \in Int
  BY RequestType, IdleType DEF Request, IInv, Typed, Tills, Session
<1>1. /\ req' = [req EXCEPT ![p] = Idle] /\ drawer' = drawer /\ stray' = stray
      /\ req[p].stage \in {"open", "close"}
  BY DEF OpenSession, CloseSession, At, Go
<1>2. PICK z, row :
        /\ z \in Sessions
        /\ session' = [session EXCEPT ![z] = row]
        /\ row.status # "none"
        /\ row.expected - row.opening = session[z].expected - session[z].opening
  <2>1. CASE OpenSession(p)
    <3>1. PICK z \in Sessions :
            /\ session[z].status = "none"
            /\ session' = [session EXCEPT ![z] =
                 [status |-> "OPEN", register |-> req[p].register, opening |-> 1, expected |-> 1]]
      BY <2>1 DEF OpenSession
    <3>2. session[z].expected = session[z].opening /\ session[z].opening \in Int
      BY <1>0, <3>1 DEF Tills
    <3>3. PICK row : row = [status |-> "OPEN", register |-> req[p].register,
                            opening |-> 1, expected |-> 1]
      OBVIOUS
    <3>4. /\ row.status = "OPEN"
          /\ row.expected - row.opening = session[z].expected - session[z].opening
      BY <3>2, <3>3
    <3>5. session' = [session EXCEPT ![z] = row]
      BY <3>1, <3>3
    <3> QED BY <3>4, <3>5
  <2>2. CASE CloseSession(p)
    <3>1. PICK z \in Sessions : z = req[p].session
      BY <1>0
    <3>2. PICK row : row = [session[z] EXCEPT !.status = "CLOSED"]
      OBVIOUS
    <3>3. /\ row.status = "CLOSED" /\ row.expected = session[z].expected
          /\ row.opening = session[z].opening
      BY <1>0, <3>2 DEF Session
    <3>4. session' = [session EXCEPT ![z] = row]
      BY <2>2, <3>1, <3>2 DEF CloseSession
    <3> QED BY <3>3, <3>4
  <2> QED BY <2>1, <2>2
<1>3. session'[z] = row /\ \A s \in Sessions \ {z} : session'[s] = session[s]
  BY <1>0, <1>2
<1>4. ASSUME NEW s \in Sessions
      PROVE  /\ session[s].status # "none" => session'[s].status # "none"
             /\ session'[s].status = "none" => session'[s].expected = session'[s].opening
             /\ Off(s)' + Unadjusted(Idle, s) = Off(s) + Unadjusted(req[p], s)
  <2>1. Unadjusted(Idle, s) = 0 /\ Unadjusted(req[p], s) = 0
    BY <1>0, <1>1 DEF Unadjusted
  <2>2. session'[s].expected - session'[s].opening = session[s].expected - session[s].opening
    BY <1>2, <1>3
  <2>3. Off(s)' = Off(s)
    BY <1>1, <2>2 DEF Off
  <2> QED BY <1>2, <1>3, <2>1, <2>3 DEF Tills
<1>5. stray' \in [Sessions -> Int]
  BY <1>0, <1>1
<1> QED BY <1>0, <1>1, <1>4, <1>5, TillsKeep

LEMMA StepTills ==
  ASSUME IInv, IInv', Tills, [Next]_vars PROVE Tills'
<1>1. CASE UNCHANGED vars \/ Supply \/ Issue
  BY <1>1 DEF vars, Supply, Issue, till, Tills, ExpectedAccounts, Pending, Unadjusted
<1>2. ASSUME NEW p \in Procs, Step(p) PROVE Tills'
  <2>1. CASE DropCash(p) \/ WriteMovement(p) \/ AdjustExpected(p) \/ Lose(p)
    BY <2>1, SessionStepTills
  <2>2. CASE OpenSession(p) \/ CloseSession(p)
    BY <2>2, OpenCloseTills
  <2>3. ASSUME \/ Plan(p) \/ Begin(p) \/ CommitSale(p) \/ PostSale(p) \/ CheckPayments(p)
               \/ Receive(p) \/ FindSession(p) \/ ReadForOpen(p) \/ ReadSession(p)
        PROVE  Tills'
    <3>1. UNCHANGED <<session, drawer, stray>> /\ req[p].stage # "adjust"
      BY <2>3 DEF Plan, Begin, CommitSale, PostSale, CheckPayments, Receive, FindSession,
         ReadForOpen, ReadSession, till, At
    <3>2. PICK r \in Request : /\ req' = [req EXCEPT ![p] = r]
                               /\ SaleStep(p, r) \/ PayStep(p, r) \/ TillStep(p, r)
      BY <1>2, StepRequest
    <3>3. r.stage # "adjust"
      <4>1. req[p].stage # "move"
        BY <2>3 DEF Plan, Begin, CommitSale, PostSale, CheckPayments, Receive, FindSession,
           ReadForOpen, ReadSession, At
      <4> QED BY <3>2, <4>1, IdleType DEF SaleStep, PayStep, TillStep, WriteMovement, At
    <3>4. r.stage \in {"move", "drop", "close"} => session[r.session].status # "none"
      BY <3>2, IdleType DEF SaleStep, PayStep, TillStep
    <3> QED BY <3>1, <3>2, <3>3, <3>4, TillsStay
  <2> QED BY <1>2, <2>1, <2>2, <2>3 DEF Step
<1> QED BY <1>1, <1>2 DEF Next

\* The expected close of a session is its opening and its movements, but for the
\* manual movements whose request has not come to adjust it.
THEOREM ExpectedAlwaysAccounts == Spec => []ExpectedAccounts
<1>1. Init => Tills
  <2> SUFFICES ASSUME Init PROVE Tills
    OBVIOUS
  <2>1. /\ stray \in [Sessions -> Int]
        /\ \A s \in Sessions : /\ session[s].expected = 0 /\ session[s].opening = 0
                               /\ drawer[s] = 0 /\ stray[s] = 0
        /\ \A p \in Procs : req[p].stage = "idle"
    BY IdleType DEF Init
  <2>2. ASSUME NEW s \in Sessions PROVE Pending(s) = 0
    <3> DEFINE f == [p \in Procs |-> Unadjusted(req[p], s)]
    <3>1. /\ Pending(s) = SumFunctionOnSet(f, DOMAIN f) /\ DOMAIN f = Procs
          /\ \A p \in Procs : f[p] = 0
      BY <2>1 DEF Pending, SumFunction, Unadjusted
    <3> HIDE DEF f
    <3> QED BY <3>1, SumZero, ConstantsAssumption
  <2> QED BY <2>1, <2>2 DEF Tills, ExpectedAccounts
<1>2. Tills => ExpectedAccounts
  BY DEF Tills
<1>3. IInv /\ IInv' /\ Tills /\ [Next]_vars => Tills'
  BY StepTills
<1> QED BY <1>1, <1>2, <1>3, Inductive, PTL DEF Spec

-----------------------------------------------------------------------------
(* The receipts. *)

\* What the payments of one method add to.
LEMMA ByType ==
  ASSUME NEW pays \in Seq(Payment), NEW m \in Method
  PROVE  By(pays, m) \in Nat
<1> DEFINE f == [k \in DOMAIN pays |-> IF pays[k].by = m THEN pays[k].amount ELSE 0]
<1>1. IsFiniteSet(DOMAIN pays)
  <2>1. Len(pays) \in Nat /\ DOMAIN pays = 1..Len(pays)
    OBVIOUS
  <2> QED BY <2>1, FS_Interval
<1>2. \A k \in DOMAIN pays : f[k] \in Nat
  <2>1. \A k \in DOMAIN pays : pays[k] \in Payment
    OBVIOUS
  <2> QED BY <2>1 DEF Payment
<1>3. By(pays, m) = SumFunctionOnSet(f, DOMAIN f) /\ DOMAIN f = DOMAIN pays
  BY DEF By, SumFunction
<1> HIDE DEF f
<1> QED BY <1>1, <1>2, <1>3, SumNat

LEMMA ByNone == \A m : By(<<>>, m) = 0
<1> SUFFICES ASSUME NEW m PROVE By(<<>>, m) = 0
  OBVIOUS
<1> DEFINE f == [k \in DOMAIN <<>> |-> IF <<>>[k].by = m THEN <<>>[k].amount ELSE 0]
<1>1. By(<<>>, m) = SumFunctionOnSet(f, DOMAIN f)
  BY DEF By, SumFunction
<1>2. DOMAIN f = {}
  OBVIOUS
<1> HIDE DEF f
<1> QED BY <1>1, <1>2, SumEmpty

\* The first payment and the others.
LEMMA ByTail ==
  ASSUME NEW pays \in Seq(Payment), pays # <<>>, NEW m \in Method
  PROVE  By(pays, m) = By(Tail(pays), m)
                       + (IF Head(pays).by = m THEN Head(pays).amount ELSE 0)
<1> DEFINE rest == Tail(pays)
           f == [k \in DOMAIN pays |-> IF pays[k].by = m THEN pays[k].amount ELSE 0]
           e == [k \in DOMAIN rest |-> IF rest[k].by = m THEN rest[k].amount ELSE 0]
           h == [k \in DOMAIN pays |-> k - 1]
<1>1. /\ Len(pays) \in Nat \ {0} /\ DOMAIN pays = 1..Len(pays)
      /\ rest \in Seq(Payment) /\ DOMAIN rest = 1..(Len(pays) - 1)
      /\ \A k \in DOMAIN rest : rest[k] = pays[k + 1]
      /\ Head(pays) = pays[1]
  OBVIOUS
<1>2. /\ By(pays, m) = SumFunctionOnSet(f, DOMAIN f) /\ DOMAIN f = DOMAIN pays
      /\ By(rest, m) = SumFunctionOnSet(e, DOMAIN e) /\ DOMAIN e = DOMAIN rest
  BY DEF By, SumFunction
<1>3. \A k \in DOMAIN pays : f[k] \in Int
  <2>1. \A k \in DOMAIN pays : pays[k] \in Payment
    OBVIOUS
  <2> QED BY <2>1 DEF Payment
<1>4. \A k \in DOMAIN pays \ {1} :
        h[k] \in DOMAIN rest /\ f[k] \in Int /\ e[h[k]] = f[k]
  <2> SUFFICES ASSUME NEW k \in DOMAIN pays \ {1}
               PROVE  h[k] \in DOMAIN rest /\ f[k] \in Int /\ e[h[k]] = f[k]
    OBVIOUS
  <2>1. k \in Int /\ 1 < k /\ k <= Len(pays) /\ h[k] = k - 1
    BY <1>1
  <2>2. k - 1 \in DOMAIN rest /\ (k - 1) + 1 = k
    BY <1>1, <2>1
  <2>3. rest[k - 1] = pays[k]
    BY <1>1, <2>2
  <2>4. e[k - 1] = IF rest[k - 1].by = m THEN rest[k - 1].amount ELSE 0
    BY <2>2
  <2>5. f[k] = IF pays[k].by = m THEN pays[k].amount ELSE 0
    OBVIOUS
  <2> QED BY <1>3, <2>1, <2>2, <2>3, <2>4, <2>5
<1>5. \A y \in DOMAIN rest : \E k \in DOMAIN pays \ {1} : h[k] = y
  <2> SUFFICES ASSUME NEW y \in DOMAIN rest
               PROVE  \E k \in DOMAIN pays \ {1} : h[k] = y
    OBVIOUS
  <2>1. y + 1 \in DOMAIN pays \ {1} /\ (y + 1) - 1 = y
    BY <1>1
  <2>2. h[y + 1] = y
    BY <2>1
  <2> QED BY <2>1, <2>2
<1>6. \A x, y \in DOMAIN pays \ {1} : h[x] = h[y] => x = y
  BY <1>1
<1>7. f[1] = IF Head(pays).by = m THEN Head(pays).amount ELSE 0
  BY <1>1
<1>8. 1 \in DOMAIN pays /\ IsFiniteSet(DOMAIN pays) /\ IsFiniteSet(DOMAIN pays \ {1})
  <2>1. IsFiniteSet(1..Len(pays))
    BY <1>1, FS_Interval
  <2> QED BY <1>1, <2>1, FS_Subset
<1> HIDE DEF f, e, h, rest
<1>9. SumFunctionOnSet(f, DOMAIN pays) = f[1] + SumFunctionOnSet(f, DOMAIN pays \ {1})
  BY <1>3, <1>8, SumPick
<1>10. SumFunctionOnSet(e, DOMAIN rest) = SumFunctionOnSet(f, DOMAIN pays \ {1})
  <2>1. PICK S, R : S = DOMAIN pays \ {1} /\ R = DOMAIN rest
    OBVIOUS
  <2>2. IsFiniteSet(S) /\ \A x, y \in S : h[x] = h[y] => x = y
    BY <1>6, <1>8, <2>1
  <2>3. \A k \in S : f[k] \in Int /\ e[h[k]] = f[k]
    BY <1>4, <2>1
  <2>4. /\ \A k \in S : h[k] \in R
        /\ \A y \in R : \E k \in S : h[k] = y
    BY <1>4, <1>5, <2>1
  <2>5. SumFunctionOnSet(e, R) = SumFunctionOnSet(f, S)
    BY <2>2, <2>3, <2>4, SumImage
  <2> QED BY <2>1, <2>5
<1>11. By(rest, m) \in Int /\ f[1] \in Int
  BY <1>1, <1>3, <1>8, ByType
<1>12. By(pays, m) = By(rest, m) + f[1]
  BY <1>2, <1>9, <1>10, <1>11
<1> QED BY <1>7, <1>12 DEF rest

\* A sale in cash that was paid in full is debited as it was paid.
LEMMA DebitedAsPaid ==
  ASSUME NEW c \in Carts, Sum(c.pays) = c.total, Sum(c.pays) <= Net(c), NEW m \in Method
  PROVE  Debited(c)[m] = By(c.pays, m)
<1>1. c.total \in Nat /\ c.withheld \in Nat /\ c.pays \in Seq(Payment)
  BY ConstantsAssumption
<1>2. By(c.pays, m) \in Nat
  BY <1>1, ByType
<1>3. Net(c) = Sum(c.pays)
  BY <1>1 DEF Net, Positive
<1>4. Net(c) - Sum(c.pays) = 0
  BY <1>1, <1>3
<1> QED BY <1>2, <1>4 DEF Debited

\* The entry debits no method with less than was paid by it.
LEMMA DebitedCovers ==
  ASSUME NEW c \in Carts, Sum(c.pays) <= Net(c), NEW m \in Method
  PROVE  /\ Debited(c)[m] \in Int /\ By(c.pays, m) <= Debited(c)[m]
         /\ Debited(c) \in [Method -> Int]
<1>1. c.total \in Nat /\ c.withheld \in Nat /\ c.pays \in Seq(Payment)
  BY ConstantsAssumption
<1>2. \A w \in Method : By(c.pays, w) \in Nat
  BY <1>1, ByType
<1>3. Sum(c.pays) \in Int /\ Net(c) \in Int
  BY <1>1, <1>2 DEF Sum, Method, Net, Positive
<1>4. PICK d \in Int : d = Net(c) - Sum(c.pays) /\ d >= 0
  BY <1>3
<1>5. Debited(c) = [w \in Method |-> By(c.pays, w) + IF w = "cash" THEN d ELSE 0]
  BY <1>4 DEF Debited
<1>6. \A w \in Method : By(c.pays, w) + (IF w = "cash" THEN d ELSE 0) \in Int
  BY <1>2, <1>4
<1> QED BY <1>2, <1>4, <1>5, <1>6

\* The requests that have committed an invoice.
Committed(r) == r.stage \in {"post", "check", "pay", "hook", "drop"}

\* How far such a request is with the entry and the receipts of a sale in cash.
Progress(r, c, entry, receipt) ==
  /\ r.stage \in {"post", "check"} => \A m \in Method : receipt[m] = 0
  /\ r.stage # "post" => entry = Debited(c) /\ Sum(c.pays) <= Net(c)
  /\ r.stage \in {"pay", "hook", "drop"} =>
       /\ c.pays = <<>> \/ Sum(c.pays) = c.total
       /\ \A m \in Method : receipt[m] + By(r.due, m) = By(c.pays, m)

Covered(entry, receipt) == \A m \in Method : receipt[m] > 0 => receipt[m] <= entry[m]

\* An invoice has one request at most, with its receipts on their way, or has
\* them all.
Receipts ==
  /\ receipts \in [Numbers -> [Method -> Nat]]
  /\ posted \in [Numbers -> [Method -> Int]]
  /\ \A n \in Numbers \ StockSales : \A m \in Method : receipts[n][m] = 0
  /\ \A p \in Procs : Committed(req[p]) => req[p].number \in StockSales
  /\ \A p, q \in Procs :
       p # q /\ Committed(req[p]) /\ Committed(req[q]) => req[p].number # req[q].number
  /\ \A p \in Procs : \A n \in StockSales :
       Committed(req[p]) /\ req[p].number = n /\ ~invoice[n].cart.credit =>
         Progress(req[p], invoice[n].cart, posted[n], receipts[n])
  /\ \A n \in StockSales : ~invoice[n].cart.credit =>
       /\ Covered(posted[n], receipts[n])
       /\ \/ invoice[n].cart.pays = <<>>
          \/ n \in failed
          \/ receipts[n] = posted[n]
          \/ \E p \in Procs : Committed(req[p]) /\ req[p].number = n

\* What a request does to its own invoice.
Receipted(p, r, n) ==
  /\ req' = [req EXCEPT ![p] = r]
  /\ Committed(req[p]) /\ req[p].number = n
  /\ invoice' = invoice /\ failed \subseteq failed'
  /\ receipts' \in [Numbers -> [Method -> Nat]] /\ posted' \in [Numbers -> [Method -> Int]]
  /\ \A k \in Numbers \ {n} : receipts'[k] = receipts[k] /\ posted'[k] = posted[k]
  /\ Committed(r) => r.number = n

LEMMA ReceiptedKeeps ==
  ASSUME IInv, Receipts, NEW p \in Procs, NEW r \in Request, NEW n \in StockSales,
         Receipted(p, r, n),
         ~invoice[n].cart.credit => Covered(posted'[n], receipts'[n]),
         Committed(r) /\ ~invoice[n].cart.credit =>
           Progress(r, invoice[n].cart, posted'[n], receipts'[n]),
         \/ Committed(r) \/ invoice[n].cart.credit \/ invoice[n].cart.pays = <<>>
         \/ n \in failed' \/ receipts'[n] = posted'[n]
  PROVE  Receipts'
<1>0. req \in [Procs -> Request] /\ n \in Numbers
  BY DEF IInv, Typed, StockSales
<1>1. /\ StockSales' = StockSales /\ StockSales \subseteq Numbers
      /\ req'[p] = r /\ \A q \in Procs \ {p} : req'[q] = req[q]
  BY <1>0 DEF Receipted, StockSales
<1>2. \A q \in Procs \ {p} : Committed(req[q]) => req[q].number # n
  BY DEF Receipts, Receipted
<1>3. \A k \in Numbers \ StockSales : \A m \in Method : receipts'[k][m] = 0
  <2>1. \A k \in Numbers \ StockSales : receipts'[k] = receipts[k]
    BY DEF Receipted
  <2>2. \A k \in Numbers \ StockSales : \A m \in Method : receipts[k][m] = 0
    BY DEF Receipts
  <2> QED BY <2>1, <2>2
<1>4. \A q \in Procs : Committed(req'[q]) => req'[q].number \in StockSales
  BY <1>1 DEF Receipts, Receipted
<1>5. \A q, t \in Procs :
        q # t /\ Committed(req'[q]) /\ Committed(req'[t]) => req'[q].number # req'[t].number
  <2> SUFFICES ASSUME NEW q \in Procs, NEW t \in Procs, q # t,
                      Committed(req'[q]), Committed(req'[t])
               PROVE  req'[q].number # req'[t].number
    OBVIOUS
  <2>1. CASE q = p
    BY <1>1, <1>2, <2>1 DEF Receipted
  <2>2. CASE t = p
    BY <1>1, <1>2, <2>2 DEF Receipted
  <2>3. CASE q # p /\ t # p
    BY <1>1, <2>3 DEF Receipts
  <2> QED BY <2>1, <2>2, <2>3
<1>6. \A q \in Procs : \A k \in StockSales :
        Committed(req'[q]) /\ req'[q].number = k /\ ~invoice[k].cart.credit =>
          Progress(req'[q], invoice[k].cart, posted'[k], receipts'[k])
  <2> SUFFICES ASSUME NEW q \in Procs, NEW k \in StockSales,
                      Committed(req'[q]), req'[q].number = k, ~invoice[k].cart.credit
               PROVE  Progress(req'[q], invoice[k].cart, posted'[k], receipts'[k])
    OBVIOUS
  <2>1. CASE q = p
    BY <1>1, <2>1 DEF Receipted
  <2>2. CASE q # p
    <3>1. req'[q] = req[q] /\ k # n /\ k \in Numbers
      BY <1>1, <1>2, <2>2
    <3>2. posted'[k] = posted[k] /\ receipts'[k] = receipts[k]
      BY <3>1 DEF Receipted
    <3> QED BY <3>1, <3>2 DEF Receipts
  <2> QED BY <2>1, <2>2
<1>7. ASSUME NEW k \in StockSales, ~invoice[k].cart.credit
      PROVE  /\ Covered(posted'[k], receipts'[k])
             /\ \/ invoice[k].cart.pays = <<>>
                \/ k \in failed'
                \/ receipts'[k] = posted'[k]
                \/ \E q \in Procs : Committed(req'[q]) /\ req'[q].number = k
  <2>1. CASE k = n
    BY <1>1, <1>7, <2>1 DEF Receipted
  <2>2. CASE k # n
    <3>1. posted'[k] = posted[k] /\ receipts'[k] = receipts[k] /\ failed \subseteq failed'
      BY <1>1, <2>2 DEF Receipted
    <3>2. \A q \in Procs : Committed(req[q]) /\ req[q].number = k => req'[q] = req[q]
      BY <1>1, <2>2 DEF Receipted
    <3>3. /\ Covered(posted[k], receipts[k])
          /\ \/ invoice[k].cart.pays = <<>>
             \/ k \in failed
             \/ receipts[k] = posted[k]
             \/ \E q \in Procs : Committed(req[q]) /\ req[q].number = k
      BY <1>7 DEF Receipts
    <3> QED BY <3>1, <3>2, <3>3
  <2> QED BY <2>1, <2>2
<1>8. receipts' \in [Numbers -> [Method -> Nat]] /\ posted' \in [Numbers -> [Method -> Int]]
  BY DEF Receipted
<1>9. invoice' = invoice
  BY DEF Receipted
<1> QED BY <1>1, <1>3, <1>4, <1>5, <1>6, <1>7, <1>8, <1>9 DEF Receipts

\* A request that has no invoice yet does not touch those of the others.
LEMMA ReceiptsStay ==
  ASSUME IInv, Receipts, NEW p \in Procs, NEW r \in Request,
         req' = [req EXCEPT ![p] = r], ~Committed(req[p]), ~Committed(r),
         UNCHANGED <<invoice, posted, receipts>>, failed \subseteq failed'
  PROVE  Receipts'
<1>0. req \in [Procs -> Request]
  BY DEF IInv, Typed
<1>1. /\ StockSales' = StockSales
      /\ \A q \in Procs : Committed(req'[q]) => req'[q] = req[q]
      /\ \A q \in Procs : Committed(req[q]) => req'[q] = req[q]
  BY <1>0 DEF StockSales
<1>2. \A q, t \in Procs :
        q # t /\ Committed(req'[q]) /\ Committed(req'[t]) => req'[q].number # req'[t].number
  BY <1>1 DEF Receipts
<1>3. \A q \in Procs : Committed(req'[q]) => req'[q].number \in StockSales
  BY <1>1 DEF Receipts
<1>4. \A q \in Procs : \A k \in StockSales :
        Committed(req'[q]) /\ req'[q].number = k /\ ~invoice[k].cart.credit =>
          Progress(req'[q], invoice[k].cart, posted[k], receipts[k])
  BY <1>1 DEF Receipts
<1>5. \A k \in StockSales : ~invoice[k].cart.credit =>
        /\ Covered(posted[k], receipts[k])
        /\ \/ invoice[k].cart.pays = <<>>
           \/ k \in failed'
           \/ receipts[k] = posted[k]
           \/ \E q \in Procs : Committed(req'[q]) /\ req'[q].number = k
  <2> SUFFICES ASSUME NEW k \in StockSales, ~invoice[k].cart.credit
               PROVE  /\ Covered(posted[k], receipts[k])
                      /\ \/ invoice[k].cart.pays = <<>>
                         \/ k \in failed'
                         \/ receipts[k] = posted[k]
                         \/ \E q \in Procs : Committed(req'[q]) /\ req'[q].number = k
    OBVIOUS
  <2>1. /\ Covered(posted[k], receipts[k])
        /\ \/ invoice[k].cart.pays = <<>>
           \/ k \in failed
           \/ receipts[k] = posted[k]
           \/ \E q \in Procs : Committed(req[q]) /\ req[q].number = k
    BY DEF Receipts
  <2>2. (\E q \in Procs : Committed(req[q]) /\ req[q].number = k) =>
          \E q \in Procs : Committed(req'[q]) /\ req'[q].number = k
    BY <1>1
  <2> QED BY <2>1, <2>2
<1> QED BY <1>1, <1>2, <1>3, <1>4, <1>5 DEF Receipts

\* A new invoice has no receipts.
LEMMA CommitReceipts ==
  ASSUME IInv, Receipts, NEW p \in Procs, CommitSale(p)
  PROVE  Receipts'
<1>0. req \in [Procs -> Request] /\ req[p].stage = "selling"
      /\ invoice \in [Numbers -> [status : {"none", "ISSUED", "OTHER"}, cart : Carts,
                          took : Int, made : Int, given : BOOLEAN]]
  BY DEF IInv, Typed, CommitSale, At
<1>2. PICK n : n = req[p].number
  OBVIOUS
<1>3. n \in Numbers /\ n \notin StockSales
  <2>1. n \in 0..MaxNumber /\ n # 0 /\ MaxNumber \in Nat
    BY <1>0, <1>2, ConstantsAssumption DEF Request, IInv, Numbered
  <2>2. n \in Numbers
    BY <2>1 DEF Numbers
  <2> QED BY <1>2, <2>2 DEF CommitSale, NumberIsFree, StockSales
<1>4. PICK r \in Request : req' = [req EXCEPT ![p] = r] /\ SaleStep(p, r)
  BY SaleRequest
<1>5. r.stage = "post" /\ r.number = n
  BY <1>0, <1>2, <1>4 DEF SaleStep, Plan, Begin, PostSale, At
<1>6. /\ UNCHANGED <<posted, receipts, failed>>
      /\ invoice'[n].status = "ISSUED" /\ \A j \in Numbers \ {n} : invoice'[j] = invoice[j]
  BY <1>0, <1>2, <1>3 DEF CommitSale
<1>7. /\ StockSales' = StockSales \union {n} /\ StockSales \subseteq Numbers
      /\ \A j \in StockSales : invoice'[j] = invoice[j]
  <2>1. \A j \in Numbers : invoice'[j].status = "ISSUED" <=> j \in StockSales \/ j = n
    BY <1>3, <1>6 DEF StockSales
  <2> QED BY <1>3, <1>6, <2>1 DEF StockSales
<1>8. req'[p] = r /\ \A q \in Procs \ {p} : req'[q] = req[q]
  BY <1>0, <1>4
<1>9. \A q \in Procs \ {p} : Committed(req[q]) => req[q].number \in StockSales /\ req[q].number # n
  BY <1>3 DEF Receipts
<1>10. \A q \in Procs : Committed(req'[q]) => req'[q].number \in StockSales'
  BY <1>5, <1>7, <1>8, <1>9
<1>11. \A q, t \in Procs :
        q # t /\ Committed(req'[q]) /\ Committed(req'[t]) => req'[q].number # req'[t].number
  <2> SUFFICES ASSUME NEW q \in Procs, NEW t \in Procs, q # t,
                      Committed(req'[q]), Committed(req'[t])
               PROVE  req'[q].number # req'[t].number
    OBVIOUS
  <2>1. CASE q = p
    BY <1>5, <1>8, <1>9, <2>1
  <2>2. CASE t = p
    BY <1>5, <1>8, <1>9, <2>2
  <2>3. CASE q # p /\ t # p
    BY <1>8, <2>3 DEF Receipts
  <2> QED BY <2>1, <2>2, <2>3
<1>12. \A m \in Method : receipts[n][m] = 0
  BY <1>3 DEF Receipts
<1>13. \A q \in Procs : \A j \in StockSales' :
        Committed(req'[q]) /\ req'[q].number = j /\ ~invoice'[j].cart.credit =>
          Progress(req'[q], invoice'[j].cart, posted[j], receipts[j])
  <2> SUFFICES ASSUME NEW q \in Procs, NEW j \in StockSales',
                      Committed(req'[q]), req'[q].number = j, ~invoice'[j].cart.credit
               PROVE  Progress(req'[q], invoice'[j].cart, posted[j], receipts[j])
    OBVIOUS
  <2>1. CASE q = p
    BY <1>5, <1>8, <1>12, <2>1 DEF Progress
  <2>2. CASE q # p
    BY <1>7, <1>8, <1>9, <2>2 DEF Receipts
  <2> QED BY <2>1, <2>2
<1>14. ASSUME NEW j \in StockSales', ~invoice'[j].cart.credit
       PROVE  /\ Covered(posted[j], receipts[j])
              /\ \/ invoice'[j].cart.pays = <<>>
                 \/ j \in failed
                 \/ receipts[j] = posted[j]
                 \/ \E q \in Procs : Committed(req'[q]) /\ req'[q].number = j
  <2>1. CASE j = n
    BY <1>5, <1>8, <1>12, <2>1 DEF Covered, Committed
  <2>2. CASE j # n
    <3>1. j \in StockSales /\ invoice'[j] = invoice[j]
      BY <1>7, <2>2
    <3>2. \A q \in Procs : Committed(req[q]) => req'[q] = req[q]
      BY <1>0, <1>8 DEF Committed
    <3> QED BY <1>14, <3>1, <3>2, ZenonT(60) DEF Receipts
  <2> QED BY <2>1, <2>2
<1>15. \A j \in Numbers \ StockSales' : \A m \in Method : receipts[j][m] = 0
  BY <1>7 DEF Receipts
<1>16. receipts \in [Numbers -> [Method -> Nat]] /\ posted \in [Numbers -> [Method -> Int]]
  BY DEF Receipts
<1> QED BY <1>6, <1>10, <1>11, <1>13, <1>14, <1>15, <1>16 DEF Receipts

\* What a request with an invoice is known to have.
LEMMA OwnInvoice ==
  ASSUME IInv, Receipts, NEW p \in Procs, Committed(req[p])
  PROVE  \E n \in StockSales :
           /\ n = req[p].number /\ n \in Numbers /\ invoice[n].cart \in Carts
           /\ receipts[n] \in [Method -> Nat] /\ posted[n] \in [Method -> Int]
           /\ ~invoice[n].cart.credit =>
                /\ Progress(req[p], invoice[n].cart, posted[n], receipts[n])
                /\ Covered(posted[n], receipts[n])
<1>1. PICK n \in StockSales : n = req[p].number
  BY DEF Receipts
<1>2. n \in Numbers
  BY DEF StockSales
<1>3. invoice[n].cart \in Carts
  BY <1>2 DEF IInv, Typed
<1> QED BY <1>1, <1>2, <1>3 DEF Receipts

LEMMA PostReceipts ==
  ASSUME IInv, Receipts, NEW p \in Procs, PostSale(p)
  PROVE  Receipts'
<1>0. Committed(req[p]) /\ req[p].stage = "post"
  BY DEF PostSale, At, Committed
<1>1. PICK n \in StockSales :
        /\ n = req[p].number /\ n \in Numbers /\ invoice[n].cart \in Carts
        /\ receipts[n] \in [Method -> Nat] /\ posted[n] \in [Method -> Int]
        /\ ~invoice[n].cart.credit =>
             /\ Progress(req[p], invoice[n].cart, posted[n], receipts[n])
             /\ Covered(posted[n], receipts[n])
  BY <1>0, OwnInvoice
<1>2. PICK c \in Carts : c = invoice[n].cart
  BY <1>1
<1>3. PICK r \in Request : req' = [req EXCEPT ![p] = r] /\ SaleStep(p, r)
  BY SaleRequest
<1>4. r.stage = "check" /\ r.number = n
  BY <1>0, <1>1, <1>3 DEF SaleStep, Plan, Begin, CommitSale, At
<1>5. PICK d : d = IF c.credit THEN Nothing ELSE Debited(c)
  OBVIOUS
<1>6. /\ ~c.credit => Sum(c.pays) <= Net(c)
      /\ posted' = [posted EXCEPT ![n] = d]
      /\ UNCHANGED <<invoice, receipts, failed>>
  BY <1>1, <1>2, <1>5 DEF PostSale, CartOf
<1>7. d \in [Method -> Int]
  <2>1. CASE c.credit
    BY <1>5, <2>1 DEF Nothing
  <2>2. CASE ~c.credit
    <3>1. "cash" \in Method
      BY DEF Method
    <3> QED BY <1>5, <1>6, <2>2, <3>1, DebitedCovers
  <2> QED BY <2>1, <2>2
<1>8. /\ posted \in [Numbers -> [Method -> Int]] /\ receipts \in [Numbers -> [Method -> Nat]]
  BY DEF Receipts
<1>9. /\ posted'[n] = d /\ posted' \in [Numbers -> [Method -> Int]]
      /\ \A k \in Numbers \ {n} : posted'[k] = posted[k]
  BY <1>1, <1>6, <1>7, <1>8
<1>10. Receipted(p, r, n)
  BY <1>0, <1>1, <1>3, <1>4, <1>6, <1>8, <1>9 DEF Receipted
<1>11. ~c.credit => \A m \in Method : receipts[n][m] = 0
  BY <1>0, <1>1, <1>2 DEF Progress
<1>12. ~c.credit => Covered(posted'[n], receipts'[n])
  BY <1>6, <1>11 DEF Covered
<1>13. ~c.credit => Progress(r, c, posted'[n], receipts'[n])
  BY <1>4, <1>5, <1>6, <1>9, <1>11 DEF Progress
<1>14. Committed(r)
  BY <1>4 DEF Committed
<1> QED BY <1>2, <1>10, <1>12, <1>13, <1>14, ReceiptedKeeps

\* A payment is received.
LEMMA ReceiveReceipts ==
  ASSUME IInv, Receipts, NEW p \in Procs, Receive(p), req[p].due # <<>>
  PROVE  Receipts'
<1>0. Committed(req[p]) /\ req[p].stage = "pay" /\ req[p].due \in Seq(Payment)
  BY RequestType DEF Receive, At, Committed, Request
<1>1. PICK n \in StockSales :
        /\ n = req[p].number /\ n \in Numbers /\ invoice[n].cart \in Carts
        /\ receipts[n] \in [Method -> Nat] /\ posted[n] \in [Method -> Int]
        /\ ~invoice[n].cart.credit =>
             /\ Progress(req[p], invoice[n].cart, posted[n], receipts[n])
             /\ Covered(posted[n], receipts[n])
  BY <1>0, OwnInvoice
<1>2. PICK c \in Carts : c = invoice[n].cart
  BY <1>1
<1>3. PICK r \in Request : req' = [req EXCEPT ![p] = r] /\ PayStep(p, r)
  BY PayRequest
<1>4. /\ r.stage \in {"hook", "pay"} /\ r.number = n /\ r.due = Tail(req[p].due)
      /\ r.due \in Seq(Payment)
  <2>1. r.stage \in {"hook", "pay"} /\ r.number = n /\ r.due = Tail(req[p].due)
    BY <1>0, <1>1, <1>3 DEF PayStep, CheckPayments, FindSession, DropCash, At
  <2> QED BY <2>1 DEF Request
<1>5. PICK pay \in Payment : pay = Head(req[p].due)
  BY <1>0
<1>6. pay.by \in Method /\ pay.amount \in Nat
  BY DEF Payment
<1>7. PICK a \in Nat : a = receipts[n][pay.by] + pay.amount
  BY <1>1, <1>6
<1>8. PICK row : row = [receipts[n] EXCEPT ![pay.by] = a]
  OBVIOUS
<1>9. /\ row \in [Method -> Nat] /\ row[pay.by] = a
      /\ \A m \in Method \ {pay.by} : row[m] = receipts[n][m]
  BY <1>1, <1>6, <1>8
<1>10. receipts' = [receipts EXCEPT ![n] = row]
  BY <1>1, <1>5, <1>7, <1>8 DEF Receive
<1>11. /\ posted \in [Numbers -> [Method -> Int]] /\ receipts \in [Numbers -> [Method -> Nat]]
       /\ UNCHANGED <<invoice, posted, failed>>
  BY DEF Receipts, Receive
<1>12. /\ receipts'[n] = row /\ receipts' \in [Numbers -> [Method -> Nat]]
       /\ \A k \in Numbers \ {n} : receipts'[k] = receipts[k]
  BY <1>1, <1>9, <1>10, <1>11
<1>13. Receipted(p, r, n)
  BY <1>0, <1>1, <1>3, <1>4, <1>11, <1>12 DEF Receipted
<1>14. ASSUME ~c.credit PROVE Progress(r, c, posted[n], row) /\ Covered(posted[n], row)
  <2>1. /\ posted[n] = Debited(c) /\ Sum(c.pays) <= Net(c)
        /\ c.pays = <<>> \/ Sum(c.pays) = c.total
        /\ \A m \in Method : receipts[n][m] + By(req[p].due, m) = By(c.pays, m)
    BY <1>0, <1>1, <1>2, <1>14 DEF Progress
  <2>2. ASSUME NEW m \in Method
        PROVE  row[m] + By(r.due, m) = By(c.pays, m) /\ row[m] <= posted[n][m]
    <3>1. /\ By(req[p].due, m) = By(r.due, m) + (IF pay.by = m THEN pay.amount ELSE 0)
          /\ By(r.due, m) \in Nat
      BY <1>0, <1>4, <1>5, ByTail, ByType
    <3>2. row[m] = receipts[n][m] + (IF pay.by = m THEN pay.amount ELSE 0) /\ row[m] \in Nat
      BY <1>1, <1>6, <1>7, <1>9
    <3>3. receipts[n][m] \in Nat /\ receipts[n][m] + By(req[p].due, m) = By(c.pays, m)
      BY <1>1, <2>1
    <3>4. row[m] + By(r.due, m) = By(c.pays, m)
      BY <1>6, <3>1, <3>2, <3>3
    <3>5. By(c.pays, m) <= posted[n][m] /\ posted[n][m] \in Int
      BY <2>1, DebitedCovers
    <3> QED BY <3>1, <3>2, <3>4, <3>5
  <2> QED BY <1>4, <2>1, <2>2 DEF Progress, Covered
<1>15. Committed(r)
  BY <1>4 DEF Committed
<1> QED BY <1>2, <1>11, <1>12, <1>13, <1>14, <1>15, ReceiptedKeeps

\* The other steps write neither the entry nor a receipt.
LEMMA OwnReceipts ==
  ASSUME IInv, Receipts, NEW p \in Procs,
         \/ CheckPayments(p) \/ (Receive(p) /\ req[p].due = <<>>)
         \/ FindSession(p) \/ DropCash(p)
  PROVE  Receipts'
<1>0. Committed(req[p])
  BY DEF CheckPayments, Receive, FindSession, DropCash, At, Committed
<1>1. PICK n \in StockSales :
        /\ n = req[p].number /\ n \in Numbers /\ invoice[n].cart \in Carts
        /\ receipts[n] \in [Method -> Nat] /\ posted[n] \in [Method -> Int]
        /\ ~invoice[n].cart.credit =>
             /\ Progress(req[p], invoice[n].cart, posted[n], receipts[n])
             /\ Covered(posted[n], receipts[n])
  BY <1>0, OwnInvoice
<1>2. PICK c \in Carts : c = invoice[n].cart
  BY <1>1
<1>3. PICK r \in Request : req' = [req EXCEPT ![p] = r] /\ PayStep(p, r)
  BY PayRequest
<1>4. /\ UNCHANGED <<invoice, posted, receipts>> /\ failed \subseteq failed'
  BY DEF CheckPayments, Receive, FindSession, DropCash, sale
<1>5. \/ /\ CheckPayments(p) /\ Accepted(c) /\ r.stage = "pay" /\ r.number = n /\ r.due = c.pays
      \/ n \in failed' /\ r = Idle
      \/ Receive(p) /\ req[p].due = <<>> /\ r = Idle
      \/ (FindSession(p) \/ DropCash(p)) /\ r.stage \in {"pay", "drop"} /\ Same(r, req[p])
  <2>1. CartOf(p) = c /\ req[p].number = n
    BY <1>1, <1>2 DEF CartOf
  <2>2. Receive(p) => req[p].due = <<>>
    <3>1. ASSUME Receive(p), CheckPayments(p) \/ FindSession(p) \/ DropCash(p) PROVE FALSE
      BY <3>1 DEF Receive, CheckPayments, FindSession, DropCash, At
    <3> QED BY <3>1
  <2>3. n \in failed \union {n}
    OBVIOUS
  <2> QED BY <1>3, <2>1, <2>2, <2>3 DEF PayStep
<1>6. Receipted(p, r, n)
  <2>1. Committed(r) => r.number = n
    BY <1>1, <1>5, IdleType DEF Committed, Same
  <2>2. posted \in [Numbers -> [Method -> Int]] /\ receipts \in [Numbers -> [Method -> Nat]]
    BY DEF Receipts
  <2> QED BY <1>0, <1>1, <1>3, <1>4, <2>1, <2>2 DEF Receipted
<1>7. ASSUME ~c.credit, Committed(r) PROVE Progress(r, c, posted[n], receipts[n])
  <2>1. Progress(req[p], c, posted[n], receipts[n])
    BY <1>1, <1>2, <1>7
  <2>2. CASE CheckPayments(p) /\ Accepted(c) /\ r.stage = "pay" /\ r.due = c.pays
    <3>1. req[p].stage = "check"
      BY <2>2 DEF CheckPayments, At
    <3>2. c.pays = <<>> \/ Sum(c.pays) = c.total
      BY <1>7, <2>2 DEF Accepted, Expected
    <3>3. \A m \in Method : receipts[n][m] = 0 /\ By(c.pays, m) \in Nat
      <4>1. c.pays \in Seq(Payment)
        BY CartType
      <4> QED BY <2>1, <3>1, <4>1, ByType DEF Progress
    <3> QED BY <2>1, <2>2, <3>1, <3>2, <3>3 DEF Progress
  <2>3. CASE (FindSession(p) \/ DropCash(p)) /\ r.stage \in {"pay", "drop"} /\ Same(r, req[p])
    <3>1. req[p].stage \in {"hook", "drop"}
      BY <2>3 DEF FindSession, DropCash, At
    <3> QED BY <2>1, <2>3, <3>1 DEF Progress, Same
  <2> QED BY <1>5, <1>7, <2>2, <2>3, IdleType DEF Committed
<1>8. \/ Committed(r) \/ c.credit \/ c.pays = <<>> \/ n \in failed' \/ receipts[n] = posted[n]
  <2>1. SUFFICES ASSUME ~Committed(r), ~c.credit, c.pays # <<>>, n \notin failed'
                 PROVE  receipts[n] = posted[n]
    OBVIOUS
  <2>2. Receive(p) /\ req[p].due = <<>>
    BY <1>5, <2>1 DEF Committed
  <2>3. req[p].stage = "pay"
    BY <2>2 DEF Receive, At
  <2>4. /\ posted[n] = Debited(c) /\ Sum(c.pays) <= Net(c) /\ Sum(c.pays) = c.total
        /\ \A m \in Method : receipts[n][m] + By(<<>>, m) = By(c.pays, m)
    BY <1>1, <1>2, <2>1, <2>2, <2>3 DEF Progress
  <2>5. ASSUME NEW m \in Method PROVE receipts[n][m] = posted[n][m]
    <3>1. receipts[n][m] \in Nat /\ receipts[n][m] + 0 = By(c.pays, m)
      BY <1>1, <2>4, ByNone
    <3>2. posted[n][m] = By(c.pays, m)
      BY <2>4, DebitedAsPaid
    <3> QED BY <3>1, <3>2
  <2> QED BY <1>1, <2>5
<1>9. ~c.credit => Covered(posted'[n], receipts'[n])
  BY <1>1, <1>2, <1>4
<1> QED BY <1>2, <1>4, <1>6, <1>7, <1>8, <1>9, ReceiptedKeeps

LEMMA LoseReceipts ==
  ASSUME IInv, Receipts, NEW p \in Procs, Lose(p)
  PROVE  Receipts'
<1>0. Idle \in Request /\ ~Committed(Idle) /\ req' = [req EXCEPT ![p] = Idle]
  BY IdleType DEF Committed, Lose, Go
<1>1. UNCHANGED <<invoice, posted, receipts>> /\ failed \subseteq failed'
  BY DEF Lose
<1>2. CASE ~Committed(req[p])
  BY <1>0, <1>1, <1>2, ReceiptsStay
<1>3. CASE Committed(req[p])
  <2>1. PICK n \in StockSales :
          /\ n = req[p].number /\ n \in Numbers
          /\ ~invoice[n].cart.credit => Covered(posted[n], receipts[n])
    BY <1>3, OwnInvoice
  <2>2. n \in failed'
    BY <1>3, <2>1 DEF Lose, At, Committed
  <2>3. posted \in [Numbers -> [Method -> Int]] /\ receipts \in [Numbers -> [Method -> Nat]]
    BY DEF Receipts
  <2>4. Receipted(p, Idle, n)
    BY <1>0, <1>1, <1>3, <2>1, <2>3 DEF Receipted
  <2> QED BY <1>0, <1>1, <2>1, <2>2, <2>4, ReceiptedKeeps
<1> QED BY <1>2, <1>3

LEMMA StepReceipts ==
  ASSUME IInv, InRow, Receipts, [Next]_vars PROVE Receipts'
<1>1. CASE UNCHANGED vars \/ Supply \/ Issue
  <2>1. /\ UNCHANGED <<posted, receipts, failed, req>>
        /\ StockSales' = StockSales
        /\ \A n \in StockSales : invoice'[n] = invoice[n]
    <3>1. CASE UNCHANGED vars \/ Supply
      BY <3>1 DEF vars, Supply, sale, StockSales
    <3>2. CASE Issue
      <4>1. PICK n \in Numbers :
              /\ invoice[n].status = "none" /\ invoice'[n].status = "OTHER"
              /\ \A m \in Numbers \ {n} : invoice'[m] = invoice[m]
        BY <3>2, IssueTakes
      <4> QED BY <3>2, <4>1 DEF Issue, StockSales
    <3> QED BY <1>1, <3>1, <3>2
  <2> QED BY <2>1 DEF Receipts
<1>2. ASSUME NEW p \in Procs, Step(p) PROVE Receipts'
  <2>1. CASE CommitSale(p)
    BY <2>1, CommitReceipts
  <2>2. CASE PostSale(p)
    BY <2>2, PostReceipts
  <2>3. CASE CheckPayments(p) \/ Receive(p) \/ FindSession(p) \/ DropCash(p)
    BY <2>3, ReceiveReceipts, OwnReceipts
  <2>4. CASE Lose(p)
    BY <2>4, LoseReceipts
  <2>5. ASSUME \/ Plan(p) \/ Begin(p) \/ ReadForOpen(p) \/ OpenSession(p) \/ ReadSession(p)
               \/ WriteMovement(p) \/ AdjustExpected(p) \/ CloseSession(p)
        PROVE  Receipts'
    <3>1. UNCHANGED <<invoice, posted, receipts, failed>> /\ ~Committed(req[p])
      BY <2>5 DEF Plan, Begin, ReadForOpen, OpenSession, ReadSession, WriteMovement,
         AdjustExpected, CloseSession, sale, At, Committed
    <3>2. PICK r \in Request : /\ req' = [req EXCEPT ![p] = r]
                               /\ SaleStep(p, r) \/ TillStep(p, r)
      BY <2>5, SaleRequest, TillRequest
    <3>3. ~Committed(r)
      BY <2>5, <3>2, IdleType DEF SaleStep, TillStep, Committed, Plan, Begin, CommitSale, PostSale,
         ReadForOpen, OpenSession, ReadSession, WriteMovement, AdjustExpected, CloseSession, At
    <3> QED BY <3>1, <3>2, <3>3, ReceiptsStay
  <2> QED BY <1>2, <2>1, <2>2, <2>3, <2>4, <2>5 DEF Step
<1> QED BY <1>1, <1>2 DEF Next

\* However requests overlap and wherever one is cut short, a sale in cash whose
\* request came to its end has the receipts its entry debits, and none beyond.
THEOREM ReceiptsAlwaysFollow == Spec => []ReceiptsFollowEntry
<1>1. Init => Receipts
  <2> SUFFICES ASSUME Init PROVE Receipts
    OBVIOUS
  <2>1. \A p \in Procs : ~Committed(req[p])
    BY IdleType DEF Init, Committed
  <2>2. StockSales = {}
    BY DEF Init, StockSales, NoInvoice
  <2>3. /\ receipts \in [Numbers -> [Method -> Nat]] /\ posted \in [Numbers -> [Method -> Int]]
        /\ \A n \in Numbers : \A m \in Method : receipts[n][m] = 0
    BY DEF Init, Nothing, NotPosted
  <2> QED BY <2>1, <2>2, <2>3 DEF Receipts
<1>2. Receipts => ReceiptsFollowEntry
  <2>1. SUFFICES ASSUME Receipts, NEW n \in StockSales, ~invoice[n].cart.credit
                 PROVE  /\ \A m \in Method : receipts[n][m] > 0 => receipts[n][m] <= posted[n][m]
                        /\ ~InProgress(n) /\ n \notin failed /\ invoice[n].cart.pays # <<>> =>
                             receipts[n] = posted[n]
    BY DEF ReceiptsFollowEntry
  <2>2. \A p \in Procs : Committed(req[p]) /\ req[p].number = n => InProgress(n)
    BY DEF Committed, InProgress, At
  <2> QED BY <2>1, <2>2 DEF Receipts, Covered
<1>3. IInv /\ InRow /\ Receipts /\ [Next]_vars => Receipts'
  BY StepReceipts
<1> QED BY <1>1, <1>2, <1>3, Inductive, AlwaysInRow, PTL DEF Spec
=============================================================================
