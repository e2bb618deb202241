------------------------- MODULE FixedAssetsProofs -------------------------
(***************************************************************************)
(* Theorems about FixedAssets, for any number of assets, months, amounts   *)
(* and (where a theorem does not say otherwise) concurrent requests.       *)
(***************************************************************************)
EXTENDS FixedAssets, SumTheorems, TLAPS

-----------------------------------------------------------------------------
(* The plan of one month. *)

LEMMA RoundTyped ==
  ASSUME NEW n \in Int, NEW d \in Nat \ {0} PROVE RoundHalfUp(n, d) \in Int
BY DEF RoundHalfUp

LEMMA RowNumbers ==
  ASSUME NEW r \in Row
  PROVE  /\ Base(r) \in Int /\ Pending(r) \in Int
         /\ MonthlyAmount(r) \in Int
<1>1. /\ r.cost \in Nat /\ r.residual \in Nat /\ r.acc \in Int /\ r.book \in Int
      /\ r.life \in Nat \ {0} /\ r.rate \in Nat
      /\ r.method \in {"NONE", "STRAIGHT_LINE", "DECLINING_BALANCE"}
  BY DEF Row
<1>2. Base(r) \in Int /\ Pending(r) \in Int
  BY <1>1 DEF Base, Pending
<1>3. CASE r.method = "STRAIGHT_LINE"
  <2>1. MonthlyAmount(r) = RoundHalfUp(Base(r), r.life)
    BY <1>3 DEF MonthlyAmount
  <2> QED BY <1>1, <1>2, <2>1, RoundTyped
<1>4. CASE r.method = "DECLINING_BALANCE"
  <2>1. MonthlyAmount(r) = RoundHalfUp(r.book * r.rate, 120000)
    BY <1>4 DEF MonthlyAmount
  <2>2. r.book * r.rate \in Int
    BY <1>1
  <2> QED BY <1>2, <2>1, <2>2, RoundTyped
<1>5. CASE r.method = "NONE"
  BY <1>2, <1>5 DEF MonthlyAmount
<1> QED BY <1>1, <1>3, <1>4, <1>5

\* Charge is an integer that never exceeds what is pending.
LEMMA ChargeBounded ==
  ASSUME NEW r \in Row PROVE Charge(r) \in Int /\ Charge(r) <= Pending(r)
BY RowNumbers DEF Charge

LEMMA PlannedCharges ==
  ASSUME NEW table \in [Assets -> Row], NEW m \in Months, NEW inactive \in BOOLEAN,
         NEW a \in Planned(table, m, inactive)
  PROVE  /\ a \in Assets
         /\ table[a].status # "ABSENT"
         /\ Charge(table[a]) \in Nat \ {0}
         /\ Charge(table[a]) <= Pending(table[a])
         /\ Pending(table[a]) \in Int
<1>1. a \in Assets /\ table[a] \in Row /\ table[a].status # "ABSENT" /\ Charge(table[a]) > 0
  BY DEF Planned, Candidates
<1> QED BY <1>1, ChargeBounded, RowNumbers

-----------------------------------------------------------------------------
(* Type correctness. *)

LEMMA IdleTyped == Idle \in Request /\ NoRow \in Row
<1>1. NoRow \in Row
  BY ConstantsAssumption DEF NoRow, Row, Months
<1>2. 1 \in Months
  BY ConstantsAssumption DEF Months
<1> QED BY <1>1, <1>2 DEF Idle, Request, Stages

LEMMA FinishTyped ==
  ASSUME TypeOK, NEW p \in Procs, Finish(p) PROVE req' \in [Procs -> Request]
BY IdleTyped DEF TypeOK, Finish

LEMMA SeeAssetTyped ==
  ASSUME TypeOK, NEW p \in Procs, NEW a \in Assets, NEW stage \in Stages,
         SeeAsset(p, a, stage)
  PROVE  req' \in [Procs -> Request]
<1>1. [Idle EXCEPT !.stage = stage, !.seen = [@ EXCEPT ![a] = asset[a]]] \in Request
  BY IdleTyped DEF TypeOK, Idle, Request
<1> QED BY <1>1 DEF SeeAsset, TypeOK

LEMMA TypeInit == Init => TypeOK
BY IdleTyped DEF Init, TypeOK

LEMMA CreateTyped ==
  ASSUME TypeOK, NEW a \in Assets, Create(a) PROVE TypeOK'
<1>1. PICK cost \in Costs, residual \in Residuals, life \in Lives,
           start \in Months, method \in Methods, rate \in Rates, post \in Posts :
        /\ residual <= cost
        /\ asset' = [asset EXCEPT ![a] =
             [status |-> "ACTIVE", method |-> method, cost |-> cost,
              residual |-> residual, acc |-> 0, book |-> cost - residual,
              life |-> life, start |-> start, last |-> 0,
              rate |-> IF method = "DECLINING_BALANCE" THEN rate ELSE 0]]
        /\ glCost' = [glCost EXCEPT ![a] = @ + IF post THEN cost ELSE 0]
  BY DEF Create
<1>2. [status |-> "ACTIVE", method |-> method, cost |-> cost,
       residual |-> residual, acc |-> 0, book |-> cost - residual,
       life |-> life, start |-> start, last |-> 0,
       rate |-> IF method = "DECLINING_BALANCE" THEN rate ELSE 0] \in Row
  BY <1>1, ConstantsAssumption DEF Row
<1>3. cost \in Int
  BY ConstantsAssumption
<1> QED BY <1>1, <1>2, <1>3 DEF TypeOK, Create

LEMMA ImprovementTyped ==
  ASSUME TypeOK, NEW p \in Procs, ReadForImprovement(p) \/ WriteImprovement(p)
  PROVE  TypeOK'
<1>1. CASE ReadForImprovement(p)
  <2>1. req' \in [Procs -> Request]
    BY <1>1, SeeAssetTyped DEF ReadForImprovement, Stages
  <2> QED BY <1>1, <2>1 DEF ReadForImprovement, TypeOK
<1>2. CASE WriteImprovement(p)
  <2>1. PICK a \in Assets, amount \in Amounts, longer \in Extensions,
             more \in Increases, rate \in Rates \union {0}, post \in Posts :
          LET r == req[p].seen[a]
          IN  /\ r.status # "ABSENT"
              /\ r.cost + amount <= MaxCost
              /\ r.life + longer <= MaxLife
              /\ asset' = [asset EXCEPT ![a] = Improved(@, r, amount, longer, more, rate)]
              /\ glCost' = [glCost EXCEPT ![a] = @ + IF post THEN amount ELSE 0]
    BY <1>2 DEF WriteImprovement
  <2>2. asset[a] \in Row /\ req[p].seen[a] \in Row
    BY DEF TypeOK, Request
  <2>4. amount \in Nat /\ longer \in Nat /\ more \in Nat /\ rate \in Nat
    BY ConstantsAssumption
  <2>3. Improved(asset[a], req[p].seen[a], amount, longer, more, rate) \in Row
    <3>1. LET r == req[p].seen[a]
          IN  r.cost + amount \in Nat /\ r.book + amount \in Int
              /\ r.life + longer \in Nat \ {0} /\ r.residual + more \in Nat
      BY <2>2, <2>4 DEF Row
    <3> QED BY <2>2, <2>4, <3>1 DEF Improved, Row
  <2> QED BY <1>2, <2>1, <2>3, <2>4, FinishTyped DEF WriteImprovement, TypeOK
<1> QED BY <1>1, <1>2

\* Rewriting the totals of a row leaves a row.
LEMMA TotalsTyped ==
  ASSUME NEW now \in Row, NEW acc \in Int, NEW book \in Int, NEW last \in Months \union {0},
         NEW status \in {"ABSENT", "ACTIVE", "INACTIVE", "DISPOSED"}
  PROVE  [now EXCEPT !.acc = acc, !.book = book, !.last = last, !.status = status] \in Row
BY DEF Row

LEMMA DisposedTyped ==
  ASSUME NEW now \in Row, NEW r \in Row, NEW m \in Months
  PROVE  Disposed(now, r, m) \in Row
<1>1. Base(r) \in Int /\ m \in Months \union {0} /\ 0 \in Int
  BY RowNumbers
<1>2. \A x \in Row : \A acc, book \in Int : \A last \in Months \union {0} :
        [x EXCEPT !.status = "DISPOSED", !.book = book, !.acc = acc, !.last = last] \in Row
  BY DEF Row
<1> QED BY <1>1, <1>2 DEF Disposed

LEMMA DepreciatedTyped ==
  ASSUME NEW now \in Row, NEW r \in Row, NEW m \in Months
  PROVE  Depreciated(now, r, m) \in Row
<1>1. r.acc + Charge(r) \in Int /\ r.book - Charge(r) \in Int
  BY ChargeBounded DEF Row
<1>2. (IF Exhausted(r) THEN "INACTIVE" ELSE now.status)
        \in {"ABSENT", "ACTIVE", "INACTIVE", "DISPOSED"}
  BY DEF Row
<1>3. m \in Months \union {0}
  OBVIOUS
<1> QED BY <1>1, <1>2, <1>3, TotalsTyped DEF Depreciated

LEMMA DisposalTyped ==
  ASSUME TypeOK, NEW p \in Procs, ReadForDisposal(p) \/ WriteDisposal(p)
  PROVE  TypeOK'
<1>1. CASE ReadForDisposal(p)
  <2>1. req' \in [Procs -> Request]
    BY <1>1, SeeAssetTyped DEF ReadForDisposal, Stages
  <2> QED BY <1>1, <2>1 DEF ReadForDisposal, TypeOK
<1>2. CASE WriteDisposal(p)
  <2>1. PICK a \in Assets, m \in Months, post \in Posts :
          LET r == req[p].seen[a]
          IN  /\ asset' = [asset EXCEPT ![a] = Disposed(@, r, m)]
              /\ glCost' = [glCost EXCEPT ![a] = @ - IF post THEN r.cost ELSE 0]
              /\ glAccum' = [glAccum EXCEPT ![a] =
                   @ - IF ~post THEN 0 ELSE IF r.acc < r.cost THEN r.acc ELSE r.cost]
    BY <1>2, ZenonT(60) DEF WriteDisposal
  <2>2. asset[a] \in Row /\ req[p].seen[a] \in Row
    BY DEF TypeOK, Request
  <2>3. Disposed(asset[a], req[p].seen[a], m) \in Row
    BY <2>2, DisposedTyped
  <2>4. req[p].seen[a].cost \in Int /\ req[p].seen[a].acc \in Int
    BY <2>2 DEF Row
  <2> QED BY <1>2, <2>1, <2>3, <2>4, FinishTyped DEF WriteDisposal, TypeOK
<1> QED BY <1>1, <1>2

LEMMA PlanTyped ==
  ASSUME TypeOK, NEW p \in Procs, PlanRun(p) \/ FindRun(p) \/ ReplaceRun(p)
  PROVE  TypeOK'
<1>0. req[p] \in Request
  BY DEF TypeOK
<1>1. CASE PlanRun(p)
  <2>1. PICK m \in Months, inactive \in BOOLEAN :
          req' = [req EXCEPT ![p] =
            [Idle EXCEPT !.stage = "plan", !.seen = asset, !.month = m,
                         !.inactive = inactive]]
    BY <1>1 DEF PlanRun
  <2>2. [Idle EXCEPT !.stage = "plan", !.seen = asset, !.month = m,
                     !.inactive = inactive] \in Request
    BY IdleTyped DEF Request, Stages, TypeOK
  <2> QED BY <1>1, <2>1, <2>2 DEF PlanRun, TypeOK
<1>2. CASE FindRun(p)
  <2> DEFINE found == runs[req[p].month] > 0
  <2>1. [req[p] EXCEPT !.stage = IF found THEN "replace" ELSE "run",
                       !.existing = found] \in Request
    <3>1. /\ (IF found THEN "replace" ELSE "run") \in Stages
          /\ found \in BOOLEAN
      BY DEF Stages
    <3> HIDE DEF found
    <3> QED BY <1>0, <3>1 DEF Request
  <2>2. req' = [req EXCEPT ![p] =
          [req[p] EXCEPT !.stage = IF found THEN "replace" ELSE "run",
                         !.existing = found]]
    BY <1>2 DEF FindRun, TypeOK
  <2> QED BY <1>2, <2>1, <2>2 DEF FindRun, TypeOK
<1>3. CASE ReplaceRun(p)
  <2>0. dep[req[p].month] \in SUBSET Movement
    BY <1>0 DEF TypeOK, Request
  <2> QED BY <1>3, <1>0, <2>0 DEF ReplaceRun, TypeOK, Request, Stages
<1> QED BY <1>1, <1>2, <1>3

LEMMA RunTyped ==
  ASSUME TypeOK, NEW p \in Procs, WriteRun(p) PROVE TypeOK'
<1> DEFINE r == req[p]
           m == r.month
           plan == Planned(r.seen, m, r.inactive)
<1>1. /\ r.seen \in [Assets -> Row] /\ m \in Months /\ r.inactive \in BOOLEAN
      /\ runs[m] \in Nat
  BY DEF TypeOK, Request
<1>2. \A a \in plan : a \in Assets /\ Charge(r.seen[a]) \in Nat
  BY <1>1, PlannedCharges
<1>3. \A a \in Assets : Depreciated(asset[a], r.seen[a], m) \in Row
  BY <1>1, DepreciatedTyped DEF TypeOK
<1>4. asset' \in [Assets -> Row]
  BY <1>1, <1>3 DEF WriteRun, TypeOK
<1>5. {[asset |-> a, amount |-> Charge(r.seen[a]), execution |-> runs[m] + 1] : a \in plan}
        \in SUBSET Movement
  BY <1>1, <1>2 DEF Movement
<1>6. dep' \in [Months -> SUBSET Movement]
  BY <1>1, <1>5 DEF WriteRun, TypeOK
<1>7. glAccum' \in [Assets -> Int]
  <2>1. PICK post \in Posts : glAccum' = [a \in Assets |->
          glAccum[a] + IF post /\ a \in plan THEN Charge(r.seen[a]) ELSE 0]
    BY DEF WriteRun
  <2>2. \A a \in Assets : Charge(r.seen[a]) \in Int
    BY <1>1, ChargeBounded
  <2> QED BY <2>1, <2>2 DEF TypeOK
<1>8. runs' \in [Months -> Nat]
  BY <1>1 DEF WriteRun, TypeOK
<1> QED BY <1>4, <1>6, <1>7, <1>8, FinishTyped DEF WriteRun, TypeOK

LEMMA TypeStep == TypeOK /\ [Next]_vars => TypeOK'
<1> SUFFICES ASSUME TypeOK, [Next]_vars PROVE TypeOK'
  OBVIOUS
<1>1. CASE UNCHANGED vars
  BY <1>1 DEF vars, TypeOK
<1>2. ASSUME NEW a \in Assets, Create(a) PROVE TypeOK'
  BY <1>2, CreateTyped
<1>3. ASSUME NEW p \in Procs, Step(p) PROVE TypeOK'
  <2>1. CASE Abort(p)
    BY <2>1, FinishTyped DEF Abort, TypeOK
  <2> QED BY <1>3, <2>1, ImprovementTyped, DisposalTyped, PlanTyped, RunTyped DEF Step
<1> QED BY <1>1, <1>2, <1>3 DEF Next

\* Tables and requests keep their types whatever requests race: what a run
\* charges is never negative, however stale the rows it was planned from.
THEOREM TypeCorrect == Spec => []TypeOK
BY TypeInit, TypeStep, PTL DEF Spec

-----------------------------------------------------------------------------
(* A month charges an asset once: the run row is unique, and a handler that *)
(* found none writes movements into an empty month.                         *)

RunsInv ==
  /\ TypeOK
  /\ OncePerMonth
  /\ \A m \in Months : runs[m] = 0 => dep[m] = {}
  /\ \A p \in Procs :
       /\ req[p].stage # "replace"
       /\ req[p].stage = "run" => ~req[p].existing

LEMMA RunsInit == Init => RunsInv
BY TypeInit DEF Init, RunsInv, OncePerMonth, Idle

LEMMA RunsRequests ==
  ASSUME RunsInv, NEW p \in Procs, NEW r, req' = [req EXCEPT ![p] = r],
         r.stage # "replace", r.stage = "run" => ~r.existing
  PROVE  \A q \in Procs : /\ req'[q].stage # "replace"
                          /\ req'[q].stage = "run" => ~req'[q].existing
BY DEF RunsInv, TypeOK

LEMMA RunsWrite ==
  ASSUME RunsInv, NEW p \in Procs, WriteRun(p)
  PROVE  OncePerMonth' /\ \A m \in Months : runs'[m] = 0 => dep'[m] = {}
<1> DEFINE r == req[p]
           plan == Planned(r.seen, r.month, r.inactive)
           new == {[asset |-> a, amount |-> Charge(r.seen[a]),
                    execution |-> runs[r.month] + 1] : a \in plan}
<1>1. r.month \in Months /\ runs[r.month] = 0 /\ dep[r.month] = {}
  BY DEF RunsInv, TypeOK, Request, WriteRun, At
<1>2. dep' = [dep EXCEPT ![r.month] = new] /\ runs' = [runs EXCEPT ![r.month] = 1]
  BY <1>1 DEF WriteRun, RunsInv, TypeOK
<1>3. \A x, y \in new : x.asset = y.asset => x = y
  OBVIOUS
<1> HIDE DEF new
<1> QED BY <1>1, <1>2, <1>3 DEF RunsInv, TypeOK, OncePerMonth

LEMMA RunsStep ==
  ASSUME TRUE \notin Repeats PROVE RunsInv /\ [Next]_vars => RunsInv'
<1> SUFFICES ASSUME RunsInv, [Next]_vars PROVE RunsInv'
  OBVIOUS
<1>0. TypeOK'
  BY TypeStep DEF RunsInv
<1> USE DEF Finish, SeeAsset, Idle
<1>1. CASE UNCHANGED vars
  BY <1>0, <1>1 DEF vars, RunsInv, OncePerMonth
<1>2. ASSUME NEW a \in Assets, Create(a) PROVE RunsInv'
  BY <1>0, <1>2 DEF Create, RunsInv, OncePerMonth
<1>3. ASSUME NEW p \in Procs, Step(p) PROVE RunsInv'
  <2>1. CASE \/ ReadForImprovement(p) \/ WriteImprovement(p) \/ ReadForDisposal(p)
             \/ WriteDisposal(p) \/ PlanRun(p) \/ Abort(p)
    <3>1. PICK r \in Request :
                    /\ req' = [req EXCEPT ![p] = r]
                    /\ r.stage \in {"idle", "improve", "dispose", "plan"}
      <4>1. CASE WriteImprovement(p) \/ WriteDisposal(p) \/ Abort(p)
        BY <4>1, IdleTyped DEF WriteImprovement, WriteDisposal, Abort
      <4>2. CASE ReadForImprovement(p) \/ ReadForDisposal(p)
        <5>1. PICK a \in Assets, stage \in {"improve", "dispose"} : SeeAsset(p, a, stage)
          BY <4>2 DEF ReadForImprovement, ReadForDisposal
        <5>2. [Idle EXCEPT !.stage = stage, !.seen = [@ EXCEPT ![a] = asset[a]]] \in Request
          BY IdleTyped DEF RunsInv, TypeOK, Request, Stages
        <5> QED BY <5>1, <5>2 DEF Request
      <4>3. CASE PlanRun(p)
        <5>1. PICK m \in Months, inactive \in BOOLEAN :
                req' = [req EXCEPT ![p] = [Idle EXCEPT !.stage = "plan", !.seen = asset,
                                             !.month = m, !.inactive = inactive]]
          BY <4>3 DEF PlanRun
        <5>2. [Idle EXCEPT !.stage = "plan", !.seen = asset, !.month = m,
                           !.inactive = inactive] \in Request
          BY IdleTyped DEF RunsInv, TypeOK, Request, Stages
        <5> QED BY <5>1, <5>2
      <4> QED BY <2>1, <4>1, <4>2, <4>3
    <3>2. UNCHANGED <<runs, dep>>
      BY <2>1 DEF ReadForImprovement, WriteImprovement, ReadForDisposal,
                  WriteDisposal, PlanRun, Abort
    <3> QED BY <1>0, <3>1, <3>2, RunsRequests DEF RunsInv, OncePerMonth
  <2>2. CASE FindRun(p)
    <3> DEFINE found == runs[req[p].month] > 0
    <3>7. ~found /\ UNCHANGED <<runs, dep>>
      BY <2>2 DEF FindRun
    <3>6. req' = [req EXCEPT ![p].stage = IF found THEN "replace" ELSE "run",
                             ![p].existing = found]
      BY <2>2 DEF FindRun
    <3>8. found \in BOOLEAN
      OBVIOUS
    <3> HIDE DEF found
    <3>1. found = FALSE /\ UNCHANGED <<runs, dep>>
      BY <3>7, <3>8
    <3>2. /\ req' = [req EXCEPT ![p] = [req[p] EXCEPT !.stage = "run", !.existing = FALSE]]
          /\ UNCHANGED <<runs, dep>>
      BY <3>1, <3>6 DEF RunsInv, TypeOK
    <3>0. req[p] \in Request
      BY DEF RunsInv, TypeOK
    <3>3. PICK r : r = [req[p] EXCEPT !.stage = "run", !.existing = FALSE]
      OBVIOUS
    <3>5. r.stage = "run" /\ ~r.existing /\ req' = [req EXCEPT ![p] = r]
      BY <3>0, <3>2, <3>3 DEF Request
    <3>4. \A q \in Procs : /\ req'[q].stage # "replace"
                           /\ req'[q].stage = "run" => ~req'[q].existing
      BY <3>5, RunsRequests
    <3> QED BY <1>0, <3>2, <3>4 DEF RunsInv, OncePerMonth
  <2>3. CASE ReplaceRun(p)
    BY <2>3 DEF ReplaceRun, At, RunsInv
  <2>4. CASE WriteRun(p)
    <3>1. req' = [req EXCEPT ![p] = Idle]
      BY <2>4 DEF WriteRun
    <3> QED BY <1>0, <2>4, <3>1, RunsWrite, RunsRequests DEF RunsInv
  <2> QED BY <1>3, <2>1, <2>2, <2>3, <2>4 DEF Step
<1> QED BY <1>1, <1>2, <1>3 DEF Next

\* Unless repeats are allowed, no race of runs charges an asset twice for a month.
THEOREM MonthChargedOnce ==
  ASSUME TRUE \notin Repeats PROVE Spec => []OncePerMonth
<1>1. RunsInv => OncePerMonth
  BY DEF RunsInv
<1> QED BY <1>1, RunsInit, RunsStep, PTL DEF Spec

-----------------------------------------------------------------------------
(* One request at a time.  What a step does to an asset is one of five      *)
(* effects, computed from the row as it is: SerialInv says that the row a   *)
(* request has read is still the one in the table.                          *)

OneAtATime == \A p, q \in Procs : p = q

Untouched(a) ==
  asset'[a] = asset[a] /\ glCost'[a] = glCost[a] /\ glAccum'[a] = glAccum[a]

Created(a) ==
  /\ asset[a].status = "ABSENT"
  /\ glAccum'[a] = glAccum[a]
  /\ \E cost \in Costs, residual \in Residuals, post \in Posts :
       /\ residual <= cost
       /\ asset'[a] \in Row
       /\ asset'[a].status = "ACTIVE"
       /\ asset'[a].cost = cost /\ asset'[a].residual = residual
       /\ asset'[a].acc = 0 /\ asset'[a].book = cost - residual
       /\ glCost'[a] = glCost[a] + IF post THEN cost ELSE 0

ImprovedBy(a) ==
  /\ InUse(a)
  /\ glAccum'[a] = glAccum[a]
  /\ \E amount \in Amounts, longer \in Extensions, more \in Increases,
        rate \in Rates \union {0}, post \in Posts :
       /\ asset'[a] = Improved(asset[a], asset[a], amount, longer, more, rate)
       /\ glCost'[a] = glCost[a] + IF post THEN amount ELSE 0

WrittenOff(a) ==
  /\ InUse(a)
  /\ \E m \in Months, post \in Posts :
       /\ asset'[a] = Disposed(asset[a], asset[a], m)
       /\ glCost'[a] = glCost[a] - IF post THEN asset[a].cost ELSE 0
       /\ glAccum'[a] = glAccum[a] - IF ~post THEN 0
            ELSE IF asset[a].acc < asset[a].cost THEN asset[a].acc ELSE asset[a].cost

Charged(a) ==
  /\ InUse(a)
  /\ Charge(asset[a]) \in Nat \ {0}
  /\ Charge(asset[a]) <= Pending(asset[a])
  /\ glCost'[a] = glCost[a]
  /\ \E m \in Months, post \in Posts :
       /\ asset'[a] = Depreciated(asset[a], asset[a], m)
       /\ glAccum'[a] = glAccum[a] + IF post THEN Charge(asset[a]) ELSE 0

Effect(a) ==
  Untouched(a) \/ Created(a) \/ ImprovedBy(a) \/ WrittenOff(a) \/ Charged(a)

Fits(r) ==
  \A a \in Assets :
    r.seen[a].status # "ABSENT" =>
      /\ r.seen[a] = asset[a]
      /\ r.stage \in {"improve", "dispose"} => InUse(a)

CostCovers == \A a \in Assets : InUse(a) => asset[a].acc <= asset[a].cost
DisposedDone == \A a \in Assets : asset[a].status = "DISPOSED" => Pending(asset[a]) = 0

SerialInv ==
  /\ TypeOK
  /\ \A p \in Procs : Fits(req[p])
  /\ CostCovers
  /\ DisposedDone

LEMMA SerialInit == Init => SerialInv
BY TypeInit DEF Init, SerialInv, Fits, CostCovers, DisposedDone, InUse, Idle, NoRow

LEMMA CreateEffect ==
  ASSUME TypeOK, NEW b \in Assets, Create(b) PROVE \A a \in Assets : Effect(a)
<1>1. PICK cost \in Costs, residual \in Residuals, life \in Lives,
           start \in Months, method \in Methods, rate \in Rates, post \in Posts :
        /\ residual <= cost
        /\ asset' = [asset EXCEPT ![b] =
             [status |-> "ACTIVE", method |-> method, cost |-> cost,
              residual |-> residual, acc |-> 0, book |-> cost - residual,
              life |-> life, start |-> start, last |-> 0,
              rate |-> IF method = "DECLINING_BALANCE" THEN rate ELSE 0]]
        /\ glCost' = [glCost EXCEPT ![b] = @ + IF post THEN cost ELSE 0]
  BY DEF Create
<1>2. \A a \in Assets \ {b} : Untouched(a)
  BY <1>1 DEF Create, TypeOK, Untouched
<1>3. asset' \in [Assets -> Row]
  BY CreateTyped DEF TypeOK
<1>4. Created(b)
  BY <1>1, <1>3 DEF Create, TypeOK, Created
<1> QED BY <1>2, <1>4 DEF Effect

LEMMA ImprovementEffect ==
  ASSUME SerialInv, NEW p \in Procs, WriteImprovement(p)
  PROVE  \A a \in Assets : Effect(a)
<1>1. PICK b \in Assets, amount \in Amounts, longer \in Extensions,
           more \in Increases, rate \in Rates \union {0}, post \in Posts :
        LET r == req[p].seen[b]
        IN  /\ r.status # "ABSENT"
            /\ r.cost + amount <= MaxCost
            /\ r.life + longer <= MaxLife
            /\ asset' = [asset EXCEPT ![b] = Improved(@, r, amount, longer, more, rate)]
            /\ glCost' = [glCost EXCEPT ![b] = @ + IF post THEN amount ELSE 0]
  BY DEF WriteImprovement
<1>2. req[p].seen[b] = asset[b] /\ InUse(b)
  BY <1>1 DEF SerialInv, Fits, WriteImprovement, At
<1>3. \A a \in Assets \ {b} : Untouched(a)
  BY <1>1 DEF WriteImprovement, SerialInv, TypeOK, Untouched
<1>4. ImprovedBy(b)
  BY <1>1, <1>2 DEF WriteImprovement, SerialInv, TypeOK, ImprovedBy
<1> QED BY <1>3, <1>4 DEF Effect

LEMMA DisposalEffect ==
  ASSUME SerialInv, NEW p \in Procs, WriteDisposal(p)
  PROVE  \A a \in Assets : Effect(a)
<1>1. PICK b \in Assets, m \in Months, post \in Posts :
        LET r == req[p].seen[b]
        IN  /\ r.status # "ABSENT"
            /\ asset' = [asset EXCEPT ![b] = Disposed(@, r, m)]
            /\ glCost' = [glCost EXCEPT ![b] = @ - IF post THEN r.cost ELSE 0]
            /\ glAccum' = [glAccum EXCEPT ![b] =
                 @ - IF ~post THEN 0 ELSE IF r.acc < r.cost THEN r.acc ELSE r.cost]
  BY DEF WriteDisposal
<1>2. req[p].seen[b] = asset[b] /\ InUse(b)
  BY <1>1 DEF SerialInv, Fits, WriteDisposal, At
<1>3. \A a \in Assets \ {b} : Untouched(a)
  BY <1>1 DEF SerialInv, TypeOK, Untouched
<1>4. WrittenOff(b)
  BY <1>1, <1>2 DEF SerialInv, TypeOK, WrittenOff
<1> QED BY <1>3, <1>4 DEF Effect

LEMMA RunEffect ==
  ASSUME SerialInv, NEW p \in Procs, WriteRun(p)
  PROVE  \A a \in Assets : Effect(a)
<1> DEFINE r == req[p]
           m == r.month
           plan == Planned(r.seen, m, r.inactive)
<1>1. /\ r.seen \in [Assets -> Row] /\ m \in Months /\ r.inactive \in BOOLEAN
      /\ asset \in [Assets -> Row]
  BY DEF SerialInv, TypeOK, Request
<1>2. PICK post \in Posts : glAccum' = [a \in Assets |->
        glAccum[a] + IF post /\ a \in plan THEN Charge(r.seen[a]) ELSE 0]
  BY DEF WriteRun
<1>3. ASSUME NEW a \in Assets, a \in plan PROVE Effect(a)
  <2>1. /\ r.seen[a].status # "ABSENT" /\ Charge(r.seen[a]) \in Nat \ {0}
        /\ Charge(r.seen[a]) <= Pending(r.seen[a]) /\ Pending(r.seen[a]) \in Int
    BY <1>1, <1>3, PlannedCharges
  <2>2. r.seen[a] = asset[a]
    BY <2>1 DEF SerialInv, Fits
  <2>3. asset[a].status # "DISPOSED"
    BY <2>1, <2>2 DEF SerialInv, DisposedDone
  <2>4. InUse(a)
    <3>1. asset[a].status \in {"ABSENT", "ACTIVE", "INACTIVE", "DISPOSED"}
      BY <1>1 DEF Row
    <3> QED BY <2>1, <2>2, <2>3, <3>1 DEF InUse
  <2>5. asset'[a] = Depreciated(asset[a], asset[a], m) /\ glCost' = glCost
    BY <1>3, <2>2 DEF WriteRun
  <2>6. glAccum'[a] = glAccum[a] + IF post THEN Charge(asset[a]) ELSE 0
    BY <1>2, <1>3, <2>2
  <2>7. Charge(asset[a]) \in Nat \ {0} /\ Charge(asset[a]) <= Pending(asset[a])
    BY <2>1, <2>2
  <2> QED BY <1>1, <2>4, <2>5, <2>6, <2>7 DEF Charged, Effect
<1>4. ASSUME NEW a \in Assets, a \notin plan PROVE Effect(a)
  <2>1. asset'[a] = asset[a] /\ glCost' = glCost
    BY <1>4 DEF WriteRun
  <2>2. glAccum'[a] = glAccum[a]
    BY <1>2, <1>4 DEF SerialInv, TypeOK
  <2> QED BY <2>1, <2>2 DEF Untouched, Effect
<1> QED BY <1>3, <1>4

\* Every step is one of the five effects on each asset.
LEMMA StepEffect ==
  ASSUME SerialInv, [Next]_vars PROVE \A a \in Assets : Effect(a)
<1>1. CASE UNCHANGED vars
  BY <1>1 DEF vars, Effect, Untouched
<1>2. ASSUME NEW b \in Assets, Create(b) PROVE \A a \in Assets : Effect(a)
  BY <1>2, CreateEffect DEF SerialInv
<1>3. ASSUME NEW p \in Procs, Step(p) PROVE \A a \in Assets : Effect(a)
  <2>1. CASE ReadForImprovement(p) \/ ReadForDisposal(p) \/ PlanRun(p) \/ FindRun(p)
             \/ ReplaceRun(p) \/ Abort(p)
    BY <2>1 DEF ReadForImprovement, ReadForDisposal, PlanRun, FindRun, ReplaceRun, Abort,
                Effect, Untouched
  <2> QED BY <1>3, <2>1, ImprovementEffect, DisposalEffect, RunEffect DEF Step
<1> QED BY <1>1, <1>2, <1>3 DEF Next

\* What a request has read stays current while it is the only one.
LEMMA FitsStep ==
  ASSUME OneAtATime, SerialInv, [Next]_vars, TypeOK'
  PROVE  \A p \in Procs : Fits(req[p])'
<1>0. \A a \in Assets : Idle.seen[a].status = "ABSENT"
  BY DEF Idle, NoRow
<1>1. CASE UNCHANGED vars
  BY <1>1 DEF vars, SerialInv, Fits, InUse
<1>2. ASSUME NEW b \in Assets, Create(b) PROVE \A p \in Procs : Fits(req[p])'
  <2>1. /\ asset[b].status = "ABSENT" /\ req' = req
        /\ \A a \in Assets \ {b} : asset'[a] = asset[a]
    BY <1>2 DEF Create, SerialInv, TypeOK
  <2> QED BY <2>1 DEF SerialInv, Fits, InUse
<1>3. ASSUME NEW p \in Procs, Step(p) PROVE \A q \in Procs : Fits(req[q])'
  <2>0. SUFFICES Fits(req[p])'
    BY DEF OneAtATime
  <2>1. CASE WriteImprovement(p) \/ WriteDisposal(p) \/ WriteRun(p) \/ Abort(p)
    <3>1. req'[p] = Idle
      BY <2>1 DEF WriteImprovement, WriteDisposal, WriteRun, Abort, Finish, SerialInv, TypeOK
    <3> QED BY <1>0, <3>1 DEF Fits
  <2>2. CASE ReadForImprovement(p) \/ ReadForDisposal(p)
    <3>1. PICK b \in Assets, stage \in {"improve", "dispose"} :
            InUse(b) /\ SeeAsset(p, b, stage)
      BY <2>2 DEF ReadForImprovement, ReadForDisposal, InUse
    <3>2. asset' = asset
      BY <2>2 DEF ReadForImprovement, ReadForDisposal
    <3>3. req'[p].seen = [Idle.seen EXCEPT ![b] = asset[b]]
      BY <3>1 DEF SeeAsset, SerialInv, TypeOK, Idle
    <3>4. \A a \in Assets : a # b => req'[p].seen[a].status = "ABSENT"
      BY <1>0, <3>3 DEF Idle
    <3>5. req'[p].seen[b] = asset[b]
      BY <3>3 DEF Idle
    <3> QED BY <3>1, <3>2, <3>4, <3>5 DEF Fits, InUse
  <2>3. CASE PlanRun(p)
    <3>1. req'[p].seen = asset /\ req'[p].stage = "plan" /\ asset' = asset
      BY <2>3 DEF PlanRun, SerialInv, TypeOK, Idle
    <3> QED BY <3>1 DEF Fits
  <2>4. CASE FindRun(p)
    <3>0. req[p] \in Request
      BY DEF SerialInv, TypeOK
    <3>1. req'[p].seen = req[p].seen /\ req'[p].stage \in {"run", "replace"} /\ asset' = asset
      BY <2>4, <3>0 DEF FindRun, SerialInv, TypeOK, Request
    <3> QED BY <3>1 DEF Fits, SerialInv
  <2>5. CASE ReplaceRun(p)
    <3>0. req[p] \in Request
      BY DEF SerialInv, TypeOK
    <3>1. req'[p].seen = req[p].seen /\ req'[p].stage = "run" /\ asset' = asset
      BY <2>5, <3>0 DEF ReplaceRun, SerialInv, TypeOK, Request
    <3> QED BY <3>1 DEF Fits, SerialInv
  <2> QED BY <1>3, <2>1, <2>2, <2>3, <2>4, <2>5 DEF Step
<1> QED BY <1>1, <1>2, <1>3 DEF Next

-----------------------------------------------------------------------------
(* The totals after each effect. *)

LEMMA RowFields ==
  ASSUME NEW r \in Row
  PROVE  /\ r.cost \in Nat /\ r.residual \in Nat /\ r.acc \in Int /\ r.book \in Int
         /\ r.life \in Nat \ {0}
         /\ r.status \in {"ABSENT", "ACTIVE", "INACTIVE", "DISPOSED"}
BY DEF Row

LEMMA ImprovedTotals ==
  ASSUME SerialInv, NEW a \in Assets, ImprovedBy(a)
  PROVE  /\ InUse(a)' /\ asset'[a].acc = asset[a].acc /\ glAccum'[a] = glAccum[a]
         /\ \E amount \in Nat \ {0}, more \in Increases, post \in Posts :
              /\ asset'[a].cost = asset[a].cost + amount
              /\ asset'[a].book = asset[a].book + amount
              /\ asset'[a].residual = asset[a].residual + more
              /\ glCost'[a] = glCost[a] + IF post THEN amount ELSE 0
<1>0. asset[a] \in Row
  BY DEF SerialInv, TypeOK
<1>1. PICK amount \in Amounts, longer \in Extensions, more \in Increases,
           rate \in Rates \union {0}, post \in Posts :
        /\ asset'[a] = Improved(asset[a], asset[a], amount, longer, more, rate)
        /\ glCost'[a] = glCost[a] + IF post THEN amount ELSE 0
  BY DEF ImprovedBy
<1>2. amount \in Nat \ {0} /\ more \in Nat
  BY ConstantsAssumption
<1>3. /\ asset'[a].cost = asset[a].cost + amount
      /\ asset'[a].book = asset[a].book + amount
      /\ asset'[a].residual = asset[a].residual + more
      /\ asset'[a].acc = asset[a].acc /\ asset'[a].status = asset[a].status
  BY <1>0, <1>1, <1>2 DEF Improved, Row
<1> QED BY <1>1, <1>2, <1>3 DEF ImprovedBy, InUse

LEMMA WrittenOffTotals ==
  ASSUME SerialInv, NEW a \in Assets, WrittenOff(a)
  PROVE  /\ asset'[a].status = "DISPOSED" /\ asset'[a].acc = Base(asset[a])
         /\ asset'[a].cost = asset[a].cost /\ asset'[a].residual = asset[a].residual
<1>0. asset[a] \in Row
  BY DEF SerialInv, TypeOK
<1> QED BY <1>0 DEF WrittenOff, Disposed, Row

LEMMA ChargedTotals ==
  ASSUME SerialInv, NEW a \in Assets, Charged(a)
  PROVE  /\ InUse(a)' /\ glCost'[a] = glCost[a]
         /\ asset'[a].cost = asset[a].cost /\ asset'[a].residual = asset[a].residual
         /\ asset'[a].acc = asset[a].acc + Charge(asset[a])
         /\ asset'[a].book = asset[a].book - Charge(asset[a])
         /\ \E post \in Posts :
              glAccum'[a] = glAccum[a] + IF post THEN Charge(asset[a]) ELSE 0
<1>0. asset[a] \in Row
  BY DEF SerialInv, TypeOK
<1>1. PICK m \in Months, post \in Posts :
        /\ asset'[a] = Depreciated(asset[a], asset[a], m)
        /\ glAccum'[a] = glAccum[a] + IF post THEN Charge(asset[a]) ELSE 0
  BY DEF Charged
<1>2. /\ asset'[a].cost = asset[a].cost /\ asset'[a].residual = asset[a].residual
      /\ asset'[a].acc = asset[a].acc + Charge(asset[a])
      /\ asset'[a].book = asset[a].book - Charge(asset[a])
      /\ asset'[a].status \in {"INACTIVE", asset[a].status}
  BY <1>0, <1>1 DEF Depreciated, Row
<1> QED BY <1>1, <1>2 DEF Charged, InUse

LEMMA CreatedTotals ==
  ASSUME SerialInv, NEW a \in Assets, Created(a)
  PROVE  /\ InUse(a)' /\ glAccum'[a] = glAccum[a] /\ asset'[a].acc = 0
         /\ asset'[a].residual \in Nat /\ asset'[a].residual <= asset'[a].cost
         /\ asset'[a].book = asset'[a].cost - asset'[a].residual
         /\ asset'[a].cost \in Nat
         /\ \E post \in Posts :
              glCost'[a] = glCost[a] + IF post THEN asset'[a].cost ELSE 0
BY ConstantsAssumption DEF Created, InUse

-----------------------------------------------------------------------------
LEMMA SerialStep ==
  ASSUME OneAtATime PROVE SerialInv /\ [Next]_vars => SerialInv'
<1> SUFFICES ASSUME SerialInv, [Next]_vars PROVE SerialInv'
  OBVIOUS
<1>1. TypeOK'
  BY TypeStep DEF SerialInv
<1>2. ASSUME NEW a \in Assets
      PROVE  /\ InUse(a)' => asset'[a].acc <= asset'[a].cost
             /\ asset'[a].status = "DISPOSED" => Pending(asset'[a]) = 0
  <2>0. /\ asset[a] \in Row /\ asset'[a] \in Row
        /\ asset[a].cost \in Nat /\ asset[a].residual \in Nat /\ asset[a].acc \in Int
    BY <1>1, RowFields DEF SerialInv, TypeOK
  <2>1. CASE Untouched(a)
    BY <2>1 DEF Untouched, SerialInv, CostCovers, DisposedDone, InUse
  <2>2. CASE Created(a)
    BY <2>2, CreatedTotals DEF InUse
  <2>3. CASE ImprovedBy(a)
    <3>1. asset[a].acc <= asset[a].cost
      BY <2>3 DEF ImprovedBy, SerialInv, CostCovers
    <3> QED BY <2>0, <2>3, <3>1, ImprovedTotals DEF InUse
  <2>4. CASE WrittenOff(a)
    BY <2>0, <2>4, WrittenOffTotals DEF InUse, Pending, Base
  <2>5. CASE Charged(a)
    <3>1. Charge(asset[a]) \in Nat /\ Charge(asset[a]) <= Pending(asset[a])
      BY <2>5 DEF Charged
    <3>2. asset[a].acc + Charge(asset[a]) <= asset[a].cost
      BY <2>0, <3>1 DEF Pending, Base
    <3> QED BY <2>5, <3>2, ChargedTotals DEF InUse
  <2> QED BY <2>1, <2>2, <2>3, <2>4, <2>5, StepEffect DEF Effect
<1> QED BY <1>1, <1>2, FitsStep DEF SerialInv, CostCovers, DisposedDone

\* One request at a time, the entries of an asset add up to its totals and to
\* nothing once it is disposed of, for any residual increases and repeats.
THEOREM LedgerFollowsAssets ==
  ASSUME OneAtATime, Posts = {TRUE} PROVE Spec => []LedgerAgrees
<1>1. Init => LedgerAgrees
  BY DEF Init, LedgerAgrees, InUse, NoRow
<1>2. SerialInv /\ LedgerAgrees /\ [Next]_vars => LedgerAgrees'
  <2> SUFFICES ASSUME SerialInv, LedgerAgrees, [Next]_vars, NEW a \in Assets
               PROVE  /\ glCost'[a] = IF InUse(a)' THEN asset'[a].cost ELSE 0
                      /\ glAccum'[a] = IF InUse(a)' THEN asset'[a].acc ELSE 0
    BY DEF LedgerAgrees
  <2>0. /\ asset[a] \in Row /\ glCost[a] \in Int /\ glAccum[a] \in Int
        /\ asset[a].cost \in Nat /\ asset[a].acc \in Int
        /\ glCost[a] = IF InUse(a) THEN asset[a].cost ELSE 0
        /\ glAccum[a] = IF InUse(a) THEN asset[a].acc ELSE 0
    BY RowFields DEF SerialInv, TypeOK, LedgerAgrees
  <2>1. CASE Untouched(a)
    BY <2>0, <2>1 DEF Untouched, InUse
  <2>2. CASE Created(a)
    <3>1. glCost[a] = 0 /\ glAccum[a] = 0
      BY <2>0, <2>2 DEF Created, InUse
    <3> QED BY <2>2, <3>1, CreatedTotals
  <2>3. CASE ImprovedBy(a)
    <3>1. InUse(a)
      BY <2>3 DEF ImprovedBy
    <3> QED BY <2>0, <2>3, <3>1, ImprovedTotals
  <2>4. CASE WrittenOff(a)
    <3>1. InUse(a) /\ asset[a].acc <= asset[a].cost
      BY <2>4 DEF WrittenOff, SerialInv, CostCovers
    <3>2. glCost'[a] = 0 /\ glAccum'[a] = 0
      BY <2>0, <2>4, <3>1 DEF WrittenOff
    <3> QED BY <2>4, <3>2, WrittenOffTotals DEF InUse
  <2>5. CASE Charged(a)
    <3>1. InUse(a)
      BY <2>5 DEF Charged
    <3> QED BY <2>0, <2>5, <3>1, ChargedTotals
  <2> QED BY <2>1, <2>2, <2>3, <2>4, <2>5, StepEffect DEF Effect
<1> QED BY <1>1, <1>2, SerialInit, SerialStep, PTL DEF Spec

\* One request at a time and without residual increases, depreciation stops at
\* the residual value, and bookValue is what is left to depreciate.
THEOREM DepreciationStops ==
  ASSUME OneAtATime, Increases \subseteq {0}
  PROVE  Spec => [](NeverBelowResidual /\ BookIsPending)
<1> DEFINE Stops == NeverBelowResidual /\ BookIsPending
<1>1. Init => Stops
  BY DEF Init, NeverBelowResidual, BookIsPending, InUse, NoRow, Pending, Base
<1>2. SerialInv /\ Stops /\ [Next]_vars => Stops'
  <2> SUFFICES ASSUME SerialInv, Stops, [Next]_vars, NEW a \in Assets
               PROVE  /\ 0 <= asset'[a].acc /\ 0 <= Pending(asset'[a])
                      /\ InUse(a)' => asset'[a].book = Pending(asset'[a])
    BY DEF NeverBelowResidual, BookIsPending
  <2>0. /\ asset[a].cost \in Nat /\ asset[a].residual \in Nat /\ asset[a].acc \in Int
        /\ asset[a].book \in Int
        /\ 0 <= asset[a].acc /\ 0 <= Pending(asset[a])
        /\ InUse(a) => asset[a].book = Pending(asset[a])
    BY RowFields DEF SerialInv, TypeOK, NeverBelowResidual, BookIsPending
  <2>1. CASE Untouched(a)
    BY <2>0, <2>1 DEF Untouched, InUse
  <2>2. CASE Created(a)
    BY <2>2, CreatedTotals DEF Pending, Base
  <2>3. CASE ImprovedBy(a)
    <3>1. InUse(a)
      BY <2>3 DEF ImprovedBy
    <3>2. \A more \in Increases : more = 0
      OBVIOUS
    <3> QED BY <2>0, <2>3, <3>1, <3>2, ImprovedTotals DEF Pending, Base
  <2>4. CASE WrittenOff(a)
    BY <2>0, <2>4, WrittenOffTotals DEF InUse, Pending, Base
  <2>5. CASE Charged(a)
    <3>1. InUse(a) /\ Charge(asset[a]) \in Nat /\ Charge(asset[a]) <= Pending(asset[a])
      BY <2>5 DEF Charged
    <3> QED BY <2>0, <2>5, <3>1, ChargedTotals DEF Pending, Base
  <2> QED BY <2>1, <2>2, <2>3, <2>4, <2>5, StepEffect DEF Effect
<1> HIDE DEF Stops
<1>3. Spec => []Stops
  BY <1>1, <1>2, SerialInit, SerialStep, PTL DEF Spec
<1>4. Stops => NeverBelowResidual /\ BookIsPending
  BY DEF Stops
<1> QED BY <1>3, <1>4, PTL

\* One request at a time, nothing changes a disposed asset: the runs charge only
\* what is pending, and a disposal leaves nothing pending.
THEOREM DisposedStaysDisposed ==
  ASSUME OneAtATime PROVE Spec => DisposedIsFinal
<1>1. SerialInv /\ [Next]_vars => [KeepsDisposed]_asset
  <2> SUFFICES ASSUME SerialInv, [Next]_vars, NEW a \in Assets, asset[a].status = "DISPOSED"
               PROVE  asset'[a] = asset[a]
    BY DEF KeepsDisposed
  <2> QED BY StepEffect DEF Effect, Untouched, Created, ImprovedBy, WrittenOff, Charged, InUse
<1> QED BY <1>1, SerialInit, SerialStep, PTL DEF Spec, DisposedIsFinal

-----------------------------------------------------------------------------
(* The movements of the runs.  A month no run wrote has no movements, an    *)
(* asset that is not there yet has none, and while no month has more than   *)
(* one execution a run writes its movements into an empty month.            *)

MovementsInv ==
  \A m \in Months :
    /\ IsFiniteSet(dep[m])
    /\ runs[m] = 0 => dep[m] = {}
    /\ \A x \in dep[m] : asset[x.asset].status # "ABSENT"

LEMMA MonthsFinite == IsFiniteSet(Months)
<1>1. 1 \in Int /\ LastMonth \in Int
  BY ConstantsAssumption
<1> QED BY <1>1, FS_Interval DEF Months

\* A movement for each asset of the plan, and no other.
Charges(new, plan, charge) ==
  /\ IsFiniteSet(new)
  /\ \A x \in new : x.asset \in plan /\ x.amount = charge[x.asset]
  /\ \A x, y \in new : x.asset = y.asset => x = y
  /\ \A a \in plan : \E x \in new : x.asset = a
  /\ \A a \in plan : charge[a] \in Nat

\* The sum of the movements of an asset is then that of its one movement, or zero.
LEMMA OneMovement ==
  ASSUME NEW plan, NEW charge, NEW new, Charges(new, plan, charge), NEW b
  PROVE  SumFunction([x \in new |-> IF x.asset = b THEN x.amount ELSE 0])
           = IF b \in plan THEN charge[b] ELSE 0
<1> DEFINE f == [x \in new |-> IF x.asset = b THEN x.amount ELSE 0]
<1>1. SumFunction(f) = SumFunctionOnSet(f, new)
  BY DEF SumFunction
<1>2. \A x \in new : f[x] \in Int
  BY DEF Charges
<1>3. CASE b \in plan
  <2>1. PICK one \in new : one.asset = b
    BY <1>3 DEF Charges
  <2>2. f[one] = charge[b] /\ charge[b] \in Int
    BY <1>3, <2>1 DEF Charges
  <2>3. \A x \in new \ {one} : f[x] = 0
    BY <2>1 DEF Charges
  <2>4. IsFiniteSet(new) /\ IsFiniteSet(new \ {one})
    BY FS_RemoveElement DEF Charges
  <2> HIDE DEF f
  <2>5. SumFunctionOnSet(f, new) = f[one] + SumFunctionOnSet(f, new \ {one})
    BY <1>2, <2>4, SumPick
  <2>6. SumFunctionOnSet(f, new \ {one}) = 0
    BY <2>3, <2>4, SumZero
  <2> QED BY <1>1, <1>3, <2>2, <2>5, <2>6 DEF f
<1>4. CASE b \notin plan
  <2>1. IsFiniteSet(new) /\ \A x \in new : f[x] = 0
    BY <1>4 DEF Charges
  <2> HIDE DEF f
  <2> QED BY <1>1, <1>4, <2>1, SumZero DEF f
<1> QED BY <1>3, <1>4

\* Every step but the write of a run.
LEMMA OtherSteps ==
  ASSUME SerialInv, [Next]_vars, \A p \in Procs : ~WriteRun(p)
  PROVE  /\ UNCHANGED <<runs, dep>>
         /\ \A a \in Assets : InUse(a)' =>
              \/ InUse(a) /\ asset'[a].acc = asset[a].acc
              \/ asset[a].status = "ABSENT" /\ asset'[a].acc = 0
<1>1. CASE UNCHANGED vars
  BY <1>1 DEF vars, InUse
<1>2. ASSUME NEW b \in Assets, Create(b)
      PROVE  /\ UNCHANGED <<runs, dep>>
             /\ \A a \in Assets : InUse(a)' =>
                  \/ InUse(a) /\ asset'[a].acc = asset[a].acc
                  \/ asset[a].status = "ABSENT" /\ asset'[a].acc = 0
  <2>1. PICK cost \in Costs, residual \in Residuals, life \in Lives,
             start \in Months, method \in Methods, rate \in Rates :
          asset' = [asset EXCEPT ![b] =
            [status |-> "ACTIVE", method |-> method, cost |-> cost,
             residual |-> residual, acc |-> 0, book |-> cost - residual,
             life |-> life, start |-> start, last |-> 0,
             rate |-> IF method = "DECLINING_BALANCE" THEN rate ELSE 0]]
    BY <1>2 DEF Create
  <2> QED BY <1>2, <2>1 DEF Create, SerialInv, TypeOK, InUse
<1>3. ASSUME NEW p \in Procs, Step(p)
      PROVE  /\ UNCHANGED <<runs, dep>>
             /\ \A a \in Assets : InUse(a)' =>
                  \/ InUse(a) /\ asset'[a].acc = asset[a].acc
                  \/ asset[a].status = "ABSENT" /\ asset'[a].acc = 0
  <2>1. CASE ReadForImprovement(p) \/ ReadForDisposal(p) \/ PlanRun(p) \/ FindRun(p)
             \/ ReplaceRun(p) \/ Abort(p)
    BY <2>1 DEF ReadForImprovement, ReadForDisposal, PlanRun, FindRun, ReplaceRun, Abort,
                InUse
  <2>2. CASE WriteImprovement(p)
    <3>1. PICK b \in Assets, amount \in Amounts, longer \in Extensions,
               more \in Increases, rate \in Rates \union {0} :
            asset' = [asset EXCEPT ![b] =
              Improved(@, req[p].seen[b], amount, longer, more, rate)]
      BY <2>2 DEF WriteImprovement
    <3>2. asset[b] \in Row
      BY DEF SerialInv, TypeOK
    <3>3. /\ Improved(asset[b], req[p].seen[b], amount, longer, more, rate).acc = asset[b].acc
          /\ Improved(asset[b], req[p].seen[b], amount, longer, more, rate).status
               = asset[b].status
      BY <3>2 DEF Improved, Row
    <3>4. UNCHANGED <<runs, dep>>
      BY <2>2 DEF WriteImprovement
    <3> QED BY <3>1, <3>3, <3>4 DEF SerialInv, TypeOK, InUse
  <2>3. CASE WriteDisposal(p)
    <3>1. PICK b \in Assets, m \in Months :
            asset' = [asset EXCEPT ![b] = Disposed(@, req[p].seen[b], m)]
      BY <2>3 DEF WriteDisposal
    <3>2. asset[b] \in Row
      BY DEF SerialInv, TypeOK
    <3>3. Disposed(asset[b], req[p].seen[b], m).status = "DISPOSED"
      BY <3>2 DEF Disposed, Row
    <3>4. UNCHANGED <<runs, dep>>
      BY <2>3 DEF WriteDisposal
    <3> QED BY <3>1, <3>3, <3>4 DEF SerialInv, TypeOK, InUse
  <2> QED BY <1>3, <2>1, <2>2, <2>3 DEF Step
<1> QED BY <1>1, <1>2, <1>3 DEF Next

LEMMA StaysThere ==
  ASSUME SerialInv, [Next]_vars, NEW a \in Assets, asset[a].status # "ABSENT"
  PROVE  asset'[a].status # "ABSENT"
<1>1. CASE Untouched(a)
  BY <1>1 DEF Untouched
<1>2. CASE Created(a)
  BY <1>2 DEF Created
<1>3. CASE ImprovedBy(a)
  BY <1>3, ImprovedTotals DEF InUse
<1>4. CASE WrittenOff(a)
  BY <1>4, WrittenOffTotals
<1>5. CASE Charged(a)
  BY <1>5, ChargedTotals DEF InUse
<1> QED BY <1>1, <1>2, <1>3, <1>4, <1>5, StepEffect DEF Effect

\* What the write of a run does, as far as the movements see it.
LEMMA RunWritten ==
  ASSUME SerialInv, MovementsInv, NEW p \in Procs, WriteRun(p)
  PROVE  LET m == req[p].month
             plan == Planned(req[p].seen, m, req[p].inactive)
             charge == [a \in plan |-> Charge(req[p].seen[a])]
             new == {[asset |-> a, amount |-> charge[a], execution |-> runs[m] + 1] : a \in plan}
         IN  /\ m \in Months /\ runs[m] \in Nat
             /\ plan \subseteq Assets /\ Charges(new, plan, charge)
             /\ \A a \in plan : asset[a].status # "ABSENT" /\ InUse(a)
             /\ runs' = [runs EXCEPT ![m] = runs[m] + 1]
             /\ dep' = [dep EXCEPT ![m] = (dep[m] \ req[p].old) \union new]
             /\ \A a \in Assets \ plan : asset'[a] = asset[a]
             /\ \A a \in plan : asset'[a].acc = asset[a].acc + charge[a]
<1> DEFINE r == req[p]
           m == r.month
           plan == Planned(r.seen, m, r.inactive)
           charge == [a \in plan |-> Charge(r.seen[a])]
           one == [a \in plan |->
                     [asset |-> a, amount |-> charge[a], execution |-> runs[m] + 1]]
           new == {[asset |-> a, amount |-> charge[a], execution |-> runs[m] + 1] : a \in plan}
<1>1. /\ r.seen \in [Assets -> Row] /\ m \in Months /\ r.inactive \in BOOLEAN
      /\ asset \in [Assets -> Row] /\ runs[m] \in Nat
      /\ runs \in [Months -> Nat] /\ dep \in [Months -> SUBSET Movement]
  BY DEF SerialInv, TypeOK, Request
<1>2. plan \subseteq Assets
  BY DEF Planned, Candidates
<1>3. IsFiniteSet(plan)
  BY <1>2, ConstantsAssumption, FS_Subset
<1>4. IsFiniteSet(new)
  <2>1. {one[a] : a \in plan} = new
    OBVIOUS
  <2> HIDE DEF one, new, plan
  <2>2. IsFiniteSet({one[a] : a \in plan})
    BY <1>3, ImageFinite
  <2> QED BY <2>1, <2>2
<1>5. ASSUME NEW a \in plan
      PROVE  /\ charge[a] \in Nat /\ asset[a].status # "ABSENT" /\ InUse(a)
             /\ asset'[a].acc = asset[a].acc + charge[a]
  <2>1. /\ a \in Assets /\ r.seen[a].status # "ABSENT" /\ Charge(r.seen[a]) \in Nat \ {0}
        /\ Charge(r.seen[a]) <= Pending(r.seen[a]) /\ Pending(r.seen[a]) \in Int
    BY <1>1, PlannedCharges
  <2>2. r.seen[a] = asset[a]
    BY <2>1 DEF SerialInv, Fits
  <2>3. InUse(a)
    <3>1. asset[a].status # "DISPOSED"
      BY <2>1, <2>2 DEF SerialInv, DisposedDone
    <3>2. asset[a].status \in {"ABSENT", "ACTIVE", "INACTIVE", "DISPOSED"}
      BY <1>1, <2>1, RowFields
    <3> QED BY <2>1, <2>2, <3>1, <3>2 DEF InUse
  <2>4. asset'[a] = Depreciated(asset[a], asset[a], m)
    BY <2>1, <2>2 DEF WriteRun
  <2>5. asset'[a].acc = asset[a].acc + Charge(asset[a])
    <3>1. asset[a] \in Row
      BY <1>1, <2>1
    <3> QED BY <2>4, <3>1 DEF Depreciated, Row
  <2> QED BY <2>1, <2>2, <2>3, <2>5
<1>6. \A a \in Assets \ plan : asset'[a] = asset[a]
  BY DEF WriteRun
<1>7. /\ runs' = [runs EXCEPT ![m] = runs[m] + 1]
      /\ dep' = [dep EXCEPT ![m] = (dep[m] \ r.old) \union new]
  <2>1. {[asset |-> a, amount |-> Charge(r.seen[a]), execution |-> runs[m] + 1] : a \in plan}
          = new
    OBVIOUS
  <2> QED BY <2>1, <1>1 DEF WriteRun
<1>8. Charges(new, plan, charge)
  <2>1. /\ \A x \in new : x.asset \in plan /\ x.amount = charge[x.asset]
        /\ \A x, y \in new : x.asset = y.asset => x = y
    OBVIOUS
  <2>2. \A a \in plan : one[a] \in new /\ one[a].asset = a
    OBVIOUS
  <2>3. \A a \in plan : \E x \in new : x.asset = a
    BY <2>2, Zenon
  <2> QED BY <1>4, <1>5, <2>1, <2>3 DEF Charges
<1> QED BY <1>1, <1>2, <1>5, <1>6, <1>7, <1>8

LEMMA MovementsStep ==
  ASSUME SerialInv, MovementsInv, [Next]_vars PROVE MovementsInv'
<1>1. CASE \A p \in Procs : ~WriteRun(p)
  <2>1. UNCHANGED <<runs, dep>>
    BY <1>1, OtherSteps
  <2>2. \A m \in Months : \A x \in dep[m] : x.asset \in Assets
    BY DEF SerialInv, TypeOK, Movement
  <2> QED BY <2>1, <2>2, StaysThere DEF MovementsInv
<1>2. ASSUME NEW p \in Procs, WriteRun(p) PROVE MovementsInv'
  <2> DEFINE m == req[p].month
             plan == Planned(req[p].seen, m, req[p].inactive)
             charge == [a \in plan |-> Charge(req[p].seen[a])]
             new == {[asset |-> a, amount |-> charge[a], execution |-> runs[m] + 1] : a \in plan}
  <2>1. /\ m \in Months /\ runs[m] \in Nat
        /\ plan \subseteq Assets /\ Charges(new, plan, charge)
        /\ \A a \in plan : asset[a].status # "ABSENT"
        /\ runs' = [runs EXCEPT ![m] = runs[m] + 1]
        /\ dep' = [dep EXCEPT ![m] = (dep[m] \ req[p].old) \union new]
    BY <1>2, RunWritten
  <2>2. IsFiniteSet(new) /\ \A x \in new : x.asset \in plan
    BY <2>1 DEF Charges
  <2> HIDE DEF m, plan, new
  <2>3. runs \in [Months -> Nat] /\ dep \in [Months -> SUBSET Movement]
    BY DEF SerialInv, TypeOK
  <2> SUFFICES ASSUME NEW k \in Months
               PROVE  /\ IsFiniteSet(dep'[k])
                      /\ runs'[k] = 0 => dep'[k] = {}
                      /\ \A x \in dep'[k] : asset'[x.asset].status # "ABSENT"
    BY DEF MovementsInv
  <2>4. \A x \in dep[k] : x.asset \in Assets
    BY <2>3 DEF Movement
  <2>5. CASE k # m
    <3>1. runs'[k] = runs[k] /\ dep'[k] = dep[k]
      BY <2>1, <2>3, <2>5
    <3> QED BY <2>4, <3>1, StaysThere DEF MovementsInv
  <2>6. CASE k = m
    <3>1. runs'[k] = runs[k] + 1 /\ dep'[k] = (dep[k] \ req[p].old) \union new
      BY <2>1, <2>3, <2>6
    <3>2. IsFiniteSet(dep[k] \ req[p].old)
      BY FS_Difference DEF MovementsInv
    <3>3. IsFiniteSet(dep'[k])
      <4> DEFINE left == dep[k] \ req[p].old
      <4>1. IsFiniteSet(left) /\ IsFiniteSet(new)
        BY <2>2, <3>2
      <4> HIDE DEF left
      <4>2. IsFiniteSet(left \union new)
        BY <4>1, FS_Union
      <4> QED BY <3>1, <4>2 DEF left
    <3>4. runs'[k] # 0
      BY <2>1, <2>6, <3>1
    <3>5. \A x \in dep'[k] : asset'[x.asset].status # "ABSENT"
      BY <2>1, <2>2, <2>4, <3>1, StaysThere DEF MovementsInv
    <3> QED BY <3>3, <3>4, <3>5
  <2> QED BY <2>5, <2>6
<1> QED BY <1>1, <1>2

\* One request at a time, what an asset accumulated is what the movements of the
\* runs say of it, as long as no month was run twice: improvements, disposals,
\* stale plans and aborted runs leave the two together.
THEOREM MovementsExplainAccumulated ==
  ASSUME OneAtATime PROVE Spec => []AccumulatedIsMovements
<1> DEFINE Once == \A m \in Months : runs[m] <= 1
           Sum(a) == SumFunction([m \in Months |-> ChargedIn(m, a)])
<1>1. ASSUME SerialInv, MovementsInv
      PROVE  \A m \in Months, a \in Assets : ChargedIn(m, a) \in Int
  <2> TAKE m \in Months, a \in Assets
  <2> DEFINE f == [x \in dep[m] |-> IF x.asset = a THEN x.amount ELSE 0]
  <2>1. IsFiniteSet(dep[m]) /\ \A x \in dep[m] : f[x] \in Int
    BY <1>1 DEF MovementsInv, SerialInv, TypeOK, Movement
  <2>2. DOMAIN f = dep[m]
    OBVIOUS
  <2> HIDE DEF f
  <2>3. SumFunctionOnSet(f, dep[m]) \in Int
    BY <2>1, SumType
  <2> QED BY <2>2, <2>3 DEF ChargedIn, SumFunction, f
<1>2. ASSUME MovementsInv, NEW m \in Months, NEW a, asset[a].status = "ABSENT" \/ dep[m] = {}
      PROVE  ChargedIn(m, a) = 0
  <2> DEFINE f == [x \in dep[m] |-> IF x.asset = a THEN x.amount ELSE 0]
  <2>1. IsFiniteSet(dep[m]) /\ \A x \in dep[m] : f[x] = 0
    BY <1>2 DEF MovementsInv
  <2>2. DOMAIN f = dep[m]
    OBVIOUS
  <2> HIDE DEF f
  <2>3. SumFunctionOnSet(f, dep[m]) = 0
    BY <2>1, SumZero
  <2> QED BY <2>2, <2>3 DEF ChargedIn, SumFunction, f
<1>3. ASSUME MovementsInv, NEW a, asset[a].status = "ABSENT"
      PROVE  Sum(a) = 0
  <2> DEFINE f == [m \in Months |-> ChargedIn(m, a)]
  <2>1. \A m \in Months : f[m] = 0
    BY <1>2, <1>3
  <2>2. DOMAIN f = Months
    OBVIOUS
  <2> HIDE DEF f
  <2>3. SumFunctionOnSet(f, Months) = 0
    BY <2>1, MonthsFinite, SumZero
  <2> QED BY <2>2, <2>3 DEF SumFunction, f
<1>4. ASSUME SerialInv, MovementsInv, AccumulatedIsMovements, [Next]_vars
      PROVE  AccumulatedIsMovements'
  <2>1. CASE \A p \in Procs : ~WriteRun(p)
    <3>1. UNCHANGED <<runs, dep>>
      BY <1>4, <2>1, OtherSteps
    <3> SUFFICES ASSUME Once, NEW a \in Assets, InUse(a)'
                 PROVE  asset'[a].acc = Sum(a)
      BY <3>1 DEF AccumulatedIsMovements, ChargedIn
    <3>2. CASE InUse(a) /\ asset'[a].acc = asset[a].acc
      BY <1>4, <3>2 DEF AccumulatedIsMovements
    <3>3. CASE asset[a].status = "ABSENT" /\ asset'[a].acc = 0
      <4> HIDE DEF Sum
      <4> QED BY <1>3, <1>4, <3>3
    <3> QED BY <1>4, <2>1, <3>2, <3>3, OtherSteps
  <2>2. ASSUME NEW p \in Procs, WriteRun(p) PROVE AccumulatedIsMovements'
    <3>1. PICK m, plan, charge, new :
             /\ m \in Months /\ plan \subseteq Assets
             /\ runs[m] \in Nat /\ Charges(new, plan, charge)
             /\ \A a \in plan : charge[a] \in Nat /\ InUse(a)
             /\ runs' = [runs EXCEPT ![m] = runs[m] + 1]
             /\ dep' = [dep EXCEPT ![m] = (dep[m] \ req[p].old) \union new]
             /\ \A a \in Assets \ plan : asset'[a] = asset[a]
             /\ \A a \in plan : asset'[a].acc = asset[a].acc + charge[a]
      <4> DEFINE mm == req[p].month
                 pp == Planned(req[p].seen, mm, req[p].inactive)
                 cc == [a \in pp |-> Charge(req[p].seen[a])]
                 nn == {[asset |-> a, amount |-> cc[a], execution |-> runs[mm] + 1]
                          : a \in pp}
      <4>1. /\ mm \in Months /\ runs[mm] \in Nat
            /\ pp \subseteq Assets /\ Charges(nn, pp, cc)
            /\ \A a \in pp : InUse(a)
            /\ runs' = [runs EXCEPT ![mm] = runs[mm] + 1]
            /\ dep' = [dep EXCEPT ![mm] = (dep[mm] \ req[p].old) \union nn]
            /\ \A a \in Assets \ pp : asset'[a] = asset[a]
            /\ \A a \in pp : asset'[a].acc = asset[a].acc + cc[a]
        BY <1>4, <2>2, RunWritten
      <4> HIDE DEF mm, pp, cc, nn
      <4>2. /\ mm \in Months /\ pp \subseteq Assets
            /\ runs[mm] \in Nat /\ Charges(nn, pp, cc)
            /\ \A a \in pp : cc[a] \in Nat /\ InUse(a)
            /\ runs' = [runs EXCEPT ![mm] = runs[mm] + 1]
            /\ dep' = [dep EXCEPT ![mm] = (dep[mm] \ req[p].old) \union nn]
            /\ \A a \in Assets \ pp : asset'[a] = asset[a]
            /\ \A a \in pp : asset'[a].acc = asset[a].acc + cc[a]
        BY <4>1 DEF Charges
      <4> QED BY <4>2, Zenon
    <3>2. \A b : SumFunction([x \in new |-> IF x.asset = b THEN x.amount ELSE 0])
                  = IF b \in plan THEN charge[b] ELSE 0
      BY <3>1, OneMovement
    <3>3. runs \in [Months -> Nat] /\ dep \in [Months -> SUBSET Movement]
      BY <1>4 DEF SerialInv, TypeOK
    <3> SUFFICES ASSUME Once', NEW a \in Assets, InUse(a)'
                 PROVE  asset'[a].acc = Sum(a)'
      BY DEF AccumulatedIsMovements
    <3>4. Once /\ runs[m] = 0 /\ dep[m] = {}
      <4>1. runs'[m] = runs[m] + 1 /\ runs'[m] <= 1
        BY <3>1, <3>3
      <4>2. runs[m] = 0
        BY <3>1, <4>1
      <4>3. \A k \in Months : k # m => runs[k] <= 1
        <5> TAKE k \in Months
        <5>1. k # m => runs'[k] = runs[k]
          BY <3>1, <3>3
        <5>2. runs'[k] <= 1
          OBVIOUS
        <5> QED BY <5>1, <5>2
      <4> QED BY <1>4, <3>1, <4>2, <4>3 DEF MovementsInv
    <3>5. dep'[m] = new /\ \A k \in Months : k # m => dep'[k] = dep[k]
      BY <3>1, <3>3, <3>4
    <3> DEFINE f == [k \in Months |-> ChargedIn(k, a)]
               e == [k \in Months |-> ChargedIn(k, a)']
               gain == IF a \in plan THEN charge[a] ELSE 0
    <3>6. ChargedIn(m, a)' = gain
      <4>1. SumFunction([x \in new |-> IF x.asset = a THEN x.amount ELSE 0]) = gain
        BY <3>2 DEF gain
      <4> QED BY <3>5, <4>1 DEF ChargedIn
    <3>7. ChargedIn(m, a) = 0
      BY <1>2, <1>4, <3>1, <3>4
    <3>8. \A k \in Months : k # m => ChargedIn(k, a)' = ChargedIn(k, a)
      BY <3>5 DEF ChargedIn
    <3>9. gain \in Int
      BY <3>1
    <3>10. /\ DOMAIN f = Months /\ DOMAIN e = Months
           /\ \A k \in Months : f[k] \in Int
           /\ f[m] = 0 /\ e[m] = gain
           /\ \A k \in Months \ {m} : e[k] = f[k]
      BY <1>1, <1>4, <3>1, <3>6, <3>7, <3>8
    <3>11. Sum(a) = SumFunction(f) /\ Sum(a)' = SumFunction(e)
      OBVIOUS
    <3> HIDE DEF f, e, gain, Sum
    <3>12. SumFunctionOnSet(e, Months) = SumFunctionOnSet(f, Months) - 0 + gain
      BY <3>1, <3>9, <3>10, MonthsFinite, SumDiffer
    <3>13. SumFunctionOnSet(f, Months) \in Int
      BY <3>10, MonthsFinite, SumType
    <3>14. Sum(a)' = Sum(a) + gain
      BY <3>9, <3>10, <3>11, <3>12, <3>13 DEF SumFunction
    <3>15. InUse(a) /\ asset'[a].acc = asset[a].acc + gain
      <4>1. CASE a \in plan
        BY <3>1, <4>1 DEF gain
      <4>2. CASE a \notin plan
        <5>1. asset'[a] = asset[a] /\ asset[a].acc \in Int
          BY <1>4, <3>1, <4>2, RowFields DEF SerialInv, TypeOK
        <5> QED BY <4>2, <5>1 DEF gain, InUse
      <4> QED BY <4>1, <4>2
    <3>16. asset[a].acc = Sum(a)
      BY <1>4, <3>4, <3>15 DEF AccumulatedIsMovements, Sum
    <3> QED BY <3>14, <3>15, <3>16
  <2> QED BY <2>1, <2>2
<1>5. Init => MovementsInv /\ AccumulatedIsMovements
  BY FS_EmptySet DEF Init, MovementsInv, AccumulatedIsMovements, InUse, NoRow
<1> HIDE DEF Once, Sum
<1>6. SerialInv /\ MovementsInv /\ AccumulatedIsMovements /\ [Next]_vars
        => MovementsInv' /\ AccumulatedIsMovements'
  BY <1>4, MovementsStep
<1> QED BY <1>5, <1>6, SerialInit, SerialStep, PTL DEF Spec

-----------------------------------------------------------------------------
(* The preview.  The schedule is a recursion over the months: that it has a *)
(* solution is proved from the least month without one.  From then on it is *)
(* followed month by month beside the runs.                                 *)

\* What the loop of buildSchedule makes of a row in one month.
Passed(q, m) == IF Due(q, m) /\ Charge(q) > 0 THEN Depreciated(q, q, m) ELSE q

\* g is a schedule of r up to month n.
Schedules(g, r, n) == g = [m \in 0..n |-> IF m = 0 THEN r ELSE Passed(g[m - 1], m)]

LEMMA SomeSchedule ==
  ASSUME NEW r, NEW n \in Nat PROVE \E g : Schedules(g, r, n)
<1> DEFINE Bad == {k \in Nat : ~ \E g : Schedules(g, r, k)}
<1>1. ASSUME Bad # {} PROVE FALSE
  <2>1. PICK k \in Bad : \A j \in Bad : k <= j
    <3>1. Bad \in SUBSET Nat
      OBVIOUS
    <3> HIDE DEF Bad
    <3> QED BY <1>1, <3>1, LeastNumber
  <2>2. k \in Nat /\ ~ \E g : Schedules(g, r, k)
    OBVIOUS
  <2>3. k # 0
    <3>1. Schedules([m \in 0..0 |-> r], r, 0)
      BY DEF Schedules
    <3> QED BY <2>2, <3>1
  <2>4. k - 1 \in Nat /\ k - 1 \notin Bad
    <3> HIDE DEF Bad
    <3> QED BY <2>1, <2>2, <2>3
  <2>5. PICK g : Schedules(g, r, k - 1)
    BY <2>4
  <2> DEFINE h == [m \in 0..k |-> IF m = 0 THEN r ELSE Passed(g[m - 1], m)]
  <2>6. \A m \in 0..(k - 1) : h[m] = g[m]
    BY <2>2, <2>5 DEF Schedules
  <2>7. \A m \in 0..k : h[m] = IF m = 0 THEN r ELSE Passed(h[m - 1], m)
    <3> TAKE m \in 0..k
    <3>1. CASE m = 0
      BY <2>2, <3>1
    <3>2. CASE m # 0
      <4>1. m - 1 \in 0..(k - 1)
        BY <2>2, <3>2
      <4>2. h[m] = Passed(g[m - 1], m)
        BY <3>2
      <4> HIDE DEF h
      <4> QED BY <2>6, <3>2, <4>1, <4>2
    <3> QED BY <3>1, <3>2
  <2>8. Schedules(h, r, k)
    <3>1. h = [m \in 0..k |-> h[m]]
      OBVIOUS
    <3> HIDE DEF h
    <3>2. h = [m \in 0..k |-> IF m = 0 THEN r ELSE Passed(h[m - 1], m)]
      BY <2>7, <3>1
    <3> QED BY <3>2 DEF Schedules
  <2> QED BY <2>2, <2>8
<1> QED BY <1>1

LEMMA ScheduleUnfolds ==
  ASSUME NEW r
  PROVE  /\ Schedule(r)[0] = r
         /\ \A m \in Months : Schedule(r)[m] = Passed(Schedule(r)[m - 1], m)
<1>1. Schedule(r) = CHOOSE g : Schedules(g, r, LastMonth)
  BY DEF Schedule, Schedules, Passed
<1>2. LastMonth \in Nat \ {0}
  BY ConstantsAssumption
<1>3. Schedules(Schedule(r), r, LastMonth)
  BY <1>1, <1>2, SomeSchedule
<1>4. \A m \in 0..LastMonth :
        Schedule(r)[m] = IF m = 0 THEN r ELSE Passed(Schedule(r)[m - 1], m)
  <2> DEFINE s == Schedule(r)
  <2> HIDE DEF s
  <2>1. s = [m \in 0..LastMonth |-> IF m = 0 THEN r ELSE Passed(s[m - 1], m)]
    BY <1>3 DEF Schedules, s
  <2>2. \A m \in 0..LastMonth : s[m] = IF m = 0 THEN r ELSE Passed(s[m - 1], m)
    BY <2>1
  <2> QED BY <2>2 DEF s
<1> QED BY <1>2, <1>4 DEF Months

\* Before the asset starts the schedule leaves the row as it is.
LEMMA NothingBefore ==
  ASSUME NEW r, r.start \in Months, NEW m \in 0..(r.start - 1)
  PROVE  Schedule(r)[m] = r
<1> DEFINE Bad == {k \in 0..(r.start - 1) : Schedule(r)[k] # r}
<1>0. r.start \in Nat /\ LastMonth \in Nat /\ r.start <= LastMonth
  BY ConstantsAssumption DEF Months
<1>1. ASSUME Bad # {} PROVE FALSE
  <2>1. PICK k \in Bad : \A j \in Bad : k <= j
    <3>1. Bad \in SUBSET Nat
      BY <1>0
    <3> HIDE DEF Bad
    <3> QED BY <1>1, <3>1, LeastNumber
  <2>2. k \in 0..(r.start - 1) /\ Schedule(r)[k] # r
    OBVIOUS
  <2>3. k # 0
    BY <2>2, ScheduleUnfolds
  <2>4. k - 1 \in 0..(r.start - 1) /\ k - 1 \notin Bad
    <3> HIDE DEF Bad
    <3> QED BY <1>0, <2>1, <2>2, <2>3
  <2>5. Schedule(r)[k - 1] = r /\ k \in Months
    BY <1>0, <2>2, <2>3, <2>4 DEF Months
  <2>6. ~Due(r, k)
    BY <1>0, <2>2 DEF Due
  <2> QED BY <2>2, <2>5, <2>6, ScheduleUnfolds DEF Passed
<1> QED BY <1>1

\* Two rows that differ at most in the status, which the plan does not ask for.
Alike(q, x) ==
  /\ q.method = x.method /\ q.cost = x.cost /\ q.residual = x.residual
  /\ q.acc = x.acc /\ q.book = x.book /\ q.life = x.life /\ q.rate = x.rate
  /\ q.start = x.start /\ q.last = x.last

LEMMA AlikeCharged ==
  ASSUME NEW q \in Row, NEW x \in Row, Alike(q, x), NEW m \in Months,
         Due(x, m), Charge(x) > 0
  PROVE  Passed(q, m) \in Row /\ Alike(Passed(q, m), Depreciated(x, x, m))
<1>1. Base(q) = Base(x) /\ Pending(q) = Pending(x) /\ MonthlyAmount(q) = MonthlyAmount(x)
  BY DEF Alike, Base, Pending, MonthlyAmount
<1>2. Charge(q) = Charge(x) /\ Due(q, m)
  BY <1>1 DEF Charge, Due, Alike
<1>3. Passed(q, m) = Depreciated(q, q, m)
  BY <1>2 DEF Passed
<1>4. \A y \in Row :
        LET d == Depreciated(y, y, m)
        IN  /\ d.acc = y.acc + Charge(y) /\ d.book = y.book - Charge(y) /\ d.last = m
            /\ d.method = y.method /\ d.cost = y.cost /\ d.residual = y.residual
            /\ d.life = y.life /\ d.rate = y.rate /\ d.start = y.start
  BY DEF Depreciated, Row
<1>5. Passed(q, m) \in Row
  BY <1>3, DepreciatedTyped
<1> DEFINE c == Depreciated(q, q, m)
           d == Depreciated(x, x, m)
<1>6. /\ c.acc = d.acc /\ c.book = d.book /\ c.last = d.last
      /\ c.method = d.method /\ c.cost = d.cost /\ c.residual = d.residual
      /\ c.life = d.life /\ c.rate = d.rate /\ c.start = d.start
  <2>1. /\ c.acc = q.acc + Charge(q) /\ c.book = q.book - Charge(q) /\ c.last = m
        /\ c.method = q.method /\ c.cost = q.cost /\ c.residual = q.residual
        /\ c.life = q.life /\ c.rate = q.rate /\ c.start = q.start
    BY <1>4
  <2>2. /\ d.acc = x.acc + Charge(x) /\ d.book = x.book - Charge(x) /\ d.last = m
        /\ d.method = x.method /\ d.cost = x.cost /\ d.residual = x.residual
        /\ d.life = x.life /\ d.rate = x.rate /\ d.start = x.start
    BY <1>4
  <2> HIDE DEF c, d
  <2> QED BY <1>2, <2>1, <2>2 DEF Alike
<1> HIDE DEF c, d
<1>7. Alike(c, d)
  BY <1>6 DEF Alike
<1> QED BY <1>3, <1>5, <1>7 DEF c, d

\* The row of x as it was created, in status s.
Start(x, s) ==
  [status |-> s, method |-> x.method, cost |-> x.cost, residual |-> x.residual,
   acc |-> 0, book |-> Base(x), life |-> x.life, rate |-> x.rate,
   start |-> x.start, last |-> 0]

Statuses == {"ABSENT", "ACTIVE", "INACTIVE", "DISPOSED"}

\* The schedule of the asset at its beginning has come to what the asset is.
Foreseen(a) ==
  \A s \in Statuses :
    LET q == Schedule(Start(asset[a], s))[asset[a].last]
    IN  q \in Row /\ Alike(q, asset[a])

Moved(m, a) == \E x \in dep[m] : x.asset = a

\* Sums are the costs that only improvements reach.
Told(a, Sums) ==
  /\ asset[a].status # "ABSENT" => asset[a].cost \in Costs \union Sums
  /\ \A m \in Months : Moved(m, a) =>
       /\ asset[a].status # "ABSENT"
       /\ InUse(a) => asset[a].start <= m /\ m <= asset[a].last
  /\ InUse(a) => asset[a].last = 0 \/ asset[a].start <= asset[a].last
  /\ NoGap(a) /\ Unimproved(a) => Foreseen(a)

LEMMA ForeseenIs ==
  ASSUME TypeOK, NEW a \in Assets, NoGap(a) /\ Unimproved(a) => Foreseen(a),
         NoGap(a), Unimproved(a)
  PROVE  LET foreseen == Schedule(Fresh(asset[a]))[asset[a].last]
         IN  asset[a].acc = foreseen.acc /\ asset[a].book = foreseen.book
<1>1. asset[a] \in Row
  BY DEF TypeOK
<1>2. Fresh(asset[a]) = Start(asset[a], asset[a].status) /\ asset[a].status \in Statuses
  <2> DEFINE x == asset[a]
             y == Fresh(x)
  <2>1. \A r \in Row :
          r = [status |-> r.status, method |-> r.method, cost |-> r.cost,
               residual |-> r.residual, acc |-> r.acc, book |-> r.book, life |-> r.life,
               rate |-> r.rate, start |-> r.start, last |-> r.last]
    BY DEF Row
  <2>2. x.status \in Statuses
    BY <1>1 DEF Row, Statuses
  <2>3. y \in Row
    <3>1. Base(x) \in Int /\ 0 \in Int
      BY <1>1, RowNumbers
    <3>2. \A r \in Row : \A acc, book \in Int : \A last \in Months \union {0} :
            [r EXCEPT !.acc = acc, !.book = book, !.last = last] \in Row
      BY DEF Row
    <3> QED BY <1>1, <3>1, <3>2 DEF Fresh
  <2>4. /\ y.status = x.status /\ y.method = x.method /\ y.cost = x.cost
        /\ y.residual = x.residual /\ y.acc = 0 /\ y.book = Base(x) /\ y.life = x.life
        /\ y.rate = x.rate /\ y.start = x.start /\ y.last = 0
    BY <1>1 DEF Fresh, Row
  <2> HIDE DEF y
  <2>5. y = Start(x, x.status)
    BY <2>1, <2>3, <2>4 DEF Start
  <2> QED BY <2>2, <2>5 DEF x, y
<1> QED BY <1>2 DEF Foreseen, Alike

LEMMA ToldKept ==
  ASSUME NEW a \in Assets, NEW Sums, Told(a, Sums), asset'[a] = asset[a],
         \A m \in Months : Moved(m, a)' => Moved(m, a),
         asset[a].start..asset[a].last \subseteq Months
  PROVE  Told(a, Sums)'
<1>1. NoGap(a)' => NoGap(a)
  BY DEF NoGap, InUse, Moved
<1> QED BY <1>1 DEF Told, InUse, Unimproved, Foreseen

\* A run charges an asset: it follows its schedule or leaves a gap.
LEMMA ToldCharged ==
  ASSUME TypeOK, NEW a \in Assets, NEW Sums, Told(a, Sums), InUse(a), NEW m \in Months,
         Due(asset[a], m), Charge(asset[a]) > 0,
         asset'[a] = Depreciated(asset[a], asset[a], m),
         \A k \in Months \ {m} : Moved(k, a)' => Moved(k, a)
  PROVE  Told(a, Sums)'
<1> DEFINE x == asset[a]
           y == asset'[a]
<1>1. x \in Row /\ y \in Row
  BY DepreciatedTyped DEF TypeOK
<1>2. /\ x.start \in Nat \ {0} /\ x.last \in Nat /\ m \in Nat /\ LastMonth \in Nat
      /\ x.start \in Months /\ m <= LastMonth /\ x.start <= m /\ x.last < m
  BY <1>1, ConstantsAssumption DEF Row, Months, Due
<1>3. /\ y.last = m /\ y.method = x.method /\ y.cost = x.cost /\ y.residual = x.residual
      /\ y.life = x.life /\ y.rate = x.rate /\ y.start = x.start
      /\ y.status \in {x.status, "INACTIVE"}
  BY <1>1 DEF Depreciated, Row
<1>4. InUse(a)'
  BY <1>3 DEF InUse
<1>5. /\ y.cost \in Costs \union Sums
      /\ \A k \in Months : Moved(k, a)' => x.start <= k /\ k <= m
      /\ x.start <= m
  <2>1. x.cost \in Costs \union Sums
    BY DEF Told, InUse
  <2>2. ASSUME NEW k \in Months, Moved(k, a)' PROVE x.start <= k /\ k <= m
    <3>1. CASE k = m
      BY <1>2, <3>1
    <3>2. CASE k # m
      <4>1. x.start <= k /\ k <= x.last /\ k \in Nat
        BY <2>2, <3>2 DEF Told, Months
      <4> QED BY <1>2, <4>1
    <3> QED BY <3>1, <3>2
  <2> QED BY <1>2, <1>3, <2>1, <2>2
<1>6. ASSUME NoGap(a)', Unimproved(a)' PROVE Foreseen(a)'
  <2>1. \A k \in x.start..m : k \in Months /\ Moved(k, a)'
    BY <1>2, <1>3, <1>6 DEF NoGap, Moved, Months
  <2>2. \A k \in x.start..m : k # m => Moved(k, a) /\ k <= x.last
    BY <2>1 DEF Told
  <2>3. x.last = m - 1 \/ (x.last = 0 /\ m = x.start)
    <3>1. CASE x.start = m
      BY <1>2, <3>1 DEF Told
    <3>2. CASE x.start # m
      <4>1. m - 1 \in x.start..m /\ m - 1 # m
        BY <1>2, <3>2
      <4>2. m - 1 <= x.last
        BY <2>2, <4>1
      <4> QED BY <1>2, <4>2
    <3> QED BY <3>1, <3>2
  <2>4. NoGap(a) /\ Unimproved(a)
    <3>1. \A k \in x.start..x.last : k \in x.start..m /\ k # m
      BY <1>2
    <3> QED BY <1>3, <1>6, <2>2, <3>1 DEF NoGap, Moved, Unimproved
  <2> SUFFICES ASSUME NEW s \in Statuses
               PROVE  LET q == Schedule(Start(y, s))[m] IN q \in Row /\ Alike(q, y)
    BY <1>3 DEF Foreseen
  <2> DEFINE r == Start(x, s)
  <2>5. Start(y, s) = r
    BY <1>3 DEF Start, Base
  <2>6. Schedule(r)[x.last] \in Row /\ Alike(Schedule(r)[x.last], x)
    BY <2>4 DEF Told, Foreseen
  <2>7. Schedule(r)[m - 1] = Schedule(r)[x.last]
    <3>1. CASE x.last = 0 /\ m = x.start
      <4>1. r.start = x.start
        BY DEF Start
      <4>2. 0 \in 0..(r.start - 1) /\ m - 1 \in 0..(r.start - 1) /\ r.start \in Months
        BY <1>2, <3>1, <4>1
      <4> HIDE DEF r
      <4> QED BY <3>1, <4>2, NothingBefore
    <3> QED BY <2>3, <3>1
  <2>8. Schedule(r)[m] = Passed(Schedule(r)[x.last], m)
    BY <2>7, ScheduleUnfolds
  <2> QED BY <1>1, <2>5, <2>6, <2>8, AlikeCharged
<1> QED BY <1>3, <1>4, <1>5, <1>6, <1>2 DEF Told, InUse

\* The costs that improvements reach: closed under them, and none of them the
\* cost of an asset that has none.
Reached(Sums) ==
  /\ Sums \intersect Costs = {}
  /\ \A c \in Costs \union Sums, n \in Amounts : c + n \in Sums

\* An improvement takes the asset out of what its first preview can tell.
LEMMA ToldImproved ==
  ASSUME TypeOK, NEW a \in Assets, NEW Sums, Reached(Sums), Told(a, Sums), ImprovedBy(a),
         dep' = dep
  PROVE  Told(a, Sums)'
<1>1. PICK amount \in Amounts, longer \in Extensions, more \in Increases,
           rate \in Rates \union {0} :
        asset'[a] = Improved(asset[a], asset[a], amount, longer, more, rate)
  BY DEF ImprovedBy
<1>2. asset[a] \in Row
  BY DEF TypeOK
<1>3. /\ asset'[a].cost = asset[a].cost + amount /\ asset'[a].status = asset[a].status
      /\ asset'[a].start = asset[a].start /\ asset'[a].last = asset[a].last
  BY <1>1, <1>2 DEF Improved, Row
<1>4. asset[a].status \in {"ACTIVE", "INACTIVE"} /\ asset[a].cost \in Costs \union Sums
  BY DEF ImprovedBy, InUse, Told
<1>5. asset'[a].cost \in Sums /\ asset'[a].cost \notin Costs
  BY <1>1, <1>3, <1>4 DEF Reached
<1> QED BY <1>3, <1>4, <1>5 DEF Told, InUse, Unimproved, Moved

LEMMA ToldCreated ==
  ASSUME TypeOK, TypeOK', NEW a \in Assets, NEW Sums, Told(a, Sums), Create(a)
  PROVE  Told(a, Sums)'
<1>1. PICK cost \in Costs, residual \in Residuals, life \in Lives,
           start \in Months, method \in Methods, rate \in Rates :
        asset' = [asset EXCEPT ![a] =
          [status |-> "ACTIVE", method |-> method, cost |-> cost,
           residual |-> residual, acc |-> 0, book |-> cost - residual,
           life |-> life, start |-> start, last |-> 0,
           rate |-> IF method = "DECLINING_BALANCE" THEN rate ELSE 0]]
  BY DEF Create
<1> DEFINE y == asset'[a]
<1>2. /\ y.status = "ACTIVE" /\ y.cost = cost /\ y.residual = residual
      /\ y.acc = 0 /\ y.book = cost - residual /\ y.last = 0
  BY <1>1 DEF TypeOK
<1>3. y \in Row
  BY DEF TypeOK
<1>4. dep' = dep /\ asset[a].status = "ABSENT"
  BY DEF Create
<1>5. \A m \in Months : ~Moved(m, a)'
  BY <1>4 DEF Told, Moved
<1> HIDE DEF y
<1>6. ASSUME NEW s \in Statuses
      PROVE  Start(y, s) \in Row /\ Alike(Start(y, s), y) /\ Schedule(Start(y, s))[0] = Start(y, s)
  <2>1. Base(y) = y.book /\ Base(y) \in Int
    BY <1>2, <1>3, RowNumbers DEF Base
  <2>2. Alike(Start(y, s), y)
    BY <1>2, <2>1 DEF Alike, Start
  <2>3. Start(y, s) \in Row
    BY <1>3, <2>1 DEF Start, Row, Statuses
  <2> QED BY <2>2, <2>3, ScheduleUnfolds
<1>7. Foreseen(a)'
  BY <1>2, <1>6 DEF Foreseen, y
<1> QED BY <1>2, <1>5, <1>7 DEF Told, InUse, y

LEMMA ToldWritten ==
  ASSUME SerialInv, MovementsInv, NEW p \in Procs, WriteRun(p), NEW a \in Assets,
         NEW Sums, Told(a, Sums), asset[a].start..asset[a].last \subseteq Months
  PROVE  Told(a, Sums)'
<1> DEFINE r == req[p]
           m == r.month
           plan == Planned(r.seen, m, r.inactive)
           charge == [b \in plan |-> Charge(r.seen[b])]
           new == {[asset |-> b, amount |-> charge[b], execution |-> runs[m] + 1] : b \in plan}
<1>1. /\ m \in Months /\ Charges(new, plan, charge)
      /\ dep' = [dep EXCEPT ![m] = (dep[m] \ r.old) \union new]
      /\ \A b \in Assets \ plan : asset'[b] = asset[b]
      /\ \A b \in plan : InUse(b)
  BY RunWritten
<1>2. dep \in [Months -> SUBSET Movement]
  BY DEF SerialInv, TypeOK
<1>3. \A x \in new : x.asset \in plan
  BY <1>1 DEF Charges
<1>4. /\ a \in plan => /\ Due(r.seen[a], m) /\ Charge(r.seen[a]) > 0
                       /\ asset'[a] = Depreciated(asset[a], r.seen[a], m)
                       /\ r.seen[a].status # "ABSENT"
  BY DEF Planned, Candidates, WriteRun
<1> HIDE DEF new, charge, plan, m
<1>5. \A k \in Months \ {m} : dep'[k] = dep[k]
  BY <1>1, <1>2
<1>6. \A x \in dep'[m] : x \in dep[m] \/ x.asset \in plan
  BY <1>1, <1>2, <1>3
<1>7. CASE a \in plan
  <2>1. r.seen[a] = asset[a]
    BY <1>4, <1>7 DEF SerialInv, Fits
  <2>2. \A k \in Months \ {m} : Moved(k, a)' => Moved(k, a)
    BY <1>5 DEF Moved
  <2> QED BY <1>1, <1>4, <1>7, <2>1, <2>2, ToldCharged DEF SerialInv
<1>8. CASE a \notin plan
  <2>1. \A k \in Months : Moved(k, a)' => Moved(k, a)
    BY <1>5, <1>6, <1>8 DEF Moved
  <2> QED BY <1>1, <1>8, <2>1, ToldKept
<1> QED BY <1>7, <1>8

LEMMA ToldStep ==
  ASSUME SerialInv, MovementsInv, NEW Sums, Reached(Sums), \A a \in Assets : Told(a, Sums),
         [Next]_vars, TypeOK'
  PROVE  \A a \in Assets : Told(a, Sums)'
<1> TAKE a \in Assets
<1>0. TypeOK /\ Told(a, Sums)
  BY DEF SerialInv
<1>1. asset[a].start..asset[a].last \subseteq Months
  <2>1. asset[a].start \in Months /\ asset[a].last \in Months \union {0}
    BY <1>0 DEF TypeOK, Row
  <2> QED BY <2>1, ConstantsAssumption DEF Months
<1>2. ASSUME asset'[a] = asset[a], dep' = dep PROVE Told(a, Sums)'
  BY <1>0, <1>1, <1>2, ToldKept DEF Moved
<1>3. CASE UNCHANGED vars
  BY <1>2, <1>3 DEF vars
<1>4. ASSUME NEW b \in Assets, Create(b) PROVE Told(a, Sums)'
  <2>1. CASE a = b
    BY <1>0, <1>4, <2>1, ToldCreated
  <2>2. CASE a # b
    BY <1>0, <1>2, <1>4, <2>2 DEF Create, TypeOK
  <2> QED BY <2>1, <2>2
<1>5. ASSUME NEW p \in Procs, Step(p) PROVE Told(a, Sums)'
  <2>1. CASE ReadForImprovement(p) \/ ReadForDisposal(p) \/ PlanRun(p) \/ FindRun(p)
             \/ ReplaceRun(p) \/ Abort(p)
    BY <1>2, <2>1 DEF ReadForImprovement, ReadForDisposal, PlanRun, FindRun, ReplaceRun, Abort
  <2>2. CASE WriteRun(p)
    BY <1>0, <1>1, <2>2, ToldWritten
  <2>3. CASE WriteImprovement(p)
    <3>1. PICK b \in Assets, amount \in Amounts, longer \in Extensions,
               more \in Increases, rate \in Rates \union {0}, post \in Posts :
            LET r == req[p].seen[b]
            IN  /\ r.status # "ABSENT"
                /\ r.cost + amount <= MaxCost
                /\ r.life + longer <= MaxLife
                /\ asset' = [asset EXCEPT ![b] = Improved(@, r, amount, longer, more, rate)]
                /\ glCost' = [glCost EXCEPT ![b] = @ + IF post THEN amount ELSE 0]
      BY <2>3 DEF WriteImprovement
    <3>2. dep' = dep /\ glAccum' = glAccum
      BY <2>3 DEF WriteImprovement
    <3>3. CASE a # b
      <4>1. asset'[a] = asset[a]
        BY <1>0, <3>1, <3>3 DEF TypeOK
      <4> QED BY <1>2, <3>2, <4>1
    <3>4. CASE a = b
      <4>1. req[p].seen[a] = asset[a] /\ InUse(a)
        BY <2>3, <3>1, <3>4 DEF SerialInv, Fits, WriteImprovement, At
      <4>2. ImprovedBy(a)
        BY <1>0, <3>1, <3>2, <3>4, <4>1 DEF TypeOK, ImprovedBy
      <4> QED BY <1>0, <3>2, <4>2, ToldImproved
    <3> QED BY <3>3, <3>4
  <2>4. CASE WriteDisposal(p)
    <3>1. PICK b \in Assets, m \in Months :
            /\ req[p].seen[b].status # "ABSENT"
            /\ asset' = [asset EXCEPT ![b] = Disposed(@, req[p].seen[b], m)]
      BY <2>4 DEF WriteDisposal
    <3>2. dep' = dep
      BY <2>4 DEF WriteDisposal
    <3>3. CASE a # b
      <4>1. asset'[a] = asset[a]
        BY <1>0, <3>1, <3>3 DEF TypeOK
      <4> QED BY <1>2, <3>2, <4>1
    <3>4. CASE a = b
      <4>1. asset'[a] = Disposed(asset[a], req[p].seen[a], m) /\ asset[a] \in Row
        BY <1>0, <3>1, <3>4 DEF TypeOK
      <4>2. asset'[a].status = "DISPOSED" /\ asset'[a].cost = asset[a].cost
        BY <4>1 DEF Disposed, Row
      <4>3. asset[a].status # "ABSENT"
        BY <2>4, <3>1, <3>4 DEF SerialInv, Fits
      <4> QED BY <1>0, <3>2, <4>2, <4>3 DEF Told, InUse, NoGap, Moved
    <3> QED BY <3>3, <3>4
  <2> QED BY <1>5, <2>1, <2>2, <2>3, <2>4 DEF Step
<1> QED BY <1>3, <1>4, <1>5 DEF Next

\* One request at a time, previewSchedule foresees to the cent what the runs
\* charge month after month to an asset nothing was added to, whatever happens
\* to the others, for any costs, lives, rates and methods.  An asset is told from
\* an improved one by its cost: Sums is any set of costs that improvements reach.
THEOREM PreviewAlwaysForesees ==
  ASSUME OneAtATime, NEW CONSTANT Sums, Reached(Sums) PROVE Spec => []PreviewForesees
<1> DEFINE AllTold == \A a \in Assets : Told(a, Sums)
<1>1. Init => MovementsInv /\ AllTold
  BY FS_EmptySet DEF Init, MovementsInv, Told, InUse, NoGap, Moved, NoRow
<1>2. SerialInv /\ MovementsInv /\ AllTold /\ [Next]_vars => MovementsInv' /\ AllTold'
  BY MovementsStep, TypeStep, ToldStep DEF SerialInv
<1>3. SerialInv /\ AllTold => PreviewForesees
  BY ForeseenIs DEF PreviewForesees, Told, SerialInv
<1> HIDE DEF AllTold
<1> QED BY <1>1, <1>2, <1>3, SerialInit, SerialStep, PTL DEF Spec

-----------------------------------------------------------------------------
\* The rounded monthly amounts of a straight-line life miss the base by at most
\* half a cent for each month.
THEOREM LifeChargesTheBase ==
  ASSUME NEW r \in Row, r.method = "STRAIGHT_LINE", Base(r) \in Nat
  PROVE  /\ 2 * (Base(r) - r.life * MonthlyAmount(r)) <= r.life
         /\ 2 * (r.life * MonthlyAmount(r) - Base(r)) <= r.life
<1> DEFINE d == r.life
           n == 2 * Base(r) + d
           q == n \div (2 * d)
<1>1. d \in Nat \ {0} /\ 2 * d \in Nat \ {0} /\ n \in Nat /\ q \in Int
  BY RowFields
<1>2. \A x \in Nat, y \in Nat \ {0} : y * (x \div y) <= x /\ x < y * (x \div y) + y
  BY SMTT(30)
<1>3. (2 * d) * q <= n /\ n < (2 * d) * q + 2 * d
  BY <1>1, <1>2
<1>4. MonthlyAmount(r) = q
  BY DEF MonthlyAmount, RoundHalfUp
<1>5. (2 * d) * q = 2 * (d * q) /\ d * q \in Int
  BY <1>1
<1> HIDE DEF q
<1>6. 2 * (d * q) <= 2 * Base(r) + d /\ 2 * Base(r) + d < 2 * (d * q) + 2 * d
  BY <1>3, <1>5
<1> QED BY <1>1, <1>4, <1>5, <1>6
=============================================================================
