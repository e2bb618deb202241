---------------------------- MODULE FixedAssets ----------------------------
(***************************************************************************)
(* FixedAssetsService: assets are created, improved, depreciated month by  *)
(* month and disposed of, each with its movements and journal entries.     *)
(*                                                                         *)
(* Every handler but create reads the asset rows outside the transaction   *)
(* that writes them and writes totals computed from what it read.  Money   *)
(* is in cents, the unit of the Decimal(18,2) columns.                     *)
(***************************************************************************)
EXTENDS Integers, FiniteSets, Functions

CONSTANTS
  Procs,       \* concurrent requests
  Assets,
  LastMonth,   \* bound: months are 1..LastMonth
  Methods,     \* subset of {"NONE", "STRAIGHT_LINE", "DECLINING_BALANCE"}
  Costs,       \* acquisition costs
  Residuals,   \* residual values
  Lives,       \* useful lives in months
  Rates,       \* yearly declining rates in 1/10000, Decimal(6,4)
  Amounts,     \* amounts of improvements
  Extensions,  \* life extensions of improvements, 0 for none
  Increases,   \* residual increases of improvements, 0 for none
  MaxCost,     \* bound: cost an asset reaches by improvements
  MaxLife,     \* bound: life an asset reaches by improvements
  MaxRuns,     \* bound: executions of a month's run
  Repeats,     \* values of allowRepeat
  Posts        \* values of postToAccounting

ASSUME ConstantsAssumption ==
  /\ IsFiniteSet(Assets)
  /\ LastMonth \in Nat \ {0}
  /\ Methods \subseteq {"NONE", "STRAIGHT_LINE", "DECLINING_BALANCE"}
  /\ Costs \subseteq Nat \ {0}
  /\ Residuals \subseteq Nat
  /\ Lives \subseteq Nat \ {0}
  /\ Rates \subseteq Nat \ {0}
  /\ Amounts \subseteq Nat \ {0}
  /\ Extensions \subseteq Nat
  /\ Increases \subseteq Nat
  /\ MaxCost \in Nat /\ MaxLife \in Nat /\ MaxRuns \in Nat
  /\ Repeats \subseteq BOOLEAN
  /\ Posts \subseteq BOOLEAN

VARIABLES
  asset,     \* the FixedAsset table
  runs,      \* executions of each month's FixedAssetDepreciationRun, 0: no row
  dep,       \* DEPRECIATION movements of each month's run
  glCost,    \* balance of the asset account, by asset
  glAccum,   \* balance of the accumulated depreciation account, by asset
  req        \* what each request has read so far

vars == <<asset, runs, dep, glCost, glAccum, req>>

Months == 1..LastMonth

-----------------------------------------------------------------------------
Row == [status   : {"ABSENT", "ACTIVE", "INACTIVE", "DISPOSED"},
        method   : {"NONE", "STRAIGHT_LINE", "DECLINING_BALANCE"},
        cost     : Nat,
        residual : Nat,
        acc      : Int,          \* accumulatedDepreciation
        book     : Int,          \* bookValue
        life     : Nat \ {0},
        rate     : Nat,
        start    : Months,
        last     : Months \union {0}] \* lastDepreciatedYear/Month, 0 is null

Movement == [asset : Assets, amount : Nat, execution : Nat]

Stages == {"idle", "improve", "dispose", "plan", "replace", "run"}

Request == [stage    : Stages,
            seen     : [Assets -> Row],    \* the asset rows it read
            month    : Months,
            inactive : BOOLEAN,            \* includeInactive
            existing : BOOLEAN,            \* it found a run of the month
            old      : SUBSET Movement]    \* the movements it deletes

NoRow == [status |-> "ABSENT", method |-> "NONE", cost |-> 0, residual |-> 0,
          acc |-> 0, book |-> 0, life |-> 1, rate |-> 0, start |-> 1, last |-> 0]

Idle == [stage |-> "idle", seen |-> [a \in Assets |-> NoRow], month |-> 1,
         inactive |-> FALSE, existing |-> FALSE, old |-> {}]

TypeOK ==
  /\ asset \in [Assets -> Row]
  /\ runs \in [Months -> Nat]
  /\ dep \in [Months -> SUBSET Movement]
  /\ glCost \in [Assets -> Int]
  /\ glAccum \in [Assets -> Int]
  /\ req \in [Procs -> Request]

Init ==
  /\ asset = [a \in Assets |-> NoRow]
  /\ runs = [m \in Months |-> 0]
  /\ dep = [m \in Months |-> {}]
  /\ glCost = [a \in Assets |-> 0]
  /\ glAccum = [a \in Assets |-> 0]
  /\ req = [p \in Procs |-> Idle]

-----------------------------------------------------------------------------
(* buildDepreciationPlan for one month. *)

RoundHalfUp(n, d) == (2 * n + d) \div (2 * d)

Base(r) == r.cost - r.residual
Pending(r) == Base(r) - r.acc

\* The month falls in the life of the asset, after its last depreciation.
Due(r, m) ==
  /\ r.start <= m /\ m < r.start + r.life
  /\ r.last < m
  /\ Base(r) > 0
  /\ Pending(r) > 0

MonthlyAmount(r) ==
  IF r.method = "STRAIGHT_LINE" THEN RoundHalfUp(Base(r), r.life)
  ELSE IF r.method = "DECLINING_BALANCE" THEN RoundHalfUp(r.book * r.rate, 120000)
  ELSE 0

MutCharge(r) == MonthlyAmount(r)     \* mutant: not capped by what is pending
Charge(r) == IF MonthlyAmount(r) > Pending(r) THEN Pending(r) ELSE MonthlyAmount(r)

\* pending.lte(0.01): one cent left counts as fully depreciated.
Exhausted(r) == Pending(r) - Charge(r) <= 1

\* status: undefined when includeInactive, which lets DISPOSED assets in too.
Candidates(table, m, inactive) ==
  {a \in Assets :
     /\ table[a].status # "ABSENT"
     /\ table[a].method # "NONE"
     /\ ~inactive => table[a].status = "ACTIVE"
     /\ table[a].start <= m}

MutPlanned(table, m, inactive) ==    \* mutant: only looks at start and life
  {a \in Candidates(table, m, inactive) : m < table[a].start + table[a].life}

\* The assets the run charges: those of the plan.
Planned(table, m, inactive) ==
  {a \in Candidates(table, m, inactive) : Due(table[a], m) /\ Charge(table[a]) > 0}

-----------------------------------------------------------------------------
At(p, stage) == req[p].stage = stage
Finish(p) == req' = [req EXCEPT ![p] = Idle]

\* findUnique of the asset; only the row of a matters to the handler.
SeeAsset(p, a, stage) ==
  req' = [req EXCEPT ![p] =
    [Idle EXCEPT !.stage = stage, !.seen = [@ EXCEPT ![a] = asset[a]]]]

\* create: one transaction, with the entry of the addition.
Create(a) ==
  /\ asset[a].status = "ABSENT"
  /\ \E cost \in Costs, residual \in Residuals, life \in Lives,
        start \in Months, method \in Methods, rate \in Rates, post \in Posts :
       /\ residual <= cost
       /\ asset' = [asset EXCEPT ![a] =
            [status |-> "ACTIVE", method |-> method, cost |-> cost,
             residual |-> residual, acc |-> 0, book |-> cost - residual,
             life |-> life, start |-> start, last |-> 0,
             rate |-> IF method = "DECLINING_BALANCE" THEN rate ELSE 0]]
       /\ glCost' = [glCost EXCEPT ![a] = @ + IF post THEN cost ELSE 0]
  /\ UNCHANGED <<runs, dep, glAccum, req>>

-----------------------------------------------------------------------------
(* registerImprovement and disposeAsset *)

ReadForImprovement(p) ==
  /\ At(p, "idle") /\ Amounts # {}
  /\ \E a \in Assets :
       /\ asset[a].status \in {"ACTIVE", "INACTIVE"}
       /\ SeeAsset(p, a, "improve")
  /\ UNCHANGED <<asset, runs, dep, glCost, glAccum>>

\* Totals are computed from the row that was read, r; what is not adjusted
\* stays as it is in the table, now.
Improved(now, r, amount, longer, more, rate) ==
  [now EXCEPT
     !.cost = r.cost + amount,
     !.book = r.book + amount,
     !.life = IF longer > 0 THEN r.life + longer ELSE @,
     !.residual = IF more > 0 THEN r.residual + more ELSE @,
     !.rate = IF r.method = "DECLINING_BALANCE" /\ rate > 0 THEN rate ELSE @]

WriteImprovement(p) ==
  /\ At(p, "improve")
  /\ \E a \in Assets, amount \in Amounts, longer \in Extensions,
        more \in Increases, rate \in Rates \union {0}, post \in Posts :
       LET r == req[p].seen[a]
       IN  /\ r.status # "ABSENT"
           /\ r.cost + amount <= MaxCost
           /\ r.life + longer <= MaxLife
           /\ asset' = [asset EXCEPT ![a] = Improved(@, r, amount, longer, more, rate)]
           /\ glCost' = [glCost EXCEPT ![a] = @ + IF post THEN amount ELSE 0]
  /\ Finish(p)
  /\ UNCHANGED <<runs, dep, glAccum>>

ReadForDisposal(p) ==
  /\ At(p, "idle")
  /\ \E a \in Assets :
       /\ asset[a].status \in {"ACTIVE", "INACTIVE"}
       /\ SeeAsset(p, a, "dispose")
  /\ UNCHANGED <<asset, runs, dep, glCost, glAccum>>

MutDisposed(now, r, m) ==      \* mutant: accumulated stays what it was
  [now EXCEPT !.status = "DISPOSED", !.book = 0, !.last = m]

Disposed(now, r, m) ==
  [now EXCEPT !.status = "DISPOSED", !.book = 0, !.acc = Base(r), !.last = m]

\* Cost and accumulated depreciation leave their accounts; the difference to
\* the proceeds goes to the accounts of the gain or the loss.
WriteDisposal(p) ==
  /\ At(p, "dispose")
  /\ \E a \in Assets, m \in Months, post \in Posts :
       LET r == req[p].seen[a]
       IN  /\ r.status # "ABSENT"
           /\ asset' = [asset EXCEPT ![a] = Disposed(@, r, m)]
           /\ glCost' = [glCost EXCEPT ![a] = @ - IF post THEN r.cost ELSE 0]
           /\ glAccum' = [glAccum EXCEPT ![a] =
                @ - IF ~post THEN 0 ELSE IF r.acc < r.cost THEN r.acc ELSE r.cost]
  /\ Finish(p)
  /\ UNCHANGED <<runs, dep>>

-----------------------------------------------------------------------------
(* runDepreciation: plan from the assets read, look for the month's run,   *)
(* then in one transaction delete that run's movements and write the plan. *)

PlanRun(p) ==
  /\ At(p, "idle")
  /\ \E m \in Months, inactive \in BOOLEAN :
       /\ Planned(asset, m, inactive) # {}
       /\ req' = [req EXCEPT ![p] =
            [Idle EXCEPT !.stage = "plan", !.seen = asset, !.month = m,
                         !.inactive = inactive]]
  /\ UNCHANGED <<asset, runs, dep, glCost, glAccum>>

FindRun(p) ==
  LET found == runs[req[p].month] > 0
  IN  /\ At(p, "plan")
      /\ found => TRUE \in Repeats
      /\ req' = [req EXCEPT ![p].stage = IF found THEN "replace" ELSE "run",
                            ![p].existing = found]
      /\ UNCHANGED <<asset, runs, dep, glCost, glAccum>>

\* deleteMany of the run's movements: it deletes what it sees when it starts.
ReplaceRun(p) ==
  /\ At(p, "replace")
  /\ req' = [req EXCEPT ![p].stage = "run", ![p].old = dep[req[p].month]]
  /\ UNCHANGED <<asset, runs, dep, glCost, glAccum>>

MutDepreciated(now, r, m) ==   \* mutant: accumulates more than it charges
  [now EXCEPT !.acc = r.acc + MonthlyAmount(r), !.book = r.book - Charge(r),
              !.last = m, !.status = IF Exhausted(r) THEN "INACTIVE" ELSE @]

Depreciated(now, r, m) ==
  [now EXCEPT !.acc = r.acc + Charge(r),
              !.book = r.book - Charge(r),
              !.last = m,
              !.status = IF Exhausted(r) THEN "INACTIVE" ELSE @]

\* The run row is created under @@unique([periodYear, periodMonth]).
WriteRun(p) ==
  LET r == req[p]  m == r.month  plan == Planned(r.seen, m, r.inactive)
  IN  /\ At(p, "run")
      /\ ~r.existing => runs[m] = 0
      /\ runs[m] < MaxRuns
      /\ runs' = [runs EXCEPT ![m] = @ + 1]
      /\ dep' = [dep EXCEPT ![m] = (@ \ r.old) \union
           {[asset |-> a, amount |-> Charge(r.seen[a]), execution |-> runs[m] + 1]
              : a \in plan}]
      /\ asset' = [a \in Assets |->
           IF a \in plan THEN Depreciated(asset[a], r.seen[a], m) ELSE asset[a]]
      /\ \E post \in Posts :
           glAccum' = [a \in Assets |->
             glAccum[a] + IF post /\ a \in plan THEN Charge(r.seen[a]) ELSE 0]
      /\ Finish(p)
      /\ UNCHANGED glCost

\* A check, a constraint or the entry's period refuses, or the server dies.
Abort(p) ==
  /\ ~At(p, "idle")
  /\ Finish(p)
  /\ UNCHANGED <<asset, runs, dep, glCost, glAccum>>

Step(p) ==
  \/ ReadForImprovement(p) \/ WriteImprovement(p)
  \/ ReadForDisposal(p) \/ WriteDisposal(p)
  \/ PlanRun(p) \/ FindRun(p) \/ ReplaceRun(p) \/ WriteRun(p)
  \/ Abort(p)

Next ==
  \/ \E a \in Assets : Create(a)
  \/ \E p \in Procs : Step(p)

Spec == Init /\ [][Next]_vars
-----------------------------------------------------------------------------
\* buildSchedule: the rows of an asset after each month, depreciated by the
\* loop of the plan over a horizon that covers every month.
Schedule(r) ==
  LET after[m \in 0..LastMonth] ==
        IF m = 0 THEN r
        ELSE LET q == after[m - 1]
             IN  IF Due(q, m) /\ Charge(q) > 0 THEN Depreciated(q, q, m) ELSE q
  IN  after

-----------------------------------------------------------------------------
(* Properties of any requests, however they interleave. *)

\* "Ya existe una ejecucion para el periodo": unless repeats are allowed, a
\* month charges an asset at most once, whatever runs race.
OncePerMonth ==
  \A m \in Months : \A x, y \in dep[m] : x.asset = y.asset => x = y

-----------------------------------------------------------------------------
(* Properties of requests one at a time (a single process). *)

InUse(a) == asset[a].status \in {"ACTIVE", "INACTIVE"}

\* bookValue is what is left to depreciate (no residual increases): create,
\* registerImprovement and runDepreciation each keep it so on their own.
BookIsPending ==
  \A a \in Assets : InUse(a) => asset[a].book = Pending(asset[a])

\* Depreciation stops at the residual value (no residual increases).
NeverBelowResidual ==
  \A a \in Assets : 0 <= asset[a].acc /\ 0 <= Pending(asset[a])

\* The entries of additions, improvements, runs (repeated ones too) and
\* disposals, each computed on its own, add up to the asset's own totals, and
\* to zero after its disposal (every request posts).
LedgerAgrees ==
  \A a \in Assets :
    /\ glCost[a] = IF InUse(a) THEN asset[a].cost ELSE 0
    /\ glAccum[a] = IF InUse(a) THEN asset[a].acc ELSE 0

\* What the run of a month charges an asset, by its movements.
ChargedIn(m, a) ==
  SumFunction([x \in dep[m] |-> IF x.asset = a THEN x.amount ELSE 0])

\* The movements of the runs add up to accumulatedDepreciation while no run was
\* repeated: a repeated run deletes the movements of assets it no longer charges.
AccumulatedIsMovements ==
  (\A m \in Months : runs[m] <= 1) =>
    \A a \in Assets :
      InUse(a) => asset[a].acc = SumFunction([m \in Months |-> ChargedIn(m, a)])

\* "El activo ya fue dado de baja": a disposed asset keeps status and totals,
\* though includeInactive drops the status from the filter of the runs.
KeepsDisposed ==
  \A a \in Assets : asset[a].status = "DISPOSED" => asset'[a] = asset[a]

DisposedIsFinal == [][KeepsDisposed]_asset

\* The asset still costs what it was created with: with costs and amounts of
\* improvements chosen so that no sum of them is a cost.
Unimproved(a) == asset[a].cost \in Costs

\* The asset was charged every month since it started.
NoGap(a) ==
  /\ InUse(a)
  /\ \A m \in asset[a].start..asset[a].last : \E x \in dep[m] : x.asset = a

Fresh(r) == [r EXCEPT !.acc = 0, !.book = Base(r), !.last = 0]

\* previewSchedule, asked when the asset was created, foresees what the monthly
\* runs charge later, repeated or not, to an asset nothing was added to.
PreviewForesees ==
  \A a \in Assets :
    NoGap(a) /\ Unimproved(a) =>
      LET foreseen == Schedule(Fresh(asset[a]))[asset[a].last]
      IN  asset[a].acc = foreseen.acc /\ asset[a].book = foreseen.book
=============================================================================
