----------------------------- MODULE Inventory -----------------------------
(***************************************************************************)
(* InventoryService: stock by layers.  adjust, transfer and produce take   *)
(* from the layers of an item in a warehouse, first expired first, record  *)
(* what they took.  What they post to the journal after the commit, one    *)
(* transaction per move, is not read here and is left out; the amount it   *)
(* takes, quantity of the move times its unit cost, is kept in amounts.    *)
(*                                                                         *)
(* consumeLayers reads the layers and writes absolute remaining quantities *)
(* under READ COMMITTED: a request reads in one step and commits in        *)
(* another.  The row locks its updates take are left out: they only remove *)
(* interleavings.  Quantities are in base units.  Costs count the last     *)
(* decimal of their columns, Decimal(14,6): a quotient stored in one is    *)
(* rounded to it.                                                          *)
(***************************************************************************)
EXTENDS Integers, FiniteSetsExt

CONSTANTS
  Procs,        \* concurrent requests
  Items,
  NoItem,       \* item of a layer not created yet
  Warehouses,
  MaxLayers,    \* bound: layers created
  MaxStale,     \* bound: commits based on layers read stale
  Recipe,       \* explodeRequirements: leaves of one unit of each item
  Intakes,      \* incoming adjustments; expiry date 0 is null
  Quantities,   \* quantities of the other requests
  Negatives     \* values of allowNegative

ASSUME ConstantsAssumption ==
  /\ Items # {} /\ NoItem \notin Items /\ IsFiniteSet(Items)
  /\ Warehouses # {}
  /\ MaxLayers \in Nat
  /\ MaxStale \in Nat
  /\ Recipe \in [Items -> [Items -> Nat]]
  /\ Quantities \subseteq Nat \ {0}
  /\ Intakes \subseteq [item : Items, qty : Nat, cost : Nat, expiry : Nat]
  /\ Negatives \subseteq BOOLEAN

VARIABLES
  layer,      \* the StockLayer table, with the consumptions of each layer
  unitCost,   \* its cost column
  kardex,     \* sum of the StockMove quantities of an item in a warehouse
  amounts,    \* sum of the amounts of the moves of an item
  req,        \* what each request has read so far
  stale,      \* history: commits based on layers read stale
  overdrawn,  \* history: where production took more than the layers had
  gone        \* history: units of an item that went out at an average cost

vars == <<layer, unitCost, kardex, amounts, req, stale, overdrawn, gone>>

LayerIds == 1..MaxLayers      \* in order of creation
Places == Items \X Warehouses

-----------------------------------------------------------------------------
Layer == [item   : Items \union {NoItem},
          wh     : Warehouses,
          qty    : Nat,       \* quantity of the move that brought it in
          left   : Nat,       \* remainingQty
          expiry : Nat,
          used   : Nat]       \* sum of its StockConsumption rows

Stages == {"idle", "read", "again", "write"}
Kinds == {"adjust", "transfer", "produce"}

Request == [stage    : Stages,
            kind     : Kinds,
            item     : Items,
            from     : Warehouses,
            to       : Warehouses,
            qty      : Nat,
            negative : BOOLEAN,
            todo     : SUBSET Items,      \* items whose layers it has yet to read
            again    : SUBSET Items,      \* items that fell short
            seen     : [LayerIds -> Nat], \* remainingQty of the layers it read
            take     : [LayerIds -> Nat], \* what it records as consumed
            wiped    : SUBSET LayerIds,   \* layers emptied by a failed consumeLayers
            fresh    : BOOLEAN]           \* its two reads of an item agree

SomeItem == CHOOSE i \in Items : TRUE
SomeWarehouse == CHOOSE w \in Warehouses : TRUE
None == [l \in LayerIds |-> 0]

NoLayer == [item |-> NoItem, wh |-> SomeWarehouse, qty |-> 0, left |-> 0,
            expiry |-> 0, used |-> 0]

Idle == [stage |-> "idle", kind |-> "adjust", item |-> SomeItem,
         from |-> SomeWarehouse, to |-> SomeWarehouse, qty |-> 0,
         negative |-> FALSE, todo |-> {}, again |-> {}, seen |-> None,
         take |-> None, wiped |-> {}, fresh |-> TRUE]

Init ==
  /\ layer = [l \in LayerIds |-> NoLayer]
  /\ unitCost = [l \in LayerIds |-> 0]
  /\ kardex = [x \in Places |-> 0]
  /\ amounts = [i \in Items |-> 0]
  /\ req = [p \in Procs |-> Idle]
  /\ stale = 0
  /\ overdrawn = {}
  /\ gone = [i \in Items |-> 0]

-----------------------------------------------------------------------------
(* Consuming layers. *)

At(p, stage) == req[p].stage = stage
Created == {l \in LayerIds : layer[l].item # NoItem}
LayersOf(i, w) == {l \in LayerIds : layer[l].item = i /\ layer[l].wh = w}
Open(i, w) == {l \in LayersOf(i, w) : layer[l].left > 0}

Total(f, S) == SumFunctionOnSet(f, S)

MutBefore(k, l) == k < l      \* mutant: FIFO whatever expires first

\* FEFO: by expiry date, layers without one last, then by creation.
Before(k, l) ==
  LET a == layer[k].expiry  b == layer[l].expiry
  IN  (a # 0 /\ (b = 0 \/ a < b)) \/ (a = b /\ k < l)

InOrder(strategy, k, l) == IF strategy = "FEFO" THEN Before(k, l) ELSE k < l

\* Takings of qty from layers S, each emptied before the next in order is touched.
Takings(S, qty, strategy) ==
  {t \in [S -> 0..qty] :
     /\ \A l \in S : t[l] <= layer[l].left
     /\ \A k, l \in S : InOrder(strategy, k, l) /\ t[l] > 0 => t[k] = layer[k].left
     /\ Total(t, S) = qty \/ \A l \in S : t[l] = layer[l].left}

Demand(r, i) == IF r.kind = "produce" THEN r.qty * Recipe[r.item][i] ELSE r.qty

\* What it takes from the layers of one item, added to what it took before.
WithTaken(r, i, S, t) ==
  [r EXCEPT
     !.todo = @ \ {i},
     !.stage = IF r.todo \ {i} = {} THEN "write" ELSE "read",
     !.seen = [l \in LayerIds |->
                 IF l \in S \union (LayersOf(i, r.from) \ r.wiped)
                 THEN layer[l].left ELSE @[l]],
     !.take = [l \in LayerIds |-> IF l \in S THEN t[l] ELSE @[l]]]

\* consumeLayers of the next item of the request.
ReadLayers(p) ==
  /\ At(p, "read")
  /\ \E i \in req[p].todo :
       LET r == req[p]  S == Open(i, r.from)
       IN  \E t \in Takings(S, Demand(r, i), "FEFO") :
             /\ Total(t, S) = Demand(r, i)
             /\ req' = [req EXCEPT ![p] = WithTaken(r, i, S, t)]
  /\ UNCHANGED <<layer, unitCost, kardex, amounts, stale, overdrawn, gone>>

\* consumeLayersAllowNegative: consumeLayers throws "Stock insuficiente" when it
\* has already emptied every layer; the catch goes on in the same transaction.
FallShort(p) ==
  /\ At(p, "read") /\ req[p].negative
  /\ \E i \in req[p].todo :
       LET r == req[p]  S == Open(i, r.from)
       IN  /\ Total([l \in S |-> layer[l].left], S) < Demand(r, i)
           /\ req' = [req EXCEPT ![p] =
                [r EXCEPT !.stage = "again", !.again = @ \union {i},
                          !.wiped = @ \union S,
                          !.seen = [l \in LayerIds |->
                             IF l \in LayersOf(i, r.from) THEN layer[l].left ELSE @[l]]]]
  /\ UNCHANGED <<layer, unitCost, kardex, amounts, stale, overdrawn, gone>>

\* The catch: the layers it sees now, its own writes included, oldest first.
ReadAgain(p) ==
  /\ At(p, "again")
  /\ \E i \in req[p].again \intersect req[p].todo :
       LET r == req[p]  S == Open(i, r.from) \ r.wiped
       IN  \E t \in Takings(S, Demand(r, i), "FIFO") :
             req' = [req EXCEPT ![p] =
               [WithTaken(r, i, S, t) EXCEPT !.fresh = @ /\ S = {}]]
  /\ UNCHANGED <<layer, unitCost, kardex, amounts, stale, overdrawn, gone>>

-----------------------------------------------------------------------------
(* The three handlers: start, then write everything at the commit.         *)

StartOut(p) ==
  /\ At(p, "idle")
  /\ \E i \in Items, w \in Warehouses, qty \in Quantities :
       req' = [req EXCEPT ![p] =
         [Idle EXCEPT !.stage = "read", !.kind = "adjust", !.item = i,
                      !.from = w, !.qty = qty, !.todo = {i}]]
  /\ UNCHANGED <<layer, unitCost, kardex, amounts, stale, overdrawn, gone>>

StartTransfer(p) ==
  /\ At(p, "idle")
  /\ \E i \in Items, v, w \in Warehouses, qty \in Quantities :
       /\ v # w
       /\ req' = [req EXCEPT ![p] =
            [Idle EXCEPT !.stage = "read", !.kind = "transfer", !.item = i,
                         !.from = v, !.to = w, !.qty = qty, !.todo = {i}]]
  /\ UNCHANGED <<layer, unitCost, kardex, amounts, stale, overdrawn, gone>>

Leaves(i) == {k \in Items : Recipe[i][k] > 0}

StartProduce(p) ==
  /\ At(p, "idle")
  /\ \E i \in Items, w \in Warehouses, qty \in Quantities, negative \in Negatives :
       /\ Leaves(i) # {}
       /\ req' = [req EXCEPT ![p] =
            [Idle EXCEPT !.stage = "read", !.kind = "produce", !.item = i,
                         !.from = w, !.qty = qty, !.negative = negative,
                         !.todo = Leaves(i)]]
  /\ UNCHANGED <<layer, unitCost, kardex, amounts, stale, overdrawn, gone>>

\* The items it consumes, and what the layers it took from cost.
Consumed(r) == IF r.kind = "produce" THEN Leaves(r.item) ELSE {r.item}
TakenOf(r, i) == {l \in LayersOf(i, r.from) : r.take[l] > 0}
MutCostOf(r, i) ==      \* mutant: every unit at the cost of the first layer
  IF TakenOf(r, i) = {} THEN 0
  ELSE Total(r.take, TakenOf(r, i)) * unitCost[Min(TakenOf(r, i))]
CostOf(r, i) == Total([l \in LayerIds |-> r.take[l] * unitCost[l]], TakenOf(r, i))

\* What it read of the layers it consumes no longer holds.
Stale(r) ==
  \/ ~r.fresh
  \/ \E i \in Consumed(r) : \E l \in LayersOf(i, r.from) : layer[l].left # r.seen[l]

CountStale(r) ==
  /\ stale' = stale + (IF Stale(r) THEN 1 ELSE 0)
  /\ stale' <= MaxStale

MutAfterTaking(r, l) ==      \* mutant: a layer it took from keeps what it had
  IF r.take[l] > 0 THEN [layer[l] EXCEPT !.used = @ + r.take[l]] ELSE layer[l]

MutDecrement(r, l) ==      \* mutant: the row's remainingQty is decremented
  IF r.take[l] > 0
  THEN [layer[l] EXCEPT !.left = @ - r.take[l], !.used = @ + r.take[l]]
  ELSE IF l \in r.wiped THEN [layer[l] EXCEPT !.left = 0]
  ELSE layer[l]

\* The absolute remainingQty computed from what it read.
AfterTaking(r, l) ==
  IF r.take[l] > 0
  THEN [layer[l] EXCEPT !.left = r.seen[l] - r.take[l], !.used = @ + r.take[l]]
  ELSE IF l \in r.wiped THEN [layer[l] EXCEPT !.left = 0]
  ELSE layer[l]

\* ids are given in order of creation
Follow(ids) == \A l \in ids : \A k \in 1..l : k \in Created \union ids
NewLayers == {ids \in SUBSET (LayerIds \ Created) : Follow(ids)}

Lower(r, x) == [x EXCEPT ![<<r.item, r.from>>] = @ - r.qty]

\* Unit cost of qty units that cost total, as the column keeps it.
UnitCostOf(total, qty) ==
  IF qty = 0 THEN 0 ELSE (2 * total + qty) \div (2 * qty)

\* adjust OUT: the move is valued at the average cost of what it took.
WriteOut(p) ==
  LET r == req[p]
  IN  /\ At(p, "write") /\ r.kind = "adjust"
      /\ layer' = [l \in LayerIds |-> AfterTaking(r, l)]
      /\ UNCHANGED unitCost
      /\ kardex' = Lower(r, kardex)
      /\ amounts' = [amounts EXCEPT
           ![r.item] = @ - r.qty * UnitCostOf(CostOf(r, r.item), r.qty)]
      /\ gone' = [gone EXCEPT ![r.item] = @ + r.qty]
      /\ req' = [req EXCEPT ![p] = Idle]
      /\ CountStale(r)
      /\ UNCHANGED overdrawn

\* adjust IN
AdjustIn(p) ==
  /\ At(p, "idle")
  /\ \E l \in LayerIds, in \in Intakes, w \in Warehouses :
       /\ {l} \in NewLayers
       /\ layer' = [layer EXCEPT ![l] =
            [item |-> in.item, wh |-> w, qty |-> in.qty, left |-> in.qty,
             expiry |-> in.expiry, used |-> 0]]
       /\ unitCost' = [unitCost EXCEPT ![l] = in.cost]
       /\ kardex' = [kardex EXCEPT ![<<in.item, w>>] = @ + in.qty]
       /\ amounts' = [amounts EXCEPT ![in.item] = @ + in.qty * in.cost]
  /\ UNCHANGED <<req, stale, overdrawn, gone>>

MutMirrorLayer(r, l) ==      \* mutant: the new layer does not expire
  [item |-> r.item, wh |-> r.to, qty |-> r.take[l], left |-> r.take[l],
   expiry |-> 0, used |-> 0]

MirrorLayer(r, l) ==
  [item |-> r.item, wh |-> r.to, qty |-> r.take[l], left |-> r.take[l],
   expiry |-> layer[l].expiry, used |-> 0]

\* transfer: every layer it took from is mirrored at the destination, in the
\* order it was consumed; nothing is posted.
WriteTransfer(p) ==
  LET r == req[p]
      taken == TakenOf(r, r.item)
  IN  /\ At(p, "write") /\ r.kind = "transfer"
      /\ \E new \in NewLayers : \E source \in [new -> taken] :
           /\ \A k, l \in new : k < l => Before(source[k], source[l])
           /\ \A t \in taken : \E l \in new : source[l] = t
           /\ layer' = [l \in LayerIds |->
                IF l \in new THEN MirrorLayer(r, source[l]) ELSE AfterTaking(r, l)]
           /\ unitCost' = [l \in LayerIds |->
                IF l \in new THEN unitCost[source[l]] ELSE unitCost[l]]
      /\ kardex' = [Lower(r, kardex) EXCEPT ![<<r.item, r.to>>] = @ + r.qty]
      /\ req' = [req EXCEPT ![p] = Idle]
      /\ CountStale(r)
      /\ UNCHANGED <<amounts, overdrawn, gone>>

\* The move of a leaf is valued at the average cost of what was taken of it.
LeafAmount(r, i) ==
  Demand(r, i) * UnitCostOf(CostOf(r, i), Total(r.take, TakenOf(r, i)))

\* produce: the leaves go out, the product comes in as a layer at their cost.
WriteProduce(p) ==
  LET r == req[p]
      leaves == Leaves(r.item)
      cost == UnitCostOf(Total([i \in Items |-> CostOf(r, i)], leaves), r.qty)
  IN  /\ At(p, "write") /\ r.kind = "produce"
      /\ \E new \in LayerIds :
           /\ {new} \in NewLayers
           /\ layer' = [l \in LayerIds |->
                IF l = new
                THEN [item |-> r.item, wh |-> r.from, qty |-> r.qty,
                      left |-> r.qty, expiry |-> 0, used |-> 0]
                ELSE AfterTaking(r, l)]
           /\ unitCost' = [unitCost EXCEPT ![new] = cost]
      /\ kardex' = [x \in Places |->
           IF x[2] # r.from THEN kardex[x]
           ELSE kardex[x] - Demand(r, x[1]) + IF x[1] = r.item THEN r.qty ELSE 0]
      /\ amounts' = [i \in Items |->
           amounts[i] + (IF i = r.item THEN r.qty * cost ELSE 0)
                      - (IF i \in leaves THEN LeafAmount(r, i) ELSE 0)]
      /\ req' = [req EXCEPT ![p] = Idle]
      /\ CountStale(r)
      /\ overdrawn' = overdrawn \union (r.again \X {r.from})
      /\ gone' = [i \in Items |-> gone[i] + IF i \in leaves THEN Demand(r, i) ELSE 0]

\* A check or a constraint refuses, or the server dies: nothing is committed.
Abort(p) ==
  /\ ~At(p, "idle")
  /\ req' = [req EXCEPT ![p] = Idle]
  /\ UNCHANGED <<layer, unitCost, kardex, amounts, stale, overdrawn, gone>>

Step(p) ==
  \/ StartOut(p) \/ StartTransfer(p) \/ StartProduce(p)
  \/ ReadLayers(p) \/ FallShort(p) \/ ReadAgain(p)
  \/ AdjustIn(p) \/ WriteOut(p) \/ WriteTransfer(p) \/ WriteProduce(p)
   \/ Abort(p)

Next == \E p \in Procs : Step(p)

Spec == Init /\ [][Next]_vars
-----------------------------------------------------------------------------
TypeOK ==
  /\ layer \in [LayerIds -> Layer]
  /\ unitCost \in [LayerIds -> Nat]
  /\ kardex \in [Places -> Int]
  /\ amounts \in [Items -> Int]
  /\ req \in [Procs -> Request]
  /\ stale \in 0..MaxStale
  /\ overdrawn \subseteq Places
  /\ gone \in [Items -> Nat]

(* Properties of any requests, however they interleave. *)

\* Absolute writes of stale reads lose consumptions, but never leave a layer
\* with less than nothing or with more than came in.
LayersBounded == \A l \in LayerIds : layer[l].left \in 0..layer[l].qty

-----------------------------------------------------------------------------
(* Properties of requests that interleave as long as none commits on layers *)
(* it read stale.                                                           *)

\* "Registrar consumos": what a layer lost since it came in is what its
\* StockConsumption rows say (where production never overdrew).
Explained(l) == layer[l].qty - layer[l].left = layer[l].used

ConsumptionsExplain ==
  stale = 0 => \A l \in Created :
              <<layer[l].item, layer[l].wh>> \notin overdrawn => Explained(l)

\* The stock shown (stockOf, from the moves) and the stock that can be taken
\* (the layers) agree, whatever handlers moved it; where production overdrew,
\* the moves show less.
StockOf(i, w) == Total([l \in LayersOf(i, w) |-> layer[l].left], LayersOf(i, w))

StockAgrees ==
  stale = 0 => \A x \in Places :
              /\ kardex[x] <= StockOf(x[1], x[2])
              /\ x \notin overdrawn => kardex[x] = StockOf(x[1], x[2])

ValueOf(i) ==
  Total([l \in LayerIds |-> layer[l].left * unitCost[l]], {l \in Created : layer[l].item = i})

\* The amounts postStockMove takes to the inventory account (quantity times the
\* rounded unit cost of each move, before the line's own column rounds it to the
\* cent) follow the value of the layers, whatever adjusted, transferred or
\* produced: they are apart by half a last decimal at most for every unit that
\* went out at an average cost, so they never part for a reason other than that
\* rounding.
AmountsAreValue ==
  stale = 0 => \A i \in Items :
    ({i} \X Warehouses) \intersect overdrawn = {} =>
      LET apart == amounts[i] - ValueOf(i)
      IN  2 * apart <= gone[i] /\ 2 * (0 - apart) <= gone[i]

\* FEFO: a layer gives nothing while one that expires before it has stock left.
ExpiresBefore(k, l) ==
  layer[k].expiry # 0 /\ layer[l].expiry \notin 1..layer[k].expiry

TakesFirstExpired ==
  \A k, l \in Created :
    /\ layer[k].item = layer[l].item /\ layer[k].wh = layer[l].wh
    /\ ExpiresBefore(k, l)
    /\ layer'[l].left < layer[l].left
    => layer'[k].left = 0

FefoRespected == [][stale' = 0 => TakesFirstExpired]_layer

\* "preserva capas": a transfer leaves how much of an item there is at each
\* cost and expiry date unchanged, over all warehouses together.
Holding(table, costs, i, cost, expiry) ==
  Total([l \in LayerIds |-> table[l].left],
        {l \in LayerIds : /\ table[l].item = i /\ costs[l] = cost
                          /\ table[l].expiry = expiry})

TransferKeepsLayers ==
  [][\A p \in Procs :
       /\ stale' = 0 /\ WriteTransfer(p)
       => \A l \in LayerIds :
            LET x == layer'[l]  cost == unitCost'[l]
            IN  x.item # NoItem =>
                  Holding(layer', unitCost', x.item, cost, x.expiry)
                    = Holding(layer, unitCost, x.item, cost, x.expiry)]_layer
=============================================================================
