-------------------------- MODULE InventoryProofs --------------------------
(***************************************************************************)
(* The layers of Inventory: what is proved for any number of requests,     *)
(* items, warehouses and layers, and any recipe.                           *)
(***************************************************************************)
EXTENDS Inventory, SumTheorems, TLAPS

\* What a request may remember of the layer table.  It takes only from layers
\* of the items it has read, in its warehouse, and never more than it saw in
\* them; it empties only layers of items that fell short, and only production
\* does.
TakesWhatItSaw(r) ==
  \A l \in LayerIds :
    r.take[l] > 0 => /\ layer[l].item \in Consumed(r) \ r.todo
                     /\ layer[l].wh = r.from
                     /\ r.take[l] <= r.seen[l]
                     /\ r.seen[l] <= layer[l].qty

EmptiesWhatFellShort(r) ==
  /\ r.again # {} => r.kind = "produce"
  /\ \A l \in r.wiped : layer[l].item \in r.again /\ layer[l].wh = r.from

Remembers(r) ==
  /\ r.todo \subseteq Consumed(r)
  /\ r.kind # "produce" => ~r.negative
  /\ TakesWhatItSaw(r)
  /\ EmptiesWhatFellShort(r)

\* The variables the layers depend on.
LayersType ==
  /\ layer \in [LayerIds -> Layer]
  /\ req \in [Procs -> Request]
  /\ stale \in Nat
  /\ overdrawn \subseteq Places

IInv ==
  /\ LayersType
  /\ \A p \in Procs : Remembers(req[p])
  /\ LayersBounded
  /\ ConsumptionsExplain

\* A layer keeps its item, its warehouse and the quantity that came in.
Keeps ==
  \A l \in Created : /\ layer'[l].item = layer[l].item
                     /\ layer'[l].wh = layer[l].wh
                     /\ layer'[l].qty = layer[l].qty

-----------------------------------------------------------------------------
LEMMA RecipeType == ASSUME NEW i \in Items, NEW k \in Items PROVE Recipe[i][k] \in Nat
BY ConstantsAssumption

LEMMA DemandType ==
  ASSUME NEW r \in Request, NEW i \in Items PROVE Demand(r, i) \in Nat
BY RecipeType DEF Demand, Request

LEMMA ConsumedType ==
  ASSUME NEW r \in Request PROVE Consumed(r) \subseteq Items
BY DEF Consumed, Leaves, Request

LEMMA IdleType == Idle \in Request
<1>1. SomeItem \in Items /\ SomeWarehouse \in Warehouses
  BY ConstantsAssumption DEF SomeItem, SomeWarehouse
<1>2. None \in [LayerIds -> Nat] BY DEF None
<1> QED BY <1>1, <1>2 DEF Idle, Request, Stages, Kinds

LEMMA IdleRemembers == Remembers(Idle)
<1>1. \A l \in LayerIds : ~(Idle.take[l] > 0) BY DEF Idle, None
<1> QED BY <1>1 DEF Remembers, TakesWhatItSaw, EmptiesWhatFellShort, Idle

\* Commits of other requests leave what a request remembers true.
LEMMA OthersRemember ==
  ASSUME LayersType, Keeps, NEW q \in Procs, Remembers(req[q]), req'[q] = req[q]
  PROVE  Remembers(req[q])'
<1> DEFINE r == req[q]
<1>1. r \in Request BY DEF LayersType
<1>2. /\ Consumed(r) \subseteq Items
      /\ r.again \subseteq Items
      /\ r.wiped \subseteq LayerIds
  BY <1>1, ConsumedType DEF Request
<1>3. \A l \in LayerIds : layer[l].item \in Items => l \in Created
  BY ConstantsAssumption DEF Created
<1>4. TakesWhatItSaw(r)'
  BY <1>2, <1>3 DEF Remembers, TakesWhatItSaw, Keeps, Consumed, Leaves
<1>5. EmptiesWhatFellShort(r)'
  BY <1>2, <1>3 DEF Remembers, EmptiesWhatFellShort, Keeps
<1> QED BY <1>4, <1>5 DEF Remembers, Consumed, Leaves

LEMMA AfterTakingType ==
  ASSUME LayersType, LayersBounded, NEW r \in Request, Remembers(r), NEW l \in LayerIds
  PROVE  /\ AfterTaking(r, l) \in Layer
         /\ AfterTaking(r, l).item = layer[l].item
         /\ AfterTaking(r, l).wh = layer[l].wh
         /\ AfterTaking(r, l).qty = layer[l].qty
         /\ AfterTaking(r, l).left \in 0..layer[l].qty
<1>1. layer[l] \in Layer /\ layer[l].left \in 0..layer[l].qty
  BY DEF LayersType, LayersBounded
<1>2. r.take[l] \in Nat /\ r.seen[l] \in Nat BY DEF Request
<1>3. CASE r.take[l] > 0
  <2>1. r.seen[l] - r.take[l] \in 0..layer[l].qty
    BY <1>1, <1>2, <1>3 DEF Remembers, TakesWhatItSaw, Layer
  <2>2. PICK x \in Layer : x = layer[l] BY <1>1
  <2>3. PICK n \in Nat, u \in Nat :
          n = r.seen[l] - r.take[l] /\ u = layer[l].used + r.take[l]
    BY <1>1, <1>2, <2>1 DEF Layer
  <2>4. AfterTaking(r, l) = [x EXCEPT !.left = n, !.used = u]
    BY <1>3, <2>2, <2>3 DEF AfterTaking
  <2>5. /\ [x EXCEPT !.left = n, !.used = u] \in Layer
        /\ [x EXCEPT !.left = n, !.used = u].item = x.item
        /\ [x EXCEPT !.left = n, !.used = u].wh = x.wh
        /\ [x EXCEPT !.left = n, !.used = u].qty = x.qty
        /\ [x EXCEPT !.left = n, !.used = u].left = n
    BY DEF Layer
  <2> QED BY <2>1, <2>2, <2>3, <2>4, <2>5
<1>4. CASE ~(r.take[l] > 0)
  <2>1. AfterTaking(r, l) = IF l \in r.wiped THEN [layer[l] EXCEPT !.left = 0]
                            ELSE layer[l]
    BY <1>4 DEF AfterTaking
  <2> QED BY <1>1, <2>1 DEF Layer
<1> QED BY <1>2, <1>3, <1>4

\* What a commit on what it still holds true leaves of a layer is explained,
\* unless the layer was emptied for an item that fell short.
LEMMA AfterTakingExplained ==
  ASSUME LayersType, LayersBounded, NEW r \in Request, Remembers(r), ~Stale(r),
         NEW l \in LayerIds, Explained(l), l \notin r.wiped
  PROVE  AfterTaking(r, l).qty - AfterTaking(r, l).left = AfterTaking(r, l).used
<1>1. layer[l] \in Layer BY DEF LayersType
<1>2. r.take[l] \in Nat /\ r.seen[l] \in Nat BY DEF Request
<1>3. CASE r.take[l] > 0
  <2>1. layer[l].item \in Consumed(r) /\ layer[l].wh = r.from
    BY <1>3 DEF Remembers, TakesWhatItSaw
  <2>2. layer[l].left = r.seen[l] BY <2>1 DEF Stale, LayersOf
  <2> QED BY <1>1, <1>2, <1>3, <2>2 DEF AfterTaking, Explained, Layer
<1>4. CASE ~(r.take[l] > 0)
  BY <1>4 DEF AfterTaking, Explained
<1> QED BY <1>3, <1>4

\* A request that writes: the new layers are as they came in, the others are
\* what its takings leave of them.
Writes(r, new) ==
  /\ new \subseteq LayerIds \ Created
  /\ \A l \in new : /\ layer'[l] \in Layer
                    /\ layer'[l].left = layer'[l].qty
                    /\ layer'[l].used = 0
  /\ \A l \in LayerIds \ new : layer'[l] = AfterTaking(r, l)
  /\ layer' = [l \in LayerIds |-> layer'[l]]
  /\ overdrawn \subseteq overdrawn'
  /\ r.again \X {r.from} \subseteq overdrawn'
  /\ CountStale(r)

LEMMA WritesKeep ==
  ASSUME LayersType, LayersBounded, ConsumptionsExplain,
         NEW p \in Procs, Remembers(req[p]),
         NEW new, Writes(req[p], new)
  PROVE  /\ layer' \in [LayerIds -> Layer]
         /\ Keeps
         /\ stale' \in Nat
         /\ LayersBounded'
         /\ ConsumptionsExplain'
<1> DEFINE r == req[p]
<1>1. r \in Request BY DEF LayersType
<1>2. \A l \in LayerIds \ new :
        /\ layer'[l] \in Layer
        /\ layer'[l].item = layer[l].item
        /\ layer'[l].wh = layer[l].wh
        /\ layer'[l].qty = layer[l].qty
        /\ layer'[l].left \in 0..layer[l].qty
  BY <1>1, AfterTakingType DEF Writes
<1>3. layer' \in [LayerIds -> Layer] BY <1>2 DEF Writes
<1>4. Keeps BY <1>2 DEF Keeps, Writes, Created
<1>5. stale' \in Nat /\ (stale' = 0 => stale = 0 /\ ~Stale(r))
  BY DEF LayersType, Writes, CountStale
<1>6. LayersBounded'
  <2> SUFFICES ASSUME NEW l \in LayerIds PROVE layer'[l].left \in 0..layer'[l].qty
    BY DEF LayersBounded
  <2>1. CASE l \in new BY <2>1 DEF Writes, Layer
  <2>2. CASE l \notin new BY <1>2, <2>2
  <2> QED BY <2>1, <2>2
<1>7. ConsumptionsExplain'
  <2> SUFFICES ASSUME stale' = 0, NEW l \in LayerIds, layer'[l].item # NoItem,
                      <<layer'[l].item, layer'[l].wh>> \notin overdrawn'
               PROVE  layer'[l].qty - layer'[l].left = layer'[l].used
    BY DEF ConsumptionsExplain, Created, Explained
  <2>1. CASE l \in new BY <2>1 DEF Writes, Layer
  <2>2. CASE l \notin new
    <3>1. layer'[l].item = layer[l].item /\ layer'[l].wh = layer[l].wh
      BY <1>2, <2>2
    <3>2. l \in Created /\ <<layer[l].item, layer[l].wh>> \notin overdrawn
      BY <3>1 DEF Writes, Created
    <3>3. Explained(l) BY <1>5, <3>2 DEF ConsumptionsExplain
    <3>4. l \notin r.wiped
      BY <3>1 DEF Remembers, EmptiesWhatFellShort, Writes
    <3> QED BY <1>1, <1>5, <2>2, <3>3, <3>4, AfterTakingExplained DEF Writes
  <2> QED BY <2>1, <2>2
<1> QED BY <1>3, <1>4, <1>5, <1>6, <1>7

-----------------------------------------------------------------------------
(* Reading: what a request remembers after it read the layers of an item.  *)

LEMMA TakingsType ==
  ASSUME LayersType, NEW S \in SUBSET LayerIds, NEW qty \in Nat, NEW strategy,
         NEW t \in Takings(S, qty, strategy)
  PROVE  t \in [S -> Nat] /\ \A l \in S : t[l] <= layer[l].left
BY DEF Takings

LEMMA WithTakenRemembers ==
  ASSUME LayersType, LayersBounded, NEW r \in Request, Remembers(r),
         NEW i \in r.todo, NEW S \in SUBSET Open(i, r.from),
         NEW t \in [S -> Nat], \A l \in S : t[l] <= layer[l].left
  PROVE  WithTaken(r, i, S, t) \in Request /\ Remembers(WithTaken(r, i, S, t))
<1> DEFINE R == WithTaken(r, i, S, t)
           seen == [l \in LayerIds |->
                      IF l \in S \union (LayersOf(i, r.from) \ r.wiped)
                      THEN layer[l].left ELSE r.seen[l]]
           take == [l \in LayerIds |-> IF l \in S THEN t[l] ELSE r.take[l]]
           stage == IF r.todo \ {i} = {} THEN "write" ELSE "read"
<1>1. /\ \A l \in LayerIds : layer[l] \in Layer /\ layer[l].left \in 0..layer[l].qty
      /\ S \subseteq LayersOf(i, r.from) /\ S \subseteq LayerIds
  BY DEF LayersType, LayersBounded, Open, LayersOf
<1>2. \A l \in LayerIds : r.take[l] \in Nat /\ r.seen[l] \in Nat
  BY DEF Request
<1>3. seen \in [LayerIds -> Nat]
  BY <1>1, <1>2 DEF Layer
<1>4. take \in [LayerIds -> Nat] BY <1>1, <1>2
<1>5. R = [r EXCEPT !.todo = r.todo \ {i}, !.stage = stage, !.seen = seen, !.take = take]
  BY DEF WithTaken
<1>6. stage \in Stages BY DEF Stages
<1> HIDE DEF seen, take, stage
<1>7. R \in Request
  BY <1>3, <1>4, <1>5, <1>6, ZenonT(60) DEF Request
<1>8. /\ R.todo = r.todo \ {i} /\ R.seen = seen /\ R.take = take
      /\ R.kind = r.kind /\ R.item = r.item /\ R.from = r.from
      /\ R.negative = r.negative /\ R.again = r.again /\ R.wiped = r.wiped
  BY <1>5 DEF Request
<1> HIDE DEF R
<1>9. Consumed(R) = Consumed(r) BY <1>8 DEF Consumed
<1>10. TakesWhatItSaw(R)
  <2> SUFFICES ASSUME NEW l \in LayerIds, take[l] > 0
               PROVE  /\ layer[l].item \in Consumed(r) \ (r.todo \ {i})
                      /\ layer[l].wh = r.from
                      /\ take[l] <= seen[l]
                      /\ seen[l] <= layer[l].qty
    BY <1>8, <1>9 DEF TakesWhatItSaw
  <2>1. CASE l \in S
    <3>1. take[l] = t[l] /\ seen[l] = layer[l].left
      BY <2>1 DEF take, seen
    <3>2. layer[l].item = i /\ layer[l].wh = r.from
      BY <1>1, <2>1 DEF LayersOf
    <3> QED BY <1>1, <2>1, <3>1, <3>2 DEF Remembers, Layer
  <2>2. CASE l \notin S
    <3>1. take[l] = r.take[l] BY <2>2 DEF take
    <3>2. /\ layer[l].item \in Consumed(r) \ r.todo /\ layer[l].wh = r.from
          /\ r.take[l] <= r.seen[l] /\ r.seen[l] <= layer[l].qty
      BY <3>1 DEF Remembers, TakesWhatItSaw
    <3>3. l \notin LayersOf(i, r.from) BY <3>2 DEF LayersOf
    <3>4. seen[l] = r.seen[l] BY <2>2, <3>3 DEF seen
    <3> QED BY <3>1, <3>2, <3>4
  <2> QED BY <2>1, <2>2
<1>11. EmptiesWhatFellShort(R)
  BY <1>8 DEF Remembers, EmptiesWhatFellShort
<1> QED BY <1>7, <1>8, <1>9, <1>10, <1>11 DEF Remembers, R

LEMMA FallenShortRemembers ==
  ASSUME LayersType, LayersBounded, NEW r \in Request, Remembers(r), r.negative,
         NEW i \in r.todo, NEW S, S = Open(i, r.from),
         NEW R,
         R = [r EXCEPT !.stage = "again", !.again = @ \union {i},
                       !.wiped = @ \union S,
                       !.seen = [l \in LayerIds |->
                          IF l \in LayersOf(i, r.from) THEN layer[l].left ELSE @[l]]]
  PROVE  R \in Request /\ Remembers(R)
<1> DEFINE seen == [l \in LayerIds |->
                      IF l \in LayersOf(i, r.from) THEN layer[l].left ELSE r.seen[l]]
<1>1. \A l \in LayerIds : layer[l] \in Layer
  BY DEF LayersType
<1>2. \A l \in LayerIds : r.take[l] \in Nat /\ r.seen[l] \in Nat
  BY DEF Request
<1>3. seen \in [LayerIds -> Nat] BY <1>1, <1>2 DEF Layer
<1>4. R = [r EXCEPT !.stage = "again", !.again = r.again \union {i},
                    !.wiped = r.wiped \union S, !.seen = seen]
  OBVIOUS
<1> HIDE DEF seen
<1>5. i \in Items /\ S \subseteq LayerIds
  BY DEF Open, LayersOf, Request
<1>6. /\ r.again \union {i} \in SUBSET Items
       /\ r.wiped \union S \in SUBSET LayerIds
       /\ "again" \in Stages
  BY <1>5 DEF Request, Stages
<1>7. R \in Request
  BY <1>3, <1>4, <1>6 DEF Request
<1>8. /\ R.todo = r.todo /\ R.seen = seen /\ R.take = r.take
      /\ R.kind = r.kind /\ R.item = r.item /\ R.from = r.from
      /\ R.negative = r.negative /\ R.again = r.again \union {i}
      /\ R.wiped = r.wiped \union S
  BY <1>4 DEF Request
<1>9. Consumed(R) = Consumed(r) BY <1>8 DEF Consumed
<1>10. TakesWhatItSaw(R)
  <2> SUFFICES ASSUME NEW l \in LayerIds, r.take[l] > 0
               PROVE  /\ layer[l].item \in Consumed(r) \ r.todo
                      /\ layer[l].wh = r.from
                      /\ r.take[l] <= seen[l]
                      /\ seen[l] <= layer[l].qty
    BY <1>8, <1>9 DEF TakesWhatItSaw
  <2>1. /\ layer[l].item \in Consumed(r) \ r.todo /\ layer[l].wh = r.from
        /\ r.take[l] <= r.seen[l] /\ r.seen[l] <= layer[l].qty
    BY DEF Remembers, TakesWhatItSaw
  <2>2. seen[l] = r.seen[l] BY <2>1 DEF seen, LayersOf
  <2> QED BY <2>1, <2>2
<1>11. EmptiesWhatFellShort(R)
  BY <1>8 DEF Remembers, EmptiesWhatFellShort, Open, LayersOf
<1> QED BY <1>7, <1>8, <1>9, <1>10, <1>11 DEF Remembers

-----------------------------------------------------------------------------
(* The steps. *)

LEMMA RequestKeeps ==
  ASSUME IInv, NEW p \in Procs, NEW R \in Request, Remembers(R),
         req' = [req EXCEPT ![p] = R], UNCHANGED <<layer, stale, overdrawn>>
  PROVE  IInv'
<1>1. LayersType' BY DEF IInv, LayersType
<1>2. ASSUME NEW q \in Procs PROVE Remembers(req[q])'
  <2>1. Keeps BY DEF Keeps
  <2>2. CASE q = p
    <3>1. req'[q] = R BY <2>2 DEF IInv, LayersType
    <3> QED BY <3>1 DEF Remembers, TakesWhatItSaw, EmptiesWhatFellShort, Consumed, Leaves
  <2>3. CASE q # p
    <3>1. req'[q] = req[q] BY <2>3 DEF IInv, LayersType
    <3> QED BY <2>1, <3>1, OthersRemember DEF IInv
  <2> QED BY <2>2, <2>3
<1>3. LayersBounded' BY DEF IInv, LayersBounded
<1>4. ConsumptionsExplain' BY DEF IInv, ConsumptionsExplain, Created, Explained
<1> QED BY <1>1, <1>2, <1>3, <1>4 DEF IInv

LEMMA CommitKeeps ==
  ASSUME IInv, NEW p \in Procs, NEW new, Writes(req[p], new),
         req' = [req EXCEPT ![p] = Idle], overdrawn' \subseteq Places
  PROVE  IInv'
<1>1. /\ layer' \in [LayerIds -> Layer]
      /\ Keeps
      /\ stale' \in Nat
      /\ LayersBounded'
      /\ ConsumptionsExplain'
  BY WritesKeep DEF IInv
<1>2. LayersType' BY <1>1, IdleType DEF IInv, LayersType
<1>3. ASSUME NEW q \in Procs PROVE Remembers(req[q])'
  <2>1. CASE q = p
    <3>1. req'[q] = Idle BY <2>1 DEF IInv, LayersType
    <3>2. \A l \in LayerIds : ~(Idle.take[l] > 0) BY DEF Idle, None
    <3> QED BY <3>1, <3>2 DEF Remembers, TakesWhatItSaw, EmptiesWhatFellShort, Idle
  <2>2. CASE q # p
    <3>1. req'[q] = req[q] BY <2>2 DEF IInv, LayersType
    <3> QED BY <1>1, <3>1, OthersRemember DEF IInv
  <2> QED BY <2>1, <2>2
<1> QED BY <1>1, <1>2, <1>3 DEF IInv

LEMMA NothingTaken ==
  ASSUME NEW r \in Request, r.take = None, r.wiped = {}, r.again = {},
         r.todo \subseteq Consumed(r), r.kind # "produce" => ~r.negative
  PROVE  Remembers(r)
<1>1. \A l \in LayerIds : ~(r.take[l] > 0) BY DEF None
<1> QED BY <1>1 DEF Remembers, TakesWhatItSaw, EmptiesWhatFellShort

LEMMA StartOutKeeps == ASSUME IInv, NEW p \in Procs, StartOut(p) PROVE IInv'
<1>1. PICK i \in Items, w \in Warehouses, qty \in Quantities :
        req' = [req EXCEPT ![p] = [Idle EXCEPT
          !.stage = "read", !.kind = "adjust", !.item = i,
          !.from = w, !.qty = qty, !.todo = {i}]]
  BY DEF StartOut
<1> DEFINE R == [Idle EXCEPT
          !.stage = "read", !.kind = "adjust", !.item = i,
          !.from = w, !.qty = qty, !.todo = {i}]
<1>2. /\ qty \in Nat /\ "read" \in Stages /\ "adjust" \in Kinds
      /\ {i} \in SUBSET Items
  BY ConstantsAssumption DEF Stages, Kinds, Leaves
<1>3. R \in Request BY <1>2, IdleType DEF Request
<1>4. /\ R.take = None /\ R.wiped = {} /\ R.again = {}
      /\ R.kind = "adjust" /\ R.item = i /\ R.todo = {i}
      /\ R.kind # "produce" => ~R.negative
  BY DEF Idle
<1> HIDE DEF R
<1>5. Remembers(R) BY <1>3, <1>4, NothingTaken DEF Consumed
<1>6. UNCHANGED <<layer, stale, overdrawn>> BY DEF StartOut
<1>7. req' = [req EXCEPT ![p] = R] BY <1>1 DEF R
<1> QED BY <1>3, <1>5, <1>6, <1>7, RequestKeeps

LEMMA StartTransferKeeps == ASSUME IInv, NEW p \in Procs, StartTransfer(p) PROVE IInv'
<1>1. PICK i \in Items, v \in Warehouses, w \in Warehouses, qty \in Quantities :
        req' = [req EXCEPT ![p] = [Idle EXCEPT
          !.stage = "read", !.kind = "transfer", !.item = i,
          !.from = v, !.to = w, !.qty = qty, !.todo = {i}]]
  BY DEF StartTransfer
<1> DEFINE R == [Idle EXCEPT
          !.stage = "read", !.kind = "transfer", !.item = i,
          !.from = v, !.to = w, !.qty = qty, !.todo = {i}]
<1>2. /\ qty \in Nat /\ "read" \in Stages /\ "transfer" \in Kinds
      /\ {i} \in SUBSET Items
  BY ConstantsAssumption DEF Stages, Kinds, Leaves
<1>3. R \in Request BY <1>2, IdleType DEF Request
<1>4. /\ R.take = None /\ R.wiped = {} /\ R.again = {}
      /\ R.kind = "transfer" /\ R.item = i /\ R.todo = {i}
      /\ R.kind # "produce" => ~R.negative
  BY DEF Idle
<1> HIDE DEF R
<1>5. Remembers(R) BY <1>3, <1>4, NothingTaken DEF Consumed
<1>6. UNCHANGED <<layer, stale, overdrawn>> BY DEF StartTransfer
<1>7. req' = [req EXCEPT ![p] = R] BY <1>1 DEF R
<1> QED BY <1>3, <1>5, <1>6, <1>7, RequestKeeps

LEMMA FreshIsNotRemembered ==
  ASSUME NEW r \in Request, Remembers(r), NEW fresh \in BOOLEAN
  PROVE  [r EXCEPT !.fresh = fresh] \in Request /\ Remembers([r EXCEPT !.fresh = fresh])
<1> DEFINE R == [r EXCEPT !.fresh = fresh]
<1>1. R \in Request BY DEF Request
<1>2. /\ R.todo = r.todo /\ R.seen = r.seen /\ R.take = r.take
      /\ R.kind = r.kind /\ R.item = r.item /\ R.from = r.from
      /\ R.negative = r.negative /\ R.again = r.again /\ R.wiped = r.wiped
  BY DEF Request
<1> HIDE DEF R
<1>3. Remembers(R)
  BY <1>2 DEF Remembers, TakesWhatItSaw, EmptiesWhatFellShort, Consumed
<1> QED BY <1>1, <1>3 DEF R

LEMMA StartProduceKeeps == ASSUME IInv, NEW p \in Procs, StartProduce(p) PROVE IInv'
<1>1. PICK i \in Items, w \in Warehouses, qty \in Quantities,
           negative \in Negatives :
        req' = [req EXCEPT ![p] = [Idle EXCEPT
          !.stage = "read", !.kind = "produce", !.item = i,
          !.from = w, !.qty = qty, !.negative = negative, !.todo = Leaves(i)]]
  BY DEF StartProduce
<1> DEFINE R == [Idle EXCEPT
          !.stage = "read", !.kind = "produce", !.item = i,
          !.from = w, !.qty = qty, !.negative = negative, !.todo = Leaves(i)]
<1>2. /\ qty \in Nat /\ "read" \in Stages /\ "produce" \in Kinds
      /\ Leaves(i) \in SUBSET Items
      /\ negative \in BOOLEAN
  BY ConstantsAssumption DEF Stages, Kinds, Leaves
<1>3. R \in Request BY <1>2, IdleType DEF Request
<1>4. /\ R.take = None /\ R.wiped = {} /\ R.again = {}
      /\ R.kind = "produce" /\ R.item = i /\ R.todo = Leaves(i)
      /\ R.kind # "produce" => ~R.negative
  BY DEF Idle
<1> HIDE DEF R
<1>5. Remembers(R) BY <1>3, <1>4, NothingTaken DEF Consumed
<1>6. UNCHANGED <<layer, stale, overdrawn>> BY DEF StartProduce
<1>7. req' = [req EXCEPT ![p] = R] BY <1>1 DEF R
<1> QED BY <1>3, <1>5, <1>6, <1>7, RequestKeeps

LEMMA ReadLayersKeeps == ASSUME IInv, NEW p \in Procs, ReadLayers(p) PROVE IInv'
<1> DEFINE r == req[p]
<1>1. r \in Request /\ Remembers(r) BY DEF IInv, LayersType
<1>2. PICK i \in r.todo : \E t \in Takings(Open(i, r.from), Demand(r, i), "FEFO") :
        req' = [req EXCEPT ![p] = WithTaken(r, i, Open(i, r.from), t)]
  BY DEF ReadLayers
<1> DEFINE S == Open(i, r.from)
<1>3. PICK t \in Takings(S, Demand(r, i), "FEFO") :
        req' = [req EXCEPT ![p] = WithTaken(r, i, S, t)]
  BY <1>2
<1>4. i \in Items /\ S \in SUBSET LayerIds BY <1>1 DEF Open, LayersOf, Request
<1>5. t \in [S -> Nat] /\ \A l \in S : t[l] <= layer[l].left
  BY <1>1, <1>3, <1>4, DemandType, TakingsType DEF IInv
<1>6. WithTaken(r, i, S, t) \in Request /\ Remembers(WithTaken(r, i, S, t))
  BY <1>1, <1>5, WithTakenRemembers DEF IInv
<1>7. UNCHANGED <<layer, stale, overdrawn>> BY DEF ReadLayers
<1> QED BY <1>3, <1>6, <1>7, RequestKeeps

LEMMA FallShortKeeps == ASSUME IInv, NEW p \in Procs, FallShort(p) PROVE IInv'
<1> DEFINE r == req[p]
<1>1. r \in Request /\ Remembers(r) /\ r.negative
  BY DEF IInv, LayersType, FallShort
<1>2. PICK i \in r.todo :
        req' = [req EXCEPT ![p] =
          [r EXCEPT !.stage = "again", !.again = @ \union {i},
                    !.wiped = @ \union Open(i, r.from),
                    !.seen = [l \in LayerIds |->
                       IF l \in LayersOf(i, r.from) THEN layer[l].left ELSE @[l]]]]
  BY DEF FallShort
<1> DEFINE R == [r EXCEPT !.stage = "again", !.again = @ \union {i},
                          !.wiped = @ \union Open(i, r.from),
                          !.seen = [l \in LayerIds |->
                             IF l \in LayersOf(i, r.from) THEN layer[l].left ELSE @[l]]]
<1>3. R \in Request /\ Remembers(R)
  BY <1>1, FallenShortRemembers DEF IInv
<1>4. UNCHANGED <<layer, stale, overdrawn>> BY DEF FallShort
<1>5. req' = [req EXCEPT ![p] = R] BY <1>2
<1> QED BY <1>3, <1>4, <1>5, RequestKeeps

LEMMA ReadAgainKeeps == ASSUME IInv, NEW p \in Procs, ReadAgain(p) PROVE IInv'
<1> DEFINE r == req[p]
<1>1. r \in Request /\ Remembers(r) BY DEF IInv, LayersType
<1>2. PICK i \in r.todo :
        \E t \in Takings(Open(i, r.from) \ r.wiped, Demand(r, i), "FIFO") :
        req' = [req EXCEPT ![p] =
          [WithTaken(r, i, Open(i, r.from) \ r.wiped, t)
             EXCEPT !.fresh = @ /\ Open(i, r.from) \ r.wiped = {}]]
  BY DEF ReadAgain
<1> DEFINE S == Open(i, r.from) \ r.wiped
<1>3. PICK t \in Takings(S, Demand(r, i), "FIFO") :
        req' = [req EXCEPT ![p] = [WithTaken(r, i, S, t) EXCEPT !.fresh = @ /\ S = {}]]
  BY <1>2
<1> DEFINE R == WithTaken(r, i, S, t)
<1>4. i \in Items /\ S \in SUBSET LayerIds /\ S \in SUBSET Open(i, r.from)
  BY <1>1 DEF Open, LayersOf, Request
<1>5. t \in [S -> Nat] /\ \A l \in S : t[l] <= layer[l].left
  BY <1>1, <1>3, <1>4, DemandType, TakingsType DEF IInv
<1>6. R \in Request /\ Remembers(R)
  BY <1>1, <1>4, <1>5, WithTakenRemembers DEF IInv
<1>7. PICK fresh \in BOOLEAN : req' = [req EXCEPT ![p] = [R EXCEPT !.fresh = fresh]]
  BY <1>3, <1>6 DEF Request
<1> HIDE DEF R
<1>8. [R EXCEPT !.fresh = fresh] \in Request /\ Remembers([R EXCEPT !.fresh = fresh])
  BY <1>6, FreshIsNotRemembered
<1>9. UNCHANGED <<layer, stale, overdrawn>> BY DEF ReadAgain
<1> QED BY <1>7, <1>8, <1>9, RequestKeeps

LEMMA AbortKeeps == ASSUME IInv, NEW p \in Procs, Abort(p) PROVE IInv'
BY IdleType, IdleRemembers, RequestKeeps DEF Abort

LEMMA AdjustInKeeps == ASSUME IInv, NEW p \in Procs, AdjustIn(p) PROVE IInv'
<1>1. PICK k \in LayerIds, in \in Intakes, w \in Warehouses :
        /\ {k} \in NewLayers
        /\ layer' = [layer EXCEPT ![k] =
             [item |-> in.item, wh |-> w, qty |-> in.qty, left |-> in.qty,
              expiry |-> in.expiry, used |-> 0]]
  BY ZenonT(60) DEF AdjustIn
<1> DEFINE came == [item |-> in.item, wh |-> w, qty |-> in.qty, left |-> in.qty,
                    expiry |-> in.expiry, used |-> 0]
<1>2. /\ came \in Layer /\ came.left = came.qty /\ came.qty \in Nat
      /\ came.left \in 0..came.qty /\ came.qty - came.left = came.used
  BY ConstantsAssumption DEF Layer
<1> HIDE DEF came
<1>3. k \notin Created BY <1>1 DEF NewLayers
<1>4. layer \in [LayerIds -> Layer] BY DEF IInv, LayersType
<1>5. \A l \in LayerIds : layer'[l] = IF l = k THEN came ELSE layer[l]
  BY <1>1, <1>4 DEF came
<1>6. layer' \in [LayerIds -> Layer] BY <1>1, <1>2, <1>4 DEF came
<1>7. UNCHANGED <<req, stale, overdrawn>> BY DEF AdjustIn
<1>8. LayersType' BY <1>6, <1>7 DEF IInv, LayersType
<1>9. Keeps BY <1>3, <1>5 DEF Keeps, Created
<1>10. \A q \in Procs : Remembers(req[q])'
  BY <1>7, <1>9, OthersRemember DEF IInv
<1>11. LayersBounded' BY <1>2, <1>5 DEF IInv, LayersBounded
<1>12. ConsumptionsExplain'
  BY <1>2, <1>5, <1>7 DEF IInv, ConsumptionsExplain, Created, Explained
<1> QED BY <1>8, <1>10, <1>11, <1>12 DEF IInv

LEMMA OutWrites ==
  ASSUME IInv, NEW p \in Procs, WriteOut(p)
  PROVE  Writes(req[p], {}) /\ req[p].again = {}
<1>1. req[p].again = {} BY DEF WriteOut, IInv, Remembers, EmptiesWhatFellShort
<1> QED BY <1>1 DEF WriteOut, Writes

LEMMA WriteOutKeeps == ASSUME IInv, NEW p \in Procs, WriteOut(p) PROVE IInv'
BY OutWrites, CommitKeeps DEF WriteOut, IInv, LayersType

\* A transfer mirrors each layer it took from once.
Mirrors(p, new, source) ==
  /\ new \subseteq LayerIds /\ source \in [new -> TakenOf(req[p], req[p].item)]
  /\ \A k, l \in new : source[k] = source[l] => k = l
  /\ \A t \in TakenOf(req[p], req[p].item) : \E l \in new : source[l] = t
  /\ \A l \in new : layer'[l] = MirrorLayer(req[p], source[l])
  /\ unitCost' = [l \in LayerIds |-> IF l \in new THEN unitCost[source[l]] ELSE unitCost[l]]

LEMMA TransferWrites ==
  ASSUME IInv, NEW p \in Procs, WriteTransfer(p)
  PROVE  \E new, source : Writes(req[p], new) /\ Mirrors(p, new, source) /\ req[p].again = {}
<1> DEFINE r == req[p]
           taken == TakenOf(r, r.item)
<1>1. r \in Request /\ Remembers(r) BY DEF IInv, LayersType
<1>2. r.again = {} BY <1>1 DEF WriteTransfer, Remembers, EmptiesWhatFellShort
<1>3. PICK new \in NewLayers : \E source \in [new -> taken] :
        /\ \A k, l \in new : k < l => Before(source[k], source[l])
        /\ \A t \in taken : \E l \in new : source[l] = t
        /\ layer' = [l \in LayerIds |->
             IF l \in new THEN MirrorLayer(r, source[l]) ELSE AfterTaking(r, l)]
        /\ unitCost' = [l \in LayerIds |-> IF l \in new THEN unitCost[source[l]] ELSE unitCost[l]]
  BY DEF WriteTransfer
<1>4. PICK source \in [new -> taken] :
        /\ \A k, l \in new : k < l => Before(source[k], source[l])
        /\ \A t \in taken : \E l \in new : source[l] = t
        /\ layer' = [l \in LayerIds |->
             IF l \in new THEN MirrorLayer(r, source[l]) ELSE AfterTaking(r, l)]
        /\ unitCost' = [l \in LayerIds |-> IF l \in new THEN unitCost[source[l]] ELSE unitCost[l]]
  BY <1>3
<1>5. new \subseteq LayerIds \ Created BY <1>3 DEF NewLayers
<1>6. ASSUME NEW k \in taken
      PROVE  /\ MirrorLayer(r, k) \in Layer
             /\ MirrorLayer(r, k).left = MirrorLayer(r, k).qty
             /\ MirrorLayer(r, k).used = 0
  <2>1. /\ k \in LayerIds /\ r.take[k] \in Nat /\ layer[k].expiry \in Nat
        /\ r.item \in Items /\ r.to \in Warehouses
    BY <1>1 DEF TakenOf, LayersOf, Request, IInv, LayersType, Layer
  <2> QED BY <2>1 DEF MirrorLayer, Layer
<1>7. Writes(r, new)
  BY <1>2, <1>4, <1>5, <1>6 DEF WriteTransfer, Writes
<1>8. ASSUME NEW k \in new, NEW l \in new, source[k] = source[l] PROVE k = l
  <2>1. /\ k \in Int /\ l \in Int /\ source[k] \in Int
        /\ layer[source[k]].expiry \in Nat
    BY <1>4, <1>5 DEF LayerIds, TakenOf, LayersOf, IInv, LayersType, Layer
  <2>2. ~Before(source[k], source[k])
    BY <2>1 DEF Before
  <2> QED BY <1>4, <1>8, <2>1, <2>2
<1>9. Mirrors(p, new, source)
  BY <1>4, <1>5, <1>8 DEF Mirrors
<1> QED BY <1>2, <1>7, <1>9

LEMMA WriteTransferKeeps == ASSUME IInv, NEW p \in Procs, WriteTransfer(p) PROVE IInv'
BY TransferWrites, CommitKeeps DEF WriteTransfer, IInv, LayersType

MadeOf(r) == [item |-> r.item, wh |-> r.from, qty |-> r.qty, left |-> r.qty,
              expiry |-> 0, used |-> 0]

LEMMA ProduceWrites ==
  ASSUME IInv, NEW p \in Procs, WriteProduce(p)
  PROVE  \E new \in LayerIds :
           /\ Writes(req[p], {new})
           /\ layer'[new] = MadeOf(req[p])
           /\ unitCost' = [unitCost EXCEPT ![new] =
                UnitCostOf(Total([i \in Items |-> CostOf(req[p], i)], Leaves(req[p].item)),
                           req[p].qty)]
<1> DEFINE r == req[p]
<1>1. r \in Request /\ Remembers(r) BY DEF IInv, LayersType
<1>2. PICK new \in LayerIds :
        /\ {new} \in NewLayers
        /\ layer' = [l \in LayerIds |-> IF l = new THEN MadeOf(r) ELSE AfterTaking(r, l)]
        /\ unitCost' = [unitCost EXCEPT ![new] =
             UnitCostOf(Total([i \in Items |-> CostOf(r, i)], Leaves(r.item)), r.qty)]
  BY DEF WriteProduce, MadeOf
<1>3. MadeOf(r) \in Layer /\ MadeOf(r).left = MadeOf(r).qty /\ MadeOf(r).used = 0
  BY <1>1 DEF MadeOf, Layer, Request
<1>4. /\ overdrawn' = overdrawn \union (r.again \X {r.from})
      /\ CountStale(r)
  BY DEF WriteProduce
<1>5. Writes(r, {new})
  BY <1>2, <1>3, <1>4 DEF Writes, NewLayers
<1> QED BY <1>2, <1>5

LEMMA WriteProduceKeeps == ASSUME IInv, NEW p \in Procs, WriteProduce(p) PROVE IInv'
<1>1. req[p] \in Request BY DEF IInv, LayersType
<1>2. /\ overdrawn' = overdrawn \union (req[p].again \X {req[p].from})
      /\ req' = [req EXCEPT ![p] = Idle]
  BY DEF WriteProduce
<1>3. overdrawn' \subseteq Places
  BY <1>1, <1>2 DEF IInv, LayersType, Places, Request
<1> QED BY <1>2, <1>3, ProduceWrites, CommitKeeps

-----------------------------------------------------------------------------
THEOREM Invariance == Spec => []IInv
<1>1. Init => IInv
  <2> SUFFICES ASSUME Init PROVE IInv OBVIOUS
  <2>1. NoLayer \in Layer /\ NoLayer.item = NoItem /\ NoLayer.left \in 0..NoLayer.qty
    BY ConstantsAssumption DEF NoLayer, Layer, SomeWarehouse
  <2>2. LayersType BY <2>1, IdleType DEF Init, LayersType
  <2>3. \A p \in Procs : Remembers(req[p]) BY IdleRemembers DEF Init
  <2>4. LayersBounded /\ ConsumptionsExplain
    BY <2>1 DEF Init, LayersBounded, ConsumptionsExplain, Created
  <2> QED BY <2>2, <2>3, <2>4 DEF IInv
<1>2. IInv /\ [Next]_vars => IInv'
  <2> SUFFICES ASSUME IInv, [Next]_vars PROVE IInv' OBVIOUS
  <2>1. CASE UNCHANGED vars
    BY <2>1 DEF vars, IInv, LayersType, Remembers, TakesWhatItSaw,
       EmptiesWhatFellShort, Consumed, Leaves, LayersBounded,
       ConsumptionsExplain, Created, Explained
  <2>2. ASSUME NEW p \in Procs, Step(p) PROVE IInv'
    BY <2>2, StartOutKeeps, StartTransferKeeps, StartProduceKeeps,
       ReadLayersKeeps, FallShortKeeps, ReadAgainKeeps, AdjustInKeeps,
       WriteOutKeeps, WriteTransferKeeps, WriteProduceKeeps, AbortKeeps
       DEF Step
  <2> QED BY <2>1, <2>2 DEF Next
<1> QED BY <1>1, <1>2, PTL DEF Spec

\* However requests interleave, and however many write over each other, no
\* layer is left with less than nothing or with more than came in.
THEOREM LayersStayBounded == Spec => []LayersBounded
<1>1. IInv => LayersBounded BY DEF IInv
<1> QED BY <1>1, Invariance, PTL

\* As long as no request commits on layers it read stale, the StockConsumption
\* rows of a layer explain what it lost, wherever production never overdrew.
THEOREM ConsumptionsStayExplained == Spec => []ConsumptionsExplain
<1>1. IInv => ConsumptionsExplain BY DEF IInv
<1> QED BY <1>1, Invariance, PTL

-----------------------------------------------------------------------------
(* What a request reads, as a statement about a layer table. *)

\* The table changes between a read and the commit: these say of any table
\* what the request saw and took of it.
GaveBy(table, r, i) ==
  [l \in LayerIds |-> IF table[l].item = i THEN r.take[l] ELSE 0]
Gave(table, r, i) == Total(GaveBy(table, r, i), LayerIds)

SawBy(table, r, i) ==
  [l \in LayerIds |-> IF table[l].item = i /\ table[l].wh = r.from THEN r.seen[l] ELSE 0]
Saw(table, r, i) == Total(SawBy(table, r, i), LayerIds)

\* At most one item is between its two reads.
InTurn(r) ==
  /\ r.again \subseteq Consumed(r)
  /\ r.stage = "read" => r.again \intersect r.todo = {}
  /\ r.stage = "again" => \A i, k \in r.again \intersect r.todo : i = k
  /\ r.stage = "write" => r.todo = {}
  /\ r.stage # "idle" => r.qty > 0

\* It takes what it needs of an item that did not fall short.
TakesEnough(table, r) ==
  \A i \in Consumed(r) \ (r.todo \union r.again) : Gave(table, r, i) = Demand(r, i)

\* Of an item that fell short it has emptied all there was, which is no more
\* than it needs, and it takes none.
FallsShort(table, r) ==
  \A i \in r.again :
    /\ Saw(table, r, i) <= Demand(r, i)
    /\ \A l \in LayerIds : table[l].item = i /\ table[l].wh = r.from =>
         /\ l \notin r.wiped => r.seen[l] = 0
         /\ ~(r.take[l] > 0)

Sooner(table, k, l) ==
  table[k].expiry # 0 /\ table[l].expiry \notin 1..table[k].expiry

\* It takes all it saw of a layer before it touches one that expires later.
TakesInOrder(table, r) ==
  \A l, k \in LayerIds :
    /\ r.take[l] > 0
    /\ table[k].item = table[l].item /\ table[k].wh = r.from /\ Sooner(table, k, l)
    => r.take[k] = r.seen[k]

SeesCreated(table, r) == \A l \in LayerIds : table[l].item = NoItem => r.seen[l] = 0
TakesCreated(table, r) == \A l \in LayerIds : r.take[l] > 0 => table[l].item \in Items

ReadsWell(table, r) ==
  /\ InTurn(r)
  /\ SeesCreated(table, r)
  /\ TakesCreated(table, r)
  /\ TakesEnough(table, r)
  /\ r.fresh => FallsShort(table, r) /\ TakesInOrder(table, r)

AllReadWell == \A p \in Procs : ReadsWell(layer, req[p])

LEMMA LayerIdsFinite == IsFiniteSet(LayerIds)
BY ConstantsAssumption, FS_Interval DEF LayerIds

\* The layers created so far are in the later table as they came in.
Extends(table, later) ==
  \A l \in LayerIds : table[l].item # NoItem =>
    /\ later[l].item = table[l].item /\ later[l].wh = table[l].wh
    /\ later[l].expiry = table[l].expiry

LEMMA StillReadsWell ==
  ASSUME NEW a \in [LayerIds -> Layer], NEW b \in [LayerIds -> Layer], Extends(a, b),
         NEW r \in Request, ReadsWell(a, r), r.again \subseteq Items
  PROVE  ReadsWell(b, r)
<1>0. NoItem \notin Items /\ Consumed(r) \subseteq Items
  BY ConstantsAssumption, ConsumedType
<1>1. /\ \A l \in LayerIds : r.take[l] \in Nat /\ r.seen[l] \in Nat
      /\ \A l \in LayerIds : r.take[l] > 0 => a[l].item \in Items
      /\ \A l \in LayerIds : a[l].item = NoItem => r.seen[l] = 0
  BY DEF Request, ReadsWell, SeesCreated, TakesCreated
<1>2. SeesCreated(b, r) /\ TakesCreated(b, r)
  BY <1>0, <1>1 DEF SeesCreated, TakesCreated, Extends
<1>3. ASSUME NEW i \in Items
      PROVE  Gave(b, r, i) = Gave(a, r, i) /\ Saw(b, r, i) = Saw(a, r, i)
  <2>1. \A l \in LayerIds : GaveBy(b, r, i)[l] = GaveBy(a, r, i)[l]
    <3> SUFFICES ASSUME NEW l \in LayerIds PROVE GaveBy(b, r, i)[l] = GaveBy(a, r, i)[l]
      OBVIOUS
    <3>1. CASE a[l].item # NoItem
      BY <3>1 DEF GaveBy, Extends
    <3>2. CASE a[l].item = NoItem
      BY <1>0, <1>1, <3>2 DEF GaveBy
    <3> QED BY <3>1, <3>2
  <2>2. \A l \in LayerIds : SawBy(b, r, i)[l] = SawBy(a, r, i)[l]
    <3> SUFFICES ASSUME NEW l \in LayerIds PROVE SawBy(b, r, i)[l] = SawBy(a, r, i)[l]
      OBVIOUS
    <3>1. CASE a[l].item # NoItem
      BY <3>1 DEF SawBy, Extends
    <3>2. CASE a[l].item = NoItem
      BY <1>0, <1>1, <3>2 DEF SawBy
    <3> QED BY <3>1, <3>2
  <2> QED BY <2>1, <2>2, LayerIdsFinite, SumAgree DEF Gave, Saw, Total
<1>4. TakesEnough(b, r)
  BY <1>0, <1>3 DEF ReadsWell, TakesEnough
<1>5. ASSUME r.fresh PROVE FallsShort(b, r)
  <2> SUFFICES ASSUME NEW i \in r.again
               PROVE  /\ Saw(b, r, i) <= Demand(r, i)
                      /\ \A l \in LayerIds : b[l].item = i /\ b[l].wh = r.from =>
                           /\ l \notin r.wiped => r.seen[l] = 0
                           /\ ~(r.take[l] > 0)
    BY DEF FallsShort
  <2>1. /\ Saw(a, r, i) <= Demand(r, i)
        /\ \A l \in LayerIds : a[l].item = i /\ a[l].wh = r.from =>
             /\ l \notin r.wiped => r.seen[l] = 0
             /\ ~(r.take[l] > 0)
    BY <1>5 DEF ReadsWell, FallsShort
  <2>2. Saw(b, r, i) <= Demand(r, i)
    BY <1>3, <2>1
  <2>3. ASSUME NEW l \in LayerIds, b[l].item = i, b[l].wh = r.from
        PROVE  (l \notin r.wiped => r.seen[l] = 0) /\ ~(r.take[l] > 0)
    <3>1. CASE a[l].item # NoItem
      BY <2>1, <2>3, <3>1 DEF Extends
    <3>2. CASE a[l].item = NoItem
      BY <1>0, <1>1, <3>2
    <3> QED BY <3>1, <3>2
  <2> QED BY <2>2, <2>3
<1>6. ASSUME r.fresh PROVE TakesInOrder(b, r)
  <2> SUFFICES ASSUME NEW l \in LayerIds, NEW k \in LayerIds, r.take[l] > 0,
                      b[k].item = b[l].item, b[k].wh = r.from, Sooner(b, k, l)
               PROVE  r.take[k] = r.seen[k]
    BY DEF TakesInOrder
  <2>1. a[l].item # NoItem
    BY <1>0, <1>1
  <2>2. CASE a[k].item # NoItem
    <3>1. a[k].item = a[l].item /\ a[k].wh = r.from /\ Sooner(a, k, l)
      BY <2>1, <2>2 DEF Extends, Sooner
    <3> QED BY <1>6, <3>1 DEF ReadsWell, TakesInOrder
  <2>3. CASE a[k].item = NoItem
    BY <1>0, <1>1, <2>3
  <2> QED BY <2>2, <2>3
<1> QED BY <1>2, <1>4, <1>5, <1>6 DEF ReadsWell

\* What reading an item makes of a request.
Became(r, R, i, S, t) ==
  /\ R.todo = r.todo \ {i}
  /\ R.stage = IF r.todo \ {i} = {} THEN "write" ELSE "read"
  /\ R.seen = [l \in LayerIds |-> IF l \in S \union (LayersOf(i, r.from) \ r.wiped)
                                  THEN layer[l].left ELSE r.seen[l]]
  /\ R.take = [l \in LayerIds |-> IF l \in S THEN t[l] ELSE r.take[l]]
  /\ R.kind = r.kind /\ R.item = r.item /\ R.from = r.from /\ R.qty = r.qty
  /\ R.again = r.again /\ R.wiped = r.wiped

LEMMA WithTakenBecomes ==
  ASSUME NEW r \in Request, NEW i, NEW S, NEW t, NEW fresh
  PROVE  /\ Became(r, WithTaken(r, i, S, t), i, S, t)
         /\ WithTaken(r, i, S, t).fresh = r.fresh
         /\ Became(r, [WithTaken(r, i, S, t) EXCEPT !.fresh = fresh], i, S, t)
         /\ WithTaken(r, i, S, t) \in Request =>
              [WithTaken(r, i, S, t) EXCEPT !.fresh = fresh].fresh = fresh
<1> DEFINE seen == [l \in LayerIds |->
                      IF l \in S \union (LayersOf(i, r.from) \ r.wiped)
                      THEN layer[l].left ELSE r.seen[l]]
           take == [l \in LayerIds |-> IF l \in S THEN t[l] ELSE r.take[l]]
           stage == IF r.todo \ {i} = {} THEN "write" ELSE "read"
<1>1. PICK R : R = WithTaken(r, i, S, t)
  OBVIOUS
<1>2. R = [r EXCEPT !.todo = r.todo \ {i}, !.stage = stage, !.seen = seen, !.take = take]
  BY <1>1 DEF WithTaken
<1> HIDE DEF seen, take, stage
<1>3. /\ R.todo = r.todo \ {i} /\ R.stage = stage /\ R.seen = seen /\ R.take = take
      /\ R.kind = r.kind /\ R.item = r.item /\ R.from = r.from /\ R.qty = r.qty
      /\ R.again = r.again /\ R.wiped = r.wiped /\ R.fresh = r.fresh
  BY <1>2 DEF Request
<1>4. PICK Q : Q = [R EXCEPT !.fresh = fresh]
  OBVIOUS
<1>5. /\ Q.todo = R.todo /\ Q.stage = R.stage /\ Q.seen = R.seen /\ Q.take = R.take
      /\ Q.kind = R.kind /\ Q.item = R.item /\ Q.from = R.from /\ Q.qty = R.qty
      /\ Q.again = R.again /\ Q.wiped = R.wiped
  BY <1>4
<1>6. R \in Request => Q.fresh = fresh
  BY <1>4 DEF Request
<1> QED BY <1>1, <1>3, <1>4, <1>5, <1>6 DEF Became, seen, take, stage

\* Nothing is taken yet of an item that is still to be read.
LEMMA NotTakenYet ==
  ASSUME NEW r \in Request, Remembers(r), NEW l \in LayerIds, layer[l].item \in r.todo
  PROVE  r.take[l] = 0
<1>1. ~(r.take[l] > 0) /\ r.take[l] \in Nat
  BY DEF Remembers, TakesWhatItSaw, Request
<1> QED BY <1>1

\* Reading one item leaves what is known of the others.
LEMMA OthersAsRead ==
  ASSUME NEW r \in Request, NEW R \in Request, NEW i \in Items, NEW j \in Items, i # j,
         R.from = r.from,
         \A l \in LayerIds : layer[l].item # i => R.seen[l] = r.seen[l] /\ R.take[l] = r.take[l]
  PROVE  Gave(layer, R, j) = Gave(layer, r, j) /\ Saw(layer, R, j) = Saw(layer, r, j)
<1>1. \A l \in LayerIds : GaveBy(layer, R, j)[l] = GaveBy(layer, r, j)[l]
  BY DEF GaveBy
<1>2. \A l \in LayerIds : SawBy(layer, R, j)[l] = SawBy(layer, r, j)[l]
  BY DEF SawBy
<1> QED BY <1>1, <1>2, LayerIdsFinite, SumAgree DEF Gave, Saw, Total

\* What a taking of one item gives of it.
LEMMA GaveOfTaken ==
  ASSUME LayersType, NEW r \in Request, Remembers(r), NEW R \in Request,
         NEW i \in r.todo, NEW S \in SUBSET LayersOf(i, r.from), NEW t \in [S -> Nat],
         Became(r, R, i, S, t)
  PROVE  Gave(layer, R, i) = Total(t, S)
<1>1. S \in SUBSET LayerIds /\ \A l \in S : layer[l].item = i
  BY DEF LayersOf
<1>2. \A l \in S : t[l] \in Int /\ GaveBy(layer, R, i)[l] = t[l]
  BY <1>1 DEF GaveBy, Became
<1>3. \A l \in LayerIds \ S : GaveBy(layer, R, i)[l] = 0
  BY NotTakenYet DEF GaveBy, Became
<1> QED BY <1>1, <1>2, <1>3, LayerIdsFinite, SumSubset DEF Gave, Total

LEMMA ReadSees ==
  ASSUME LayersType, NEW r \in Request, Remembers(r), ReadsWell(layer, r),
         NEW R \in Request,
         NEW i \in r.todo, NEW S \in SUBSET LayersOf(i, r.from), NEW t \in [S -> Nat],
         Became(r, R, i, S, t), r.stage \in {"read", "again"},
         r.stage = "again" => i \in r.again
  PROVE  /\ i \in Items /\ Consumed(R) = Consumed(r)
         /\ \A j \in Items : Demand(R, j) = Demand(r, j)
         /\ InTurn(R) /\ SeesCreated(layer, R) /\ TakesCreated(layer, R)
         /\ \A l \in LayerIds : layer[l].item # i =>
              R.seen[l] = r.seen[l] /\ R.take[l] = r.take[l]
         /\ \A j \in Consumed(r) \ (r.todo \union r.again) : Gave(layer, R, j) = Demand(r, j)
<1>1. i \in Items /\ NoItem \notin Items /\ Consumed(r) \subseteq Items
  BY ConstantsAssumption, ConsumedType DEF Request
<1>2. S \subseteq LayerIds /\ \A l \in S \union LayersOf(i, r.from) : layer[l].item = i
  BY DEF LayersOf
<1>3. Consumed(R) = Consumed(r)
  BY DEF Became, Consumed
<1>4. \A j \in Items : Demand(R, j) = Demand(r, j)
  BY DEF Became, Demand
<1>5. InTurn(R)
  <2>1. R.again \intersect R.todo = {}
    BY DEF Became, ReadsWell, InTurn
  <2>2. R.stage # "again" /\ (R.stage = "write" => R.todo = {})
    BY DEF Became
  <2>3. R.qty > 0
    BY DEF Became, ReadsWell, InTurn
  <2>4. R.again \subseteq Consumed(R)
    BY <1>3 DEF Became, ReadsWell, InTurn
  <2> QED BY <2>1, <2>2, <2>3, <2>4 DEF InTurn
<1>6. \A l \in LayerIds : layer[l].item # i => R.seen[l] = r.seen[l] /\ R.take[l] = r.take[l]
  BY <1>2 DEF Became
<1>7. SeesCreated(layer, R)
  BY <1>1, <1>6 DEF ReadsWell, SeesCreated
<1>8. TakesCreated(layer, R)
  BY <1>1, <1>6 DEF ReadsWell, TakesCreated
<1>9. \A j \in Consumed(r) \ (r.todo \union r.again) : Gave(layer, R, j) = Demand(r, j)
  <2> SUFFICES ASSUME NEW j \in Consumed(r) \ (r.todo \union r.again)
               PROVE  Gave(layer, R, j) = Demand(r, j)
    OBVIOUS
  <2>1. Gave(layer, r, j) = Demand(r, j)
    BY DEF ReadsWell, TakesEnough
  <2>2. j \in Items /\ i # j /\ R.from = r.from
    BY <1>1 DEF Became
  <2> QED BY <1>1, <1>6, <2>1, <2>2, OthersAsRead
<1> QED BY <1>1, <1>3, <1>4, <1>5, <1>6, <1>7, <1>8, <1>9

\* consumeLayers found enough, and took in the order of the dates.
LEMMA TakenReadsWell ==
  ASSUME LayersType, NEW r \in Request, Remembers(r), ReadsWell(layer, r), r.stage = "read",
         NEW R \in Request, R.fresh = r.fresh,
         NEW i \in r.todo, NEW S, S = Open(i, r.from), NEW t \in [S -> Nat],
         Became(r, R, i, S, t), Total(t, S) = Demand(r, i),
         \A k, l \in S : Before(k, l) /\ t[l] > 0 => t[k] = layer[k].left
  PROVE  ReadsWell(layer, R)
<1>0. S \in SUBSET LayersOf(i, r.from) /\ S \subseteq LayerIds
  BY DEF Open, LayersOf
<1>1. /\ i \in Items /\ Consumed(R) = Consumed(r)
      /\ \A j \in Items : Demand(R, j) = Demand(r, j)
      /\ InTurn(R) /\ SeesCreated(layer, R) /\ TakesCreated(layer, R)
      /\ \A l \in LayerIds : layer[l].item # i =>
           R.seen[l] = r.seen[l] /\ R.take[l] = r.take[l]
      /\ \A j \in Consumed(r) \ (r.todo \union r.again) : Gave(layer, R, j) = Demand(r, j)
  BY <1>0, ReadSees
<1>2. Consumed(r) \subseteq Items /\ r.again \subseteq Items /\ i \notin r.again
  BY ConsumedType DEF Request, ReadsWell, InTurn
<1>3. TakesEnough(layer, R)
  <2>1. Gave(layer, R, i) = Demand(r, i)
    BY <1>0, GaveOfTaken
  <2> QED BY <1>1, <1>2, <2>1 DEF TakesEnough, Became
<1>4. ASSUME R.fresh PROVE FallsShort(layer, R)
  <2> SUFFICES ASSUME NEW j \in r.again
               PROVE  /\ Saw(layer, R, j) <= Demand(R, j)
                      /\ \A l \in LayerIds : layer[l].item = j /\ layer[l].wh = r.from =>
                           /\ l \notin r.wiped => R.seen[l] = 0
                           /\ ~(R.take[l] > 0)
    BY DEF FallsShort, Became
  <2>1. j \in Items /\ i # j /\ R.from = r.from
    BY <1>2 DEF Became
  <2>2. Saw(layer, R, j) = Saw(layer, r, j) /\ Demand(R, j) = Demand(r, j)
    BY <1>1, <2>1, OthersAsRead
  <2>3. /\ Saw(layer, r, j) <= Demand(r, j)
        /\ \A l \in LayerIds : layer[l].item = j /\ layer[l].wh = r.from =>
             (l \notin r.wiped => r.seen[l] = 0) /\ ~(r.take[l] > 0)
    BY <1>4 DEF ReadsWell, FallsShort
  <2> QED BY <1>1, <2>1, <2>2, <2>3
<1>5. ASSUME R.fresh PROVE TakesInOrder(layer, R)
  <2> SUFFICES ASSUME NEW l \in LayerIds, NEW k \in LayerIds, R.take[l] > 0,
                      layer[k].item = layer[l].item, layer[k].wh = r.from,
                      Sooner(layer, k, l)
               PROVE  R.take[k] = R.seen[k]
    BY DEF TakesInOrder, Became
  <2>1. CASE layer[l].item # i
    <3>1. r.take[l] > 0 /\ R.seen[k] = r.seen[k] /\ R.take[k] = r.take[k]
      BY <1>1, <2>1
    <3> QED BY <1>5, <3>1 DEF ReadsWell, TakesInOrder
  <2>2. CASE layer[l].item = i
    <3>1. l \in S /\ R.take[l] = t[l]
      <4>1. r.take[l] = 0
        BY <2>2, NotTakenYet
      <4> QED BY <4>1 DEF Became
    <3>2. k \in LayersOf(i, r.from) /\ k \notin r.wiped
      BY <1>2, <2>2 DEF LayersOf, Remembers, EmptiesWhatFellShort
    <3>3. R.seen[k] = layer[k].left
      BY <3>2 DEF Became
    <3>4. CASE k \in S
      <4>1. Before(k, l)
        <5>1. layer[k].expiry \in Nat /\ layer[l].expiry \in Nat
          BY DEF LayersType, Layer
        <5> QED BY <5>1 DEF Sooner, Before
      <4> QED BY <3>1, <3>3, <3>4, <4>1 DEF Became
    <3>5. CASE k \notin S
      <4>1. layer[k].left = 0
        <5>1. layer[k].left \in Nat /\ ~(layer[k].left > 0)
          BY <3>2, <3>5 DEF Open, LayersType, Layer
        <5> QED BY <5>1
      <4>2. R.take[k] = 0
        BY <2>2, <3>5, NotTakenYet DEF Became
      <4> QED BY <3>3, <4>1, <4>2
    <3> QED BY <3>4, <3>5
  <2> QED BY <2>1, <2>2
<1> QED BY <1>1, <1>3, <1>4, <1>5 DEF ReadsWell

\* The catch: what it sees now of the item that fell short.
LEMMA AgainReadsWell ==
  ASSUME LayersType, NEW r \in Request, Remembers(r), ReadsWell(layer, r), r.stage = "again",
         NEW i \in r.again \intersect r.todo,
         NEW S, S = Open(i, r.from) \ r.wiped, NEW t \in [S -> Nat],
         NEW R \in Request, R.fresh = (r.fresh /\ S = {}), Became(r, R, i, S, t)
  PROVE  ReadsWell(layer, R)
<1>0. S \in SUBSET LayersOf(i, r.from) /\ S \subseteq LayerIds
  BY DEF Open, LayersOf
<1>1. /\ i \in Items /\ Consumed(R) = Consumed(r)
      /\ \A j \in Items : Demand(R, j) = Demand(r, j)
      /\ InTurn(R) /\ SeesCreated(layer, R) /\ TakesCreated(layer, R)
      /\ \A l \in LayerIds : layer[l].item # i =>
           R.seen[l] = r.seen[l] /\ R.take[l] = r.take[l]
      /\ \A j \in Consumed(r) \ (r.todo \union r.again) : Gave(layer, R, j) = Demand(r, j)
  BY <1>0, ReadSees
<1>2. Consumed(r) \subseteq Items /\ r.again \subseteq Items
  BY ConsumedType DEF Request
<1>3. TakesEnough(layer, R)
  BY <1>1, <1>2 DEF TakesEnough, Became
<1>4. ASSUME R.fresh
      PROVE  /\ r.fresh /\ S = {} /\ R.take = r.take
             /\ \A l \in LayerIds : \/ R.seen[l] = r.seen[l]
                                    \/ layer[l].item = i /\ layer[l].wh = r.from /\ R.seen[l] = 0
             /\ \A l \in LayersOf(i, r.from) \ r.wiped : R.seen[l] = 0
  <2>1. r.fresh /\ S = {}
    BY <1>4
  <2>2. R.take = r.take
    BY <2>1 DEF Became, Request
  <2>3. \A l \in LayersOf(i, r.from) \ r.wiped : layer[l].left = 0
    <3>1. \A l \in LayersOf(i, r.from) \ r.wiped : layer[l].left \in Nat /\ ~(layer[l].left > 0)
      BY <2>1 DEF Open, LayersOf, LayersType, Layer
    <3> QED BY <3>1
  <2>4. \A l \in LayersOf(i, r.from) \ r.wiped : R.seen[l] = 0
    BY <2>3 DEF Became, LayersOf
  <2>5. ASSUME NEW l \in LayerIds
        PROVE  \/ R.seen[l] = r.seen[l]
               \/ layer[l].item = i /\ layer[l].wh = r.from /\ R.seen[l] = 0
    <3>1. CASE l \in LayersOf(i, r.from) \ r.wiped
      BY <2>4, <3>1 DEF LayersOf
    <3>2. CASE l \notin LayersOf(i, r.from) \ r.wiped
      BY <2>1, <3>2 DEF Became
    <3> QED BY <3>1, <3>2
  <2> QED BY <2>1, <2>2, <2>4, <2>5
<1>5. ASSUME R.fresh PROVE FallsShort(layer, R)
  <2> SUFFICES ASSUME NEW j \in r.again
               PROVE  /\ Saw(layer, R, j) <= Demand(R, j)
                      /\ \A l \in LayerIds : layer[l].item = j /\ layer[l].wh = r.from =>
                           /\ l \notin r.wiped => R.seen[l] = 0
                           /\ ~(R.take[l] > 0)
    BY DEF FallsShort, Became
  <2>1. /\ Saw(layer, r, j) <= Demand(r, j)
        /\ \A l \in LayerIds : layer[l].item = j /\ layer[l].wh = r.from =>
             (l \notin r.wiped => r.seen[l] = 0) /\ ~(r.take[l] > 0)
    BY <1>4, <1>5 DEF ReadsWell, FallsShort
  <2>2. j \in Items /\ R.from = r.from /\ Demand(r, j) \in Nat
    BY <1>2, DemandType DEF Became
  <2>3. Saw(layer, R, j) <= Saw(layer, r, j)
    <3>1. \A l \in LayerIds : /\ SawBy(layer, R, j)[l] \in Int /\ SawBy(layer, r, j)[l] \in Int
                              /\ SawBy(layer, R, j)[l] <= SawBy(layer, r, j)[l]
      <4> SUFFICES ASSUME NEW l \in LayerIds
                   PROVE  /\ SawBy(layer, R, j)[l] \in Int /\ SawBy(layer, r, j)[l] \in Int
                          /\ SawBy(layer, R, j)[l] <= SawBy(layer, r, j)[l]
        OBVIOUS
      <4>1. R.seen[l] \in Nat /\ r.seen[l] \in Nat
        BY DEF Request
      <4>2. R.seen[l] <= r.seen[l]
        BY <1>4, <1>5, <4>1
      <4> QED BY <2>2, <4>1, <4>2 DEF SawBy
    <3> QED BY <3>1, LayerIdsFinite, SumMonotone DEF Saw, Total
  <2>4. Saw(layer, R, j) \in Int /\ Saw(layer, r, j) \in Int
    <3>1. \A l \in LayerIds : SawBy(layer, R, j)[l] \in Int /\ SawBy(layer, r, j)[l] \in Int
      BY DEF SawBy, Request
    <3> QED BY <3>1, LayerIdsFinite, SumType DEF Saw, Total
  <2>5. Saw(layer, R, j) <= Demand(R, j)
    BY <1>1, <2>1, <2>2, <2>3, <2>4
  <2>6. ASSUME NEW l \in LayerIds, layer[l].item = j, layer[l].wh = r.from
        PROVE  (l \notin r.wiped => R.seen[l] = 0) /\ ~(R.take[l] > 0)
    BY <1>4, <1>5, <2>1, <2>6
  <2> QED BY <2>5, <2>6
<1>6. ASSUME R.fresh PROVE TakesInOrder(layer, R)
  <2> SUFFICES ASSUME NEW l \in LayerIds, NEW k \in LayerIds, r.take[l] > 0,
                      layer[k].item = layer[l].item, layer[k].wh = r.from,
                      Sooner(layer, k, l)
               PROVE  r.take[k] = R.seen[k]
    BY <1>4, <1>6 DEF TakesInOrder, Became
  <2>1. layer[l].item # i
    BY NotTakenYet
  <2>2. R.seen[k] = r.seen[k]
    BY <1>1, <2>1
  <2> QED BY <1>4, <1>6, <2>2 DEF ReadsWell, TakesInOrder
<1> QED BY <1>1, <1>3, <1>5, <1>6 DEF ReadsWell

\* consumeLayers emptied every layer of the item and still fell short.
LEMMA ShortReadsWell ==
  ASSUME LayersType, NEW r \in Request, Remembers(r), ReadsWell(layer, r), r.stage = "read",
         NEW i \in r.todo, NEW S, S = Open(i, r.from),
         Total([l \in S |-> layer[l].left], S) < Demand(r, i),
         NEW R \in Request, R.stage = "again", R.again = r.again \union {i},
         R.wiped = r.wiped \union S,
         R.seen = [l \in LayerIds |->
                     IF l \in LayersOf(i, r.from) THEN layer[l].left ELSE r.seen[l]],
         R.todo = r.todo, R.take = r.take, R.kind = r.kind, R.item = r.item,
         R.from = r.from, R.qty = r.qty, R.fresh = r.fresh
  PROVE  ReadsWell(layer, R)
<1>0. /\ S \subseteq LayerIds /\ LayersOf(i, r.from) \subseteq LayerIds
      /\ \A l \in LayersOf(i, r.from) \union S : layer[l].item = i
  BY DEF Open, LayersOf
<1>1. /\ Consumed(r) \subseteq Items /\ r.again \subseteq Items /\ i \in Items
      /\ NoItem \notin Items /\ i \notin r.again
  BY ConsumedType, ConstantsAssumption DEF Request, ReadsWell, InTurn
<1>2. Consumed(R) = Consumed(r) /\ \A j \in Items : Demand(R, j) = Demand(r, j)
  BY DEF Consumed, Demand
<1>3. \A l \in LayerIds : layer[l].item # i => R.seen[l] = r.seen[l] /\ R.take[l] = r.take[l]
  BY <1>0
<1>4. InTurn(R)
  <2>1. R.again \intersect R.todo = {i}
    BY DEF ReadsWell, InTurn
  <2>2. R.qty > 0
    BY DEF ReadsWell, InTurn
  <2>3. R.again \subseteq Consumed(R)
    BY <1>2 DEF Remembers, ReadsWell, InTurn
  <2> QED BY <2>1, <2>2, <2>3 DEF InTurn
<1>5. SeesCreated(layer, R) /\ TakesCreated(layer, R)
  BY <1>1, <1>3 DEF ReadsWell, SeesCreated, TakesCreated
<1>6. TakesEnough(layer, R)
  <2> SUFFICES ASSUME NEW j \in Consumed(r) \ (r.todo \union r.again)
               PROVE  Gave(layer, R, j) = Demand(R, j)
    BY <1>2 DEF TakesEnough
  <2>1. j \in Items /\ i # j
    BY <1>1
  <2>2. Gave(layer, R, j) = Gave(layer, r, j)
    BY <1>1, <1>3, <2>1, OthersAsRead
  <2> QED BY <1>2, <2>1, <2>2 DEF ReadsWell, TakesEnough
<1>7. ASSUME R.fresh PROVE FallsShort(layer, R)
  <2> SUFFICES ASSUME NEW j \in r.again \union {i}
               PROVE  /\ Saw(layer, R, j) <= Demand(R, j)
                      /\ \A l \in LayerIds : layer[l].item = j /\ layer[l].wh = r.from =>
                           /\ l \notin r.wiped \union S => R.seen[l] = 0
                           /\ ~(r.take[l] > 0)
    BY DEF FallsShort
  <2>1. CASE j # i
    <3>1. j \in Items /\ j \in r.again
      BY <1>1, <2>1
    <3>2. Saw(layer, R, j) = Saw(layer, r, j)
      BY <1>1, <1>3, <2>1, <3>1, OthersAsRead
    <3>3. /\ Saw(layer, r, j) <= Demand(r, j)
          /\ \A l \in LayerIds : layer[l].item = j /\ layer[l].wh = r.from =>
               (l \notin r.wiped => r.seen[l] = 0) /\ ~(r.take[l] > 0)
      BY <1>7, <3>1 DEF ReadsWell, FallsShort
    <3> QED BY <1>2, <1>3, <2>1, <3>1, <3>2, <3>3
  <2>2. CASE j = i
    <3> DEFINE left == [l \in S |-> layer[l].left]
    <3>1. \A l \in S : left[l] \in Int /\ SawBy(layer, R, i)[l] = left[l]
      BY DEF SawBy, Open, LayersOf, LayersType, Layer
    <3>2. \A l \in LayersOf(i, r.from) \ S : layer[l].left = 0
      <4>1. \A l \in LayersOf(i, r.from) \ S : layer[l].left \in Nat /\ ~(layer[l].left > 0)
        BY DEF Open, LayersOf, LayersType, Layer
      <4> QED BY <4>1
    <3>3. \A l \in LayerIds \ S : SawBy(layer, R, i)[l] = 0
      BY <3>2 DEF SawBy, LayersOf
    <3>4. Total(left, S) < Demand(r, i)
      OBVIOUS
    <3> HIDE DEF left
    <3>5. Saw(layer, R, i) = Total(left, S)
      BY <1>0, <3>1, <3>3, LayerIdsFinite, SumSubset DEF Saw, Total
    <3>6. Total(left, S) \in Int
      <4>1. IsFiniteSet(S)
        BY <1>0, LayerIdsFinite, FS_Subset
      <4> QED BY <3>1, <4>1, SumType DEF Total
    <3>7. Demand(r, i) \in Nat
      BY <1>1, DemandType
    <3>8. Saw(layer, R, i) <= Demand(R, i)
      BY <1>1, <1>2, <3>4, <3>5, <3>6, <3>7
    <3>9. ASSUME NEW l \in LayerIds, layer[l].item = i, layer[l].wh = r.from
          PROVE  (l \notin r.wiped \union S => R.seen[l] = 0) /\ ~(r.take[l] > 0)
      <4>1. l \in LayersOf(i, r.from) /\ r.take[l] = 0
        BY <3>9, NotTakenYet DEF LayersOf
      <4>2. R.seen[l] = layer[l].left
        BY <4>1
      <4> QED BY <3>2, <4>1, <4>2
    <3> QED BY <2>2, <3>8, <3>9
  <2> QED BY <2>1, <2>2
<1>8. ASSUME R.fresh PROVE TakesInOrder(layer, R)
  <2> SUFFICES ASSUME NEW l \in LayerIds, NEW k \in LayerIds, r.take[l] > 0,
                      layer[k].item = layer[l].item, layer[k].wh = r.from,
                      Sooner(layer, k, l)
               PROVE  r.take[k] = R.seen[k]
    BY DEF TakesInOrder
  <2>1. layer[l].item # i
    BY NotTakenYet
  <2>2. R.seen[k] = r.seen[k]
    BY <1>3, <2>1
  <2> QED BY <1>8, <2>2 DEF ReadsWell, TakesInOrder
<1> QED BY <1>4, <1>5, <1>6, <1>7, <1>8 DEF ReadsWell

\* A request that has read nothing.
LEMMA NewReadsWell ==
  ASSUME NEW r \in Request, r.take = None, r.seen = None, r.again = {},
         \/ r.stage = "read" /\ r.todo = Consumed(r) /\ r.qty > 0
         \/ r.stage = "idle" /\ r.kind = "adjust" /\ r.qty = 0
  PROVE  ReadsWell(layer, r)
<1>1. \A l \in LayerIds : r.take[l] = 0 /\ r.seen[l] = 0
  BY DEF None
<1>2. ASSUME NEW i \in Consumed(r) \ r.todo PROVE Gave(layer, r, i) = Demand(r, i)
  <2>1. \A l \in LayerIds : GaveBy(layer, r, i)[l] = 0
    BY <1>1 DEF GaveBy
  <2>2. Gave(layer, r, i) = 0
    BY <2>1, LayerIdsFinite, SumZero DEF Gave, Total
  <2>3. r.qty = 0 /\ r.kind # "produce"
    BY <1>2
  <2> QED BY <2>2, <2>3 DEF Demand
<1> QED BY <1>1, <1>2 DEF ReadsWell, InTurn, SeesCreated, TakesCreated, TakesEnough, FallsShort,
      TakesInOrder

LEMMA RequestReadsWell ==
  ASSUME IInv, AllReadWell, NEW p \in Procs, NEW R \in Request, ReadsWell(layer, R),
         req' = [req EXCEPT ![p] = R], layer' = layer
  PROVE  AllReadWell'
<1> SUFFICES ASSUME NEW q \in Procs PROVE ReadsWell(layer', req'[q])
  BY DEF AllReadWell
<1>1. req'[q] = IF q = p THEN R ELSE req[q]
  BY DEF IInv, LayersType
<1> QED BY <1>1 DEF AllReadWell

LEMMA IdleReadsWell == ReadsWell(layer, Idle)
BY IdleType, NewReadsWell DEF Idle

LEMMA CommitReadsWell ==
  ASSUME IInv, IInv', AllReadWell, Extends(layer, layer'),
         \A q \in Procs : req'[q] = req[q] \/ req'[q] = Idle
  PROVE  AllReadWell'
<1> SUFFICES ASSUME NEW q \in Procs PROVE ReadsWell(layer', req'[q])
  BY DEF AllReadWell
<1>1. /\ layer \in [LayerIds -> Layer] /\ layer' \in [LayerIds -> Layer]
      /\ req[q] \in Request /\ Idle \in Request
  BY IdleType DEF IInv, LayersType
<1>2. PICK r \in Request : r = req'[q] /\ ReadsWell(layer, r)
  BY <1>1, IdleReadsWell DEF AllReadWell
<1>3. r.again \subseteq Items
  BY DEF Request
<1>4. ReadsWell(layer', r)
  BY <1>1, <1>2, <1>3, StillReadsWell
<1> QED BY <1>2, <1>4

LEMMA AfterTakingExpiry ==
  ASSUME LayersType, NEW r, NEW l \in LayerIds
  PROVE  AfterTaking(r, l).expiry = layer[l].expiry
BY DEF AfterTaking, LayersType, Layer

LEMMA WritesExtend ==
  ASSUME IInv, NEW p \in Procs, NEW new, Writes(req[p], new)
  PROVE  Extends(layer, layer')
<1>1. req[p] \in Request /\ Remembers(req[p])
  BY DEF IInv, LayersType
<1>2. ASSUME NEW l \in LayerIds, layer[l].item # NoItem
      PROVE  /\ layer'[l].item = layer[l].item /\ layer'[l].wh = layer[l].wh
             /\ layer'[l].expiry = layer[l].expiry
  <2>1. l \notin new
    BY <1>2 DEF Writes, Created
  <2>2. layer'[l] = AfterTaking(req[p], l)
    BY <2>1 DEF Writes
  <2> QED BY <1>1, <2>2, AfterTakingType, AfterTakingExpiry DEF IInv
<1> QED BY <1>2 DEF Extends

LEMMA StartReadsWell ==
  ASSUME IInv, AllReadWell, NEW p \in Procs,
         StartOut(p) \/ StartTransfer(p) \/ StartProduce(p)
  PROVE  AllReadWell'
<1>1. PICK R : /\ req' = [req EXCEPT ![p] = R]
               /\ \/ \E i \in Items, w \in Warehouses, qty \in Quantities :
                       R = [Idle EXCEPT !.stage = "read", !.kind = "adjust", !.item = i,
                                        !.from = w, !.qty = qty, !.todo = {i}]
                  \/ \E i \in Items, v \in Warehouses, w \in Warehouses, qty \in Quantities :
                       R = [Idle EXCEPT !.stage = "read", !.kind = "transfer", !.item = i,
                                        !.from = v, !.to = w, !.qty = qty, !.todo = {i}]
                  \/ \E i \in Items, w \in Warehouses, qty \in Quantities, negative \in BOOLEAN :
                       R = [Idle EXCEPT !.stage = "read", !.kind = "produce", !.item = i,
                                        !.from = w, !.qty = qty, !.negative = negative,
                                        !.todo = Leaves(i)]
  <2>1. CASE StartOut(p)
    BY <2>1 DEF StartOut
  <2>2. CASE StartTransfer(p)
    <3>1. PICK i \in Items, v \in Warehouses, w \in Warehouses, qty \in Quantities :
            req' = [req EXCEPT ![p] =
              [Idle EXCEPT !.stage = "read", !.kind = "transfer", !.item = i,
                           !.from = v, !.to = w, !.qty = qty, !.todo = {i}]]
      BY <2>2 DEF StartTransfer
    <3>2. PICK R : R = [Idle EXCEPT !.stage = "read", !.kind = "transfer", !.item = i,
                                    !.from = v, !.to = w, !.qty = qty, !.todo = {i}]
      OBVIOUS
    <3>3. req' = [req EXCEPT ![p] = R]
      BY <3>1, <3>2
    <3>4. \E j \in Items, a \in Warehouses, b \in Warehouses, n \in Quantities :
            R = [Idle EXCEPT !.stage = "read", !.kind = "transfer", !.item = j,
                             !.from = a, !.to = b, !.qty = n, !.todo = {j}]
      BY <3>2
    <3> QED BY <3>3, <3>4, Zenon
  <2>3. CASE StartProduce(p)
    <3>1. PICK i \in Items, w \in Warehouses, qty \in Quantities, negative \in Negatives :
            req' = [req EXCEPT ![p] =
              [Idle EXCEPT !.stage = "read", !.kind = "produce", !.item = i,
                           !.from = w, !.qty = qty, !.negative = negative,
                           !.todo = Leaves(i)]]
      BY <2>3 DEF StartProduce
    <3>2. negative \in BOOLEAN
      BY ConstantsAssumption
    <3> QED BY <3>1, <3>2
  <2> QED BY <2>1, <2>2, <2>3
<1>2. \A qty \in Quantities : qty \in Nat /\ qty > 0
  BY ConstantsAssumption
<1>3. /\ R \in Request /\ R.stage = "read" /\ R.take = None /\ R.seen = None /\ R.again = {}
      /\ R.todo = Consumed(R) /\ R.qty > 0
  <2>1. CASE \E i \in Items, w \in Warehouses, qty \in Quantities :
               R = [Idle EXCEPT !.stage = "read", !.kind = "adjust", !.item = i,
                                !.from = w, !.qty = qty, !.todo = {i}]
    <3>1. PICK i \in Items, w \in Warehouses, qty \in Quantities :
               R = [Idle EXCEPT !.stage = "read", !.kind = "adjust", !.item = i,
                                !.from = w, !.qty = qty, !.todo = {i}]
      BY <2>1
    <3>2. R \in Request
      BY <1>2, <3>1, IdleType DEF Request, Stages, Kinds
    <3> QED BY <1>2, <3>1, <3>2 DEF Idle, Consumed
  <2>2. CASE \E i \in Items, v \in Warehouses, w \in Warehouses, qty \in Quantities :
               R = [Idle EXCEPT !.stage = "read", !.kind = "transfer", !.item = i,
                                !.from = v, !.to = w, !.qty = qty, !.todo = {i}]
    <3>1. PICK i \in Items, v \in Warehouses, w \in Warehouses, qty \in Quantities :
               R = [Idle EXCEPT !.stage = "read", !.kind = "transfer", !.item = i,
                                !.from = v, !.to = w, !.qty = qty, !.todo = {i}]
      BY <2>2
    <3>2. R \in Request
      BY <1>2, <3>1, IdleType DEF Request, Stages, Kinds
    <3> QED BY <1>2, <3>1, <3>2 DEF Idle, Consumed
  <2>3. CASE \E i \in Items, w \in Warehouses, qty \in Quantities, negative \in BOOLEAN :
               R = [Idle EXCEPT !.stage = "read", !.kind = "produce", !.item = i,
                                !.from = w, !.qty = qty, !.negative = negative,
                                !.todo = Leaves(i)]
    <3>1. PICK i \in Items, w \in Warehouses, qty \in Quantities, negative \in BOOLEAN :
               R = [Idle EXCEPT !.stage = "read", !.kind = "produce", !.item = i,
                                !.from = w, !.qty = qty, !.negative = negative,
                                !.todo = Leaves(i)]
      BY <2>3
    <3>2. Leaves(i) \in SUBSET Items
      BY DEF Leaves
    <3>3. R \in Request
      BY <1>2, <3>1, <3>2, IdleType DEF Request, Stages, Kinds
    <3>4. R.kind = "produce" /\ R.item = i /\ R.todo = Leaves(i) /\ R.qty = qty
      BY <3>1, IdleType DEF Request
    <3> QED BY <1>2, <3>1, <3>3, <3>4 DEF Idle, Consumed
  <2> QED BY <1>1, <2>1, <2>2, <2>3
<1>4. ReadsWell(layer, R)
  <2>1. R.stage = "read" /\ R.todo = Consumed(R) /\ R.qty > 0
    BY <1>3
  <2>2. R \in Request /\ R.take = None /\ R.seen = None /\ R.again = {}
    BY <1>3
  <2> QED BY <2>1, <2>2, NewReadsWell
<1>5. layer' = layer
  BY DEF StartOut, StartTransfer, StartProduce
<1> QED BY <1>1, <1>3, <1>4, <1>5, RequestReadsWell

LEMMA ReadStepReadsWell ==
  ASSUME IInv, IInv', AllReadWell, NEW p \in Procs, ReadLayers(p) \/ FallShort(p) \/ ReadAgain(p)
  PROVE  AllReadWell'
<1>0. req[p] \in Request /\ Remembers(req[p]) /\ ReadsWell(layer, req[p]) /\ LayersType
  BY DEF IInv, LayersType, AllReadWell
<1> DEFINE r == req[p]
<1>1. r \in Request /\ Remembers(r) /\ ReadsWell(layer, r)
  BY <1>0
<1>2. layer' = layer /\ r.todo \subseteq Items
  BY <1>1 DEF ReadLayers, FallShort, ReadAgain, Request
<1>3. CASE ReadLayers(p)
  <2>1. PICK i, S : i \in r.todo /\ S = Open(i, r.from) /\
          \E t \in Takings(S, Demand(r, i), "FEFO") :
            Total(t, S) = Demand(r, i) /\ req' = [req EXCEPT ![p] = WithTaken(r, i, S, t)]
    BY <1>1, <1>3 DEF ReadLayers
  <2>2. PICK t \in Takings(S, Demand(r, i), "FEFO") :
          Total(t, S) = Demand(r, i) /\ req' = [req EXCEPT ![p] = WithTaken(r, i, S, t)]
    BY <2>1
  <2>3. S \in SUBSET LayerIds /\ i \in Items /\ Demand(r, i) \in Nat
    <3>1. i \in Items
      BY <1>2, <2>1
    <3>2. S \subseteq LayerIds
      BY <2>1 DEF Open, LayersOf
    <3> QED BY <1>1, <3>1, <3>2, DemandType
  <2>4. /\ t \in [S -> Nat] /\ \A l \in S : t[l] <= layer[l].left
        /\ \A k, l \in S : Before(k, l) /\ t[l] > 0 => t[k] = layer[k].left
    BY <1>0, <2>3 DEF Takings, InOrder
  <2>5. PICK R : R = WithTaken(r, i, S, t)
    OBVIOUS
  <2>6. R \in Request
    <3>1. S \in SUBSET Open(i, r.from)
      BY <2>1
    <3> QED BY <1>0, <1>1, <1>2, <2>1, <2>4, <2>5, <3>1, WithTakenRemembers DEF IInv
  <2>7. Became(r, R, i, S, t) /\ R.fresh = r.fresh
    BY <1>1, <2>5, WithTakenBecomes, ZenonT(60)
  <2>8. r.stage = "read"
    BY <1>1, <1>3 DEF ReadLayers, At
  <2>9. ReadsWell(layer, R)
    BY <1>0, <1>1, <2>1, <2>2, <2>4, <2>6, <2>7, <2>8, TakenReadsWell
  <2> QED BY <1>2, <2>2, <2>5, <2>6, <2>9, RequestReadsWell
<1>4. CASE FallShort(p)
  <2>1. PICK i, S :
          /\ i \in r.todo
          /\ S = Open(i, r.from)
          /\ Total([l \in S |-> layer[l].left], S) < Demand(r, i)
          /\ req' = [req EXCEPT ![p] =
               [r EXCEPT !.stage = "again", !.again = @ \union {i},
                         !.wiped = @ \union S,
                         !.seen = [l \in LayerIds |->
                            IF l \in LayersOf(i, r.from) THEN layer[l].left ELSE @[l]]]]
    BY <1>1, <1>4 DEF FallShort
  <2>2. PICK again, wiped, seen :
          /\ again = r.again \union {i} /\ wiped = r.wiped \union S
          /\ seen = [l \in LayerIds |->
                       IF l \in LayersOf(i, r.from) THEN layer[l].left ELSE r.seen[l]]
    OBVIOUS
  <2>3. PICK R : R = [r EXCEPT !.stage = "again", !.again = again, !.wiped = wiped, !.seen = seen]
    OBVIOUS
  <2>4. /\ R.stage = "again" /\ R.again = again /\ R.wiped = wiped /\ R.seen = seen
        /\ R.todo = r.todo /\ R.take = r.take /\ R.kind = r.kind /\ R.item = r.item
        /\ R.from = r.from /\ R.qty = r.qty /\ R.fresh = r.fresh
    BY <2>3 DEF Request
  <2>5. R \in Request
    <3>1. req'[p] = R
      BY <2>1, <2>2, <2>3 DEF IInv, LayersType
    <3> QED BY <3>1 DEF IInv, LayersType
  <2>6. r.stage = "read"
    BY <1>1, <1>4 DEF FallShort, At
  <2>7. ReadsWell(layer, R)
    BY <1>0, <1>1, <2>1, <2>2, <2>4, <2>5, <2>6, ShortReadsWell
  <2> QED BY <1>2, <2>1, <2>2, <2>3, <2>5, <2>7, RequestReadsWell
<1>5. CASE ReadAgain(p)
  <2>1. PICK i, S : i \in r.again \intersect r.todo /\ S = Open(i, r.from) \ r.wiped /\
          \E t \in Takings(S, Demand(r, i), "FIFO") :
            req' = [req EXCEPT ![p] =
              [WithTaken(r, i, S, t) EXCEPT !.fresh = @ /\ S = {}]]
    BY <1>1, <1>5 DEF ReadAgain
  <2>2. PICK t \in Takings(S, Demand(r, i), "FIFO") :
          req' = [req EXCEPT ![p] =
            [WithTaken(r, i, S, t) EXCEPT !.fresh = @ /\ S = {}]]
    BY <2>1
  <2>3. S \in SUBSET LayerIds /\ i \in Items /\ Demand(r, i) \in Nat
    <3>1. i \in Items
      BY <1>2, <2>1
    <3>2. S \subseteq LayerIds
      BY <2>1 DEF Open, LayersOf
    <3> QED BY <1>1, <3>1, <3>2, DemandType
  <2>4. t \in [S -> Nat] /\ \A l \in S : t[l] <= layer[l].left
    BY <1>0, <2>3 DEF Takings
  <2>5. PICK fresh : fresh = (WithTaken(r, i, S, t).fresh /\ S = {})
    OBVIOUS
  <2>6. PICK R : R = [WithTaken(r, i, S, t) EXCEPT !.fresh = fresh]
    OBVIOUS
  <2>7. WithTaken(r, i, S, t) \in Request
    <3>1. S \in SUBSET Open(i, r.from) /\ i \in r.todo
      BY <2>1
    <3> QED BY <1>0, <1>1, <2>4, <3>1, WithTakenRemembers DEF IInv
  <2>8. Became(r, R, i, S, t) /\ R.fresh = (r.fresh /\ S = {})
    <3>1. Became(r, R, i, S, t)
      BY <1>1, <2>6, WithTakenBecomes
    <3>2. R.fresh = fresh
      BY <1>1, <2>6, <2>7, WithTakenBecomes
    <3>3. WithTaken(r, i, S, t).fresh = r.fresh
      BY <1>1, WithTakenBecomes
    <3> QED BY <2>5, <3>1, <3>2, <3>3
  <2>9. R \in Request
    <3>1. fresh \in BOOLEAN
      BY <2>5
    <3> QED BY <2>6, <2>7, <3>1 DEF Request
  <2>10. r.stage = "again"
    BY <1>1, <1>5 DEF ReadAgain, At
  <2>11. ReadsWell(layer, R)
    BY <1>0, <1>1, <2>1, <2>4, <2>8, <2>9, <2>10, AgainReadsWell
  <2>12. req' = [req EXCEPT ![p] = R]
    BY <2>2, <2>5, <2>6
  <2> QED BY <1>2, <2>9, <2>11, <2>12, RequestReadsWell
<1> QED BY <1>3, <1>4, <1>5

LEMMA StepReadsWell == ASSUME IInv, IInv', AllReadWell, [Next]_vars PROVE AllReadWell'
<1>1. CASE UNCHANGED vars
  BY <1>1 DEF vars, AllReadWell
<1>2. ASSUME NEW p \in Procs, Step(p) PROVE AllReadWell'
  <2>1. CASE StartOut(p) \/ StartTransfer(p) \/ StartProduce(p)
    BY <2>1, StartReadsWell
  <2>2. CASE ReadLayers(p) \/ FallShort(p) \/ ReadAgain(p)
    BY <2>2, ReadStepReadsWell
  <2>3. CASE WriteOut(p) \/ WriteTransfer(p) \/ WriteProduce(p)
    <3>1. \E new : Writes(req[p], new)
      BY <2>3, OutWrites, TransferWrites, ProduceWrites
    <3>2. \A q \in Procs : req'[q] = req[q] \/ req'[q] = Idle
      BY <2>3 DEF WriteOut, WriteTransfer, WriteProduce, IInv, LayersType
    <3> QED BY <3>1, <3>2, WritesExtend, CommitReadsWell
  <2>4. CASE AdjustIn(p)
    <3>1. PICK k, came : k \in LayerIds /\ {k} \in NewLayers /\ layer' = [layer EXCEPT ![k] = came]
      BY <2>4 DEF AdjustIn
    <3>2. Extends(layer, layer')
      BY <3>1 DEF Extends, NewLayers, Created, IInv, LayersType
    <3> QED BY <2>4, <3>2, CommitReadsWell DEF AdjustIn
  <2>5. CASE Abort(p)
    BY <2>5, IdleType, IdleReadsWell, RequestReadsWell DEF Abort
  <2> QED BY <1>2, <2>1, <2>2, <2>3, <2>4, <2>5 DEF Step
<1> QED BY <1>1, <1>2 DEF Next

LEMMA AlwaysReadsWell == Spec => [](IInv /\ AllReadWell)
<1>1. Init => AllReadWell
  BY IdleReadsWell DEF Init, AllReadWell
<1>2. IInv /\ IInv' /\ AllReadWell /\ [Next]_vars => AllReadWell'
  BY StepReadsWell
<1> QED BY <1>1, <1>2, Invariance, PTL DEF Spec

-----------------------------------------------------------------------------
(* The commits, on layers that are still as they were read. *)

LEMMA FreshCommit ==
  ASSUME IInv, NEW p \in Procs, CountStale(req[p]), stale' = 0
  PROVE  /\ stale = 0 /\ ~Stale(req[p]) /\ req[p].fresh
         /\ \A l \in LayerIds : layer[l].item \in Consumed(req[p]) /\ layer[l].wh = req[p].from =>
              layer[l].left = req[p].seen[l]
BY DEF CountStale, Stale, LayersOf, IInv, LayersType

\* The commits, whatever else they write.
LEMMA CommitWrites ==
  ASSUME IInv, NEW p \in Procs, WriteOut(p) \/ WriteTransfer(p) \/ WriteProduce(p)
  PROVE  /\ \E new : Writes(req[p], new)
         /\ req[p].stage = "write"
<1>1. \E new : Writes(req[p], new)
  BY OutWrites, TransferWrites, ProduceWrites
<1> QED BY <1>1 DEF WriteOut, WriteTransfer, WriteProduce, At

LEMMA CommitsFirstExpired ==
  ASSUME IInv, AllReadWell, NEW p \in Procs, NEW new, Writes(req[p], new), stale' = 0
  PROVE  TakesFirstExpired
<1> DEFINE r == req[p]
<1> SUFFICES ASSUME NEW k \in Created, NEW l \in Created,
                    layer[k].item = layer[l].item, layer[k].wh = layer[l].wh,
                    ExpiresBefore(k, l), layer'[l].left < layer[l].left
             PROVE  layer'[k].left = 0
  BY DEF TakesFirstExpired
<1>1. /\ r \in Request /\ Remembers(r) /\ ReadsWell(layer, r)
      /\ k \in LayerIds /\ l \in LayerIds /\ k \notin new /\ l \notin new
  BY DEF IInv, LayersType, AllReadWell, Writes, Created
<1>2. /\ layer'[k] = AfterTaking(r, k) /\ layer'[l] = AfterTaking(r, l)
      /\ layer[k] \in Layer /\ layer[l] \in Layer
      /\ r.take[k] \in Nat /\ r.take[l] \in Nat /\ r.seen[k] \in Nat
  BY <1>1 DEF Writes, IInv, LayersType, Request
<1>3. /\ r.fresh
      /\ layer[k].item \in Consumed(r) /\ layer[k].wh = r.from => layer[k].left = r.seen[k]
  BY <1>1, FreshCommit DEF Writes
<1>4. CASE r.take[l] > 0
  <2>1. layer[k].item \in Consumed(r) /\ layer[k].wh = r.from
    BY <1>1, <1>4 DEF Remembers, TakesWhatItSaw
  <2>2. Sooner(layer, k, l)
    BY DEF ExpiresBefore, Sooner
  <2>3. r.take[k] = r.seen[k]
    BY <1>1, <1>3, <1>4, <2>1, <2>2 DEF ReadsWell, TakesInOrder
  <2>4. layer[k].left = r.take[k]
    BY <1>3, <2>1, <2>3
  <2>5. CASE r.take[k] > 0
    BY <1>2, <2>3, <2>5 DEF AfterTaking, Layer
  <2>6. CASE ~(r.take[k] > 0)
    BY <1>2, <2>4, <2>6 DEF AfterTaking, Layer
  <2> QED BY <2>5, <2>6
<1>5. CASE ~(r.take[l] > 0)
  <2>1. l \in r.wiped
    BY <1>2, <1>5 DEF AfterTaking, Layer
  <2>2. layer[k].item \in r.again /\ layer[k].item \in Consumed(r) /\ layer[k].wh = r.from
    BY <1>1, <2>1 DEF Remembers, EmptiesWhatFellShort, ReadsWell, InTurn
  <2>3. (k \notin r.wiped => r.seen[k] = 0) /\ ~(r.take[k] > 0)
    BY <1>1, <1>3, <2>2 DEF ReadsWell, FallsShort
  <2> QED BY <1>2, <1>3, <2>2, <2>3 DEF AfterTaking, Layer
<1> QED BY <1>4, <1>5

\* FEFO: a commit on layers still as they were read lowers no layer while one
\* of the same item and warehouse that expires before it has stock left;
\* production that fell short, and goes on with the layers oldest first,
\* included.
THEOREM FirstExpiredGoesFirst == Spec => FefoRespected
<1>1. IInv /\ AllReadWell /\ [Next]_vars => [stale' = 0 => TakesFirstExpired]_layer
  <2> SUFFICES ASSUME IInv, AllReadWell, NEW p \in Procs, Step(p), stale' = 0, layer' # layer
               PROVE  TakesFirstExpired
    BY DEF Next, vars
  <2>1. CASE WriteOut(p) \/ WriteTransfer(p) \/ WriteProduce(p)
    BY <2>1, CommitWrites, CommitsFirstExpired
  <2>2. CASE AdjustIn(p)
    <3>1. PICK n, came : n \in LayerIds /\ {n} \in NewLayers /\ layer' = [layer EXCEPT ![n] = came]
      BY <2>2 DEF AdjustIn
    <3>2. \A l \in Created : layer'[l] = layer[l]
      BY <3>1 DEF NewLayers
    <3>3. \A l \in Created : ~(layer'[l].left < layer[l].left)
      BY <3>2 DEF IInv, LayersType, Layer, Created
    <3> QED BY <3>3 DEF TakesFirstExpired
  <2> QED BY <2>1, <2>2
      DEF Step, StartOut, StartTransfer, StartProduce, ReadLayers, FallShort, ReadAgain, Abort
<1> QED BY <1>1, AlwaysReadsWell, PTL DEF Spec, FefoRespected

-----------------------------------------------------------------------------
(* What a commit moves: the sums over the layers before and after it. *)

\* e is what is left of f after g left, and what came in with N.
LEMMA Moved ==
  ASSUME NEW S, IsFiniteSet(S), NEW N \in SUBSET S, NEW f, NEW g, NEW e,
         \A x \in S : f[x] \in Int /\ g[x] \in Int /\ e[x] \in Int,
         \A x \in S \ N : e[x] = f[x] - g[x],
         \A x \in N : f[x] = 0 /\ g[x] = 0
  PROVE  Total(e, S) = Total(f, S) - Total(g, S) + Total(e, N)
<1> DEFINE d == [x \in S |-> f[x] - g[x]]
           h == [x \in S |-> IF x \in N THEN e[x] ELSE 0]
<1>1. \A x \in S : d[x] \in Int /\ g[x] \in Int /\ f[x] = d[x] + g[x]
  OBVIOUS
<1>2. \A x \in S : d[x] \in Int /\ h[x] \in Int /\ e[x] = d[x] + h[x]
  OBVIOUS
<1>3. (\A x \in N : e[x] \in Int /\ h[x] = e[x]) /\ (\A x \in S \ N : h[x] = 0)
  OBVIOUS
<1> HIDE DEF d, h
<1>4. Total(f, S) = Total(d, S) + Total(g, S)
  BY <1>1, SumOfSums DEF Total
<1>5. Total(e, S) = Total(d, S) + Total(h, S)
  BY <1>2, SumOfSums DEF Total
<1>6. Total(h, S) = Total(e, N)
  BY <1>3, SumSubset DEF Total
<1>7. /\ Total(d, S) \in Int /\ Total(g, S) \in Int /\ Total(h, S) \in Int
      /\ Total(e, S) \in Int /\ Total(f, S) \in Int
  BY <1>2, SumType DEF Total
<1> QED BY <1>4, <1>5, <1>6, <1>7

LEMMA Leaving == ASSUME NEW a \in Int, NEW b \in Int, NEW c \in Int
                 PROVE  (a - b) * c = a * c - b * c
OBVIOUS

\* The layers of P, each unit counting c, before a commit and what it takes of them.
CountIn(P, c) == [l \in LayerIds |-> IF l \in P THEN layer[l].left * c[l] ELSE 0]
TakenIn(r, P, c) == [l \in LayerIds |-> IF l \in P THEN r.take[l] * c[l] ELSE 0]

\* A commit on layers that are still as they were read takes what it records
\* from the layers of P, none of them emptied for an item that fell short.
LEMMA CommitMoves ==
  ASSUME IInv, NEW p \in Procs, NEW new, Writes(req[p], new), stale' = 0,
         NEW P \in SUBSET Created, P \intersect req[p].wiped = {},
         NEW c \in [LayerIds -> Int], NEW e,
         \A l \in LayerIds : e[l] \in Int,
         \A l \in LayerIds \ new : e[l] = IF l \in P THEN layer'[l].left * c[l] ELSE 0
  PROVE  /\ Total(e, LayerIds) = Total(CountIn(P, c), LayerIds)
                                   - Total(TakenIn(req[p], P, c), LayerIds) + Total(e, new)
         /\ Total(e, LayerIds) \in Int /\ Total(CountIn(P, c), LayerIds) \in Int
         /\ Total(TakenIn(req[p], P, c), LayerIds) \in Int /\ Total(e, new) \in Int
<1> DEFINE r == req[p]
           f == CountIn(P, c)
           g == TakenIn(r, P, c)
<1>1. r \in Request /\ Remembers(r) /\ new \in SUBSET LayerIds /\ P \intersect new = {}
  BY DEF IInv, LayersType, Writes
<1>2. \A l \in LayerIds : /\ layer[l] \in Layer /\ layer[l].left \in Int
                          /\ r.take[l] \in Nat /\ c[l] \in Int
  BY <1>1 DEF IInv, LayersType, Layer, Request
<1>3. \A l \in LayerIds : f[l] \in Int /\ g[l] \in Int /\ e[l] \in Int
  BY <1>2 DEF CountIn, TakenIn
<1>4. ASSUME NEW l \in LayerIds \ new PROVE e[l] = f[l] - g[l]
  <2>1. CASE l \in P
    <3>1. layer'[l].left = layer[l].left - r.take[l]
      <4>1. layer'[l] = AfterTaking(r, l)
        BY DEF Writes
      <4>2. CASE r.take[l] > 0
        <5>1. layer[l].item \in Consumed(r) /\ layer[l].wh = r.from
          BY <1>1, <4>2 DEF Remembers, TakesWhatItSaw
        <5>2. layer[l].left = r.seen[l]
          BY <5>1, FreshCommit DEF Writes
        <5> QED BY <1>2, <4>1, <4>2, <5>2 DEF AfterTaking, Layer
      <4>3. CASE ~(r.take[l] > 0)
        <5>1. l \notin r.wiped /\ r.take[l] = 0
          BY <1>2, <2>1, <4>3
        <5> QED BY <1>2, <4>1, <4>3, <5>1 DEF AfterTaking
      <4> QED BY <4>2, <4>3
    <3>2. e[l] = (layer[l].left - r.take[l]) * c[l]
      BY <2>1, <3>1
    <3>3. f[l] = layer[l].left * c[l] /\ g[l] = r.take[l] * c[l]
      BY <2>1 DEF CountIn, TakenIn
    <3> QED BY <1>2, <3>2, <3>3, Leaving
  <2>2. CASE l \notin P
    BY <2>2 DEF CountIn, TakenIn
  <2> QED BY <2>1, <2>2
<1>5. \A l \in new : f[l] = 0 /\ g[l] = 0
  BY <1>1 DEF CountIn, TakenIn
<1> HIDE DEF f, g
<1>6. Total(e, LayerIds) = Total(f, LayerIds) - Total(g, LayerIds) + Total(e, new)
  BY <1>1, <1>3, <1>4, <1>5, LayerIdsFinite, Moved
<1>7. /\ Total(e, LayerIds) \in Int /\ Total(f, LayerIds) \in Int /\ Total(g, LayerIds) \in Int
      /\ Total(e, new) \in Int
  <2>1. IsFiniteSet(new) /\ \A l \in new : e[l] \in Int
    BY <1>1, LayerIdsFinite, FS_Subset
  <2> QED BY <1>3, <2>1, LayerIdsFinite, SumType DEF Total
<1> QED BY <1>6, <1>7 DEF f, g

\* What the new layers of a transfer count, the layers it took from counted.
LEMMA MirrorsCount ==
  ASSUME IInv, NEW p \in Procs, NEW new, NEW source, Mirrors(p, new, source),
         NEW g, NEW e, \A l \in new : g[source[l]] \in Int /\ e[l] = g[source[l]],
         \A l \in LayerIds \ TakenOf(req[p], req[p].item) : g[l] = 0
  PROVE  Total(e, new) = Total(g, LayerIds)
<1> DEFINE taken == TakenOf(req[p], req[p].item)
<1>1. taken \in SUBSET LayerIds /\ new \in SUBSET LayerIds
  BY DEF TakenOf, LayersOf, Mirrors
<1>2. IsFiniteSet(new)
  BY <1>1, LayerIdsFinite, FS_Subset
<1>3. /\ \A l \in new : source[l] \in taken
      /\ \A t \in taken : \E l \in new : source[l] = t
      /\ \A k, l \in new : source[k] = source[l] => k = l
  BY DEF Mirrors
<1>4. \A t \in taken : g[t] \in Int
  BY <1>3
<1>5. \A l \in LayerIds \ taken : g[l] = 0
  OBVIOUS
<1> HIDE DEF taken
<1>6. \A l \in new : e[l] \in Int /\ g[source[l]] = e[l]
  OBVIOUS
<1>7. Total(g, taken) = Total(e, new)
  BY <1>2, <1>3, <1>6, SumImage DEF Total
<1>8. \A t \in taken : g[t] \in Int /\ g[t] = g[t]
  BY <1>4
<1>9. Total(g, LayerIds) = Total(g, taken)
  BY <1>1, <1>5, <1>8, LayerIdsFinite, SumSubset DEF Total
<1> QED BY <1>7, <1>9

-----------------------------------------------------------------------------
(* The stock of the layers and the stock of the moves. *)

HeldIn(table, i, w) ==
  [l \in LayerIds |-> IF table[l].item = i /\ table[l].wh = w THEN table[l].left ELSE 0]
Stock(table, i, w) == Total(HeldIn(table, i, w), LayerIds)

LEMMA StockIs ==
  ASSUME NEW table \in [LayerIds -> Layer], NEW i, NEW w, NEW S,
         S = {l \in LayerIds : table[l].item = i /\ table[l].wh = w}
  PROVE  Total([l \in S |-> table[l].left], S) = Stock(table, i, w)
<1> DEFINE f == [l \in S |-> table[l].left]
           e == HeldIn(table, i, w)
<1>1. /\ S \in SUBSET LayerIds
      /\ \A l \in S : f[l] \in Int /\ e[l] = f[l]
      /\ \A l \in LayerIds \ S : e[l] = 0
  BY DEF HeldIn, Layer
<1> HIDE DEF f, e
<1>2. Total(e, LayerIds) = Total(f, S)
  BY <1>1, LayerIdsFinite, SumSubset DEF Total
<1> QED BY <1>2 DEF Stock, f, e

LEMMA StockType ==
  ASSUME NEW table \in [LayerIds -> Layer], NEW i, NEW w, NEW new \in SUBSET LayerIds
  PROVE  /\ \A l \in LayerIds : HeldIn(table, i, w)[l] \in Nat
         /\ Stock(table, i, w) \in Int /\ Total(HeldIn(table, i, w), new) \in Int
<1> DEFINE e == HeldIn(table, i, w)
<1>1. \A l \in LayerIds : e[l] \in Nat
  BY DEF HeldIn, Layer
<1> HIDE DEF e
<1>2. Total(e, LayerIds) \in Int
  BY <1>1, LayerIdsFinite, SumType DEF Total
<1>3. Total(e, new) \in Int
  <2>1. IsFiniteSet(new) /\ \A l \in new : e[l] \in Int
    BY <1>1, LayerIdsFinite, FS_Subset
  <2> QED BY <2>1, SumType DEF Total
<1> QED BY <1>1, <1>2, <1>3 DEF Stock, e

\* What a request records as taken of the layers of an item in a warehouse.
LEMMA TakenOfPlace ==
  ASSUME IInv, NEW p \in Procs, ReadsWell(layer, req[p]), req[p].stage = "write",
         NEW i \in Items, NEW w \in Warehouses,
         ~(i \in req[p].again /\ w = req[p].from),
         NEW g, g = [l \in LayerIds |-> IF l \in LayersOf(i, w) THEN req[p].take[l] ELSE 0]
  PROVE  Total(g, LayerIds)
           = IF w = req[p].from /\ i \in Consumed(req[p]) THEN Demand(req[p], i) ELSE 0
<1> DEFINE r == req[p]
<1>1. r \in Request /\ Remembers(r) /\ r.todo = {}
  BY DEF IInv, LayersType, ReadsWell, InTurn
<1>2. \A l \in LayerIds : /\ r.take[l] \in Nat
                          /\ r.take[l] > 0 => layer[l].item \in Consumed(r) /\ layer[l].wh = r.from
  BY <1>1 DEF Request, Remembers, TakesWhatItSaw
<1>3. CASE w = r.from /\ i \in Consumed(r)
  <2>1. \A l \in LayerIds : g[l] = GaveBy(layer, r, i)[l]
    BY <1>2, <1>3 DEF GaveBy, LayersOf
  <2>2. Total(g, LayerIds) = Gave(layer, r, i)
    BY <2>1, LayerIdsFinite, SumAgree DEF Gave, Total
  <2>3. Gave(layer, r, i) = Demand(r, i)
    BY <1>1, <1>3 DEF ReadsWell, TakesEnough
  <2> QED BY <1>3, <2>2, <2>3
<1>4. CASE ~(w = r.from /\ i \in Consumed(r))
  <2>1. \A l \in LayerIds : g[l] = 0
    BY <1>2, <1>4 DEF LayersOf
  <2>2. Total(g, LayerIds) = 0
    BY <2>1, LayerIdsFinite, SumZero DEF Total
  <2> QED BY <1>4, <2>2
<1> QED BY <1>3, <1>4

LEMMA StockMoves ==
  ASSUME IInv, IInv', NEW p \in Procs, NEW new, Writes(req[p], new), stale' = 0,
         ReadsWell(layer, req[p]), req[p].stage = "write",
         NEW i \in Items, NEW w \in Warehouses,
         ~(i \in req[p].again /\ w = req[p].from)
  PROVE  Stock(layer', i, w)
           = Stock(layer, i, w)
             - (IF w = req[p].from /\ i \in Consumed(req[p]) THEN Demand(req[p], i) ELSE 0)
             + Total(HeldIn(layer', i, w), new)
<1> DEFINE r == req[p]
           P == LayersOf(i, w)
           c == [l \in LayerIds |-> 1]
           e == HeldIn(layer', i, w)
           g == [l \in LayerIds |-> IF l \in P THEN r.take[l] ELSE 0]
<1>1. /\ r \in Request /\ Remembers(r) /\ layer \in [LayerIds -> Layer]
      /\ layer' \in [LayerIds -> Layer] /\ i # NoItem /\ P \subseteq LayerIds
  BY ConstantsAssumption DEF IInv, LayersType, LayersOf
<1>2. \A l \in LayerIds \ new : layer'[l].item = layer[l].item /\ layer'[l].wh = layer[l].wh
  BY <1>1, AfterTakingType DEF Writes, IInv
<1>3. P \in SUBSET Created /\ P \intersect r.wiped = {}
  BY <1>1 DEF LayersOf, Created, Remembers, EmptiesWhatFellShort
<1>4. c \in [LayerIds -> Int] /\ \A l \in LayerIds : e[l] \in Int
  <2>1. new \in SUBSET LayerIds
    BY DEF Writes
  <2>2. \A l \in LayerIds : HeldIn(layer', i, w)[l] \in Nat
    BY <1>1, <2>1, StockType
  <2> QED BY <2>2
<1>5. \A l \in LayerIds \ new : e[l] = IF l \in P THEN layer'[l].left * c[l] ELSE 0
  BY <1>1, <1>2 DEF HeldIn, LayersOf, Layer
<1>6. \A l \in LayerIds : CountIn(P, c)[l] = HeldIn(layer, i, w)[l]
  BY <1>1 DEF CountIn, HeldIn, LayersOf, Layer
<1>7. \A l \in LayerIds : TakenIn(r, P, c)[l] = g[l]
  BY <1>1 DEF TakenIn, Request
<1>8. Total(g, LayerIds) = IF w = r.from /\ i \in Consumed(r) THEN Demand(r, i) ELSE 0
  BY TakenOfPlace
<1> HIDE DEF P, c, e, g
<1>9. Total(e, LayerIds) = Total(CountIn(P, c), LayerIds)
                             - Total(TakenIn(r, P, c), LayerIds) + Total(e, new)
  BY <1>3, <1>4, <1>5, CommitMoves
<1>10. Total(CountIn(P, c), LayerIds) = Stock(layer, i, w)
  BY <1>6, LayerIdsFinite, SumAgree DEF Stock, Total
<1>11. Total(TakenIn(r, P, c), LayerIds) = Total(g, LayerIds)
  BY <1>7, LayerIdsFinite, SumAgree DEF Total
<1> QED BY <1>8, <1>9, <1>10, <1>11 DEF e, Stock

\* Of an item that fell short all there was goes, which is no more than it needs.
LEMMA StockFallsShort ==
  ASSUME IInv, IInv', NEW p \in Procs, NEW new, Writes(req[p], new), stale' = 0,
         ReadsWell(layer, req[p]),
         NEW i \in req[p].again, NEW w, w = req[p].from
  PROVE  /\ Stock(layer, i, w) <= Demand(req[p], i)
         /\ Total(HeldIn(layer', i, w), new) <= Stock(layer', i, w)
<1> DEFINE r == req[p]
           e == HeldIn(layer', i, w)
           h == [l \in LayerIds |-> IF l \in new THEN e[l] ELSE 0]
<1>1. /\ r \in Request /\ i \in Consumed(r) /\ new \in SUBSET LayerIds
      /\ layer' \in [LayerIds -> Layer] /\ r.fresh
  BY FreshCommit DEF IInv, LayersType, ReadsWell, InTurn, Writes
<1>2. \A l \in LayerIds : HeldIn(layer, i, w)[l] = SawBy(layer, r, i)[l]
  BY <1>1, FreshCommit DEF HeldIn, SawBy, Writes
<1>3. Stock(layer, i, w) = Saw(layer, r, i)
  BY <1>2, LayerIdsFinite, SumAgree DEF Stock, Saw, Total
<1>4. Saw(layer, r, i) <= Demand(r, i)
  BY <1>1 DEF ReadsWell, FallsShort
<1>5. \A l \in LayerIds : e[l] \in Nat
  BY <1>1, StockType
<1>6. /\ \A l \in LayerIds : h[l] \in Int /\ e[l] \in Int /\ h[l] <= e[l]
      /\ \A l \in new : e[l] \in Int /\ h[l] = e[l]
      /\ \A l \in LayerIds \ new : h[l] = 0
  BY <1>1, <1>5
<1> HIDE DEF e, h
<1>7. Total(h, LayerIds) = Total(e, new)
  BY <1>1, <1>6, LayerIdsFinite, SumSubset DEF Total
<1>8. Total(h, LayerIds) <= Total(e, LayerIds)
  BY <1>6, LayerIdsFinite, SumMonotone DEF Total
<1> QED BY <1>3, <1>4, <1>7, <1>8 DEF Stock, e

StockInv == kardex \in [Places -> Int] /\ StockAgrees

\* A commit whose moves say what its layers do keeps the two stocks together.
LEMMA CommitAgrees ==
  ASSUME IInv, IInv', AllReadWell, StockInv, NEW p \in Procs, NEW new,
         Writes(req[p], new), req[p].stage = "write",
         kardex' \in [Places -> Int],
         \A i \in Items, w \in Warehouses :
           stale' = 0 =>
           kardex'[<<i, w>>]
             = kardex[<<i, w>>]
               - (IF w = req[p].from /\ i \in Consumed(req[p]) THEN Demand(req[p], i) ELSE 0)
               + Total(HeldIn(layer', i, w), new)
  PROVE  StockInv'
<1> SUFFICES ASSUME stale' = 0, NEW i \in Items, NEW w \in Warehouses
             PROVE  /\ kardex'[<<i, w>>] <= Stock(layer', i, w)
                    /\ <<i, w>> \notin overdrawn' => kardex'[<<i, w>>] = Stock(layer', i, w)
  <2>1. layer' \in [LayerIds -> Layer]
    BY DEF IInv, LayersType
  <2>2. \A i \in Items, w \in Warehouses : StockOf(i, w)' = Stock(layer', i, w)
    BY <2>1, StockIs DEF StockOf, LayersOf
  <2> QED BY <2>2 DEF StockInv, StockAgrees, Places
<1> DEFINE r == req[p]
           held == Stock(layer, i, w)
           holds == Stock(layer', i, w)
           came == Total(HeldIn(layer', i, w), new)
           left == IF w = r.from /\ i \in Consumed(r) THEN Demand(r, i) ELSE 0
<1>1. /\ layer \in [LayerIds -> Layer] /\ layer' \in [LayerIds -> Layer]
      /\ new \in SUBSET LayerIds /\ r \in Request /\ ReadsWell(layer, r) /\ <<i, w>> \in Places
  BY DEF IInv, LayersType, AllReadWell, Writes, Places
<1>2. StockOf(i, w) = held
  BY <1>1, StockIs DEF StockOf, LayersOf
<1>3. /\ kardex[<<i, w>>] <= held
      /\ <<i, w>> \notin overdrawn => kardex[<<i, w>>] = held
  <2>1. stale = 0
    BY FreshCommit DEF Writes
  <2>2. StockAgrees
    BY DEF StockInv
  <2>3. /\ kardex[<<i, w>>] <= StockOf(i, w)
        /\ <<i, w>> \notin overdrawn => kardex[<<i, w>>] = StockOf(i, w)
    BY <1>1, <2>1, <2>2 DEF StockAgrees
  <2> QED BY <1>2, <2>3
<1>4. /\ held \in Int /\ holds \in Int /\ came \in Int /\ left \in Nat
      /\ kardex[<<i, w>>] \in Int /\ kardex'[<<i, w>>] \in Int
  BY <1>1, StockType, DemandType DEF StockInv
<1>5. kardex'[<<i, w>>] = kardex[<<i, w>>] - left + came
  OBVIOUS
<1>6. overdrawn \subseteq overdrawn' /\ r.again \X {r.from} \subseteq overdrawn'
  BY DEF Writes
<1>7. CASE i \in r.again /\ w = r.from
  <2>1. held <= Demand(r, i) /\ came <= holds
    BY <1>1, <1>7, StockFallsShort
  <2>2. left = Demand(r, i) /\ <<i, w>> \in overdrawn'
    BY <1>1, <1>6, <1>7 DEF ReadsWell, InTurn
  <2> HIDE DEF left, came
  <2> QED BY <1>3, <1>4, <1>5, <2>1, <2>2
<1>8. CASE ~(i \in r.again /\ w = r.from)
  <2>1. holds = held - left + came
    BY <1>1, <1>8, StockMoves
  <2> HIDE DEF left, came
  <2> QED BY <1>3, <1>4, <1>5, <1>6, <2>1
<1> QED BY <1>7, <1>8

LEMMA LowerType ==
  ASSUME NEW r \in Request, NEW x \in [Places -> Int]
  PROVE  /\ Lower(r, x) \in [Places -> Int]
         /\ \A i \in Items, w \in Warehouses :
              Lower(r, x)[<<i, w>>]
                = IF i = r.item /\ w = r.from THEN x[<<i, w>>] - r.qty ELSE x[<<i, w>>]
BY DEF Lower, Places, Request

LEMMA OutAgrees ==
  ASSUME IInv, IInv', AllReadWell, StockInv, NEW p \in Procs, WriteOut(p)
  PROVE  StockInv'
<1> DEFINE r == req[p]
<1>1. r \in Request /\ Writes(r, {}) /\ r.stage = "write" /\ r.kind = "adjust"
  BY OutWrites DEF IInv, LayersType, WriteOut, At
<1>2. kardex' = Lower(r, kardex) /\ kardex \in [Places -> Int]
  BY DEF WriteOut, StockInv
<1>3. kardex' \in [Places -> Int]
  BY <1>1, <1>2, LowerType
<1>4. ASSUME NEW i \in Items, NEW w \in Warehouses
      PROVE  kardex'[<<i, w>>]
               = kardex[<<i, w>>]
                 - (IF w = r.from /\ i \in Consumed(r) THEN Demand(r, i) ELSE 0)
                 + Total(HeldIn(layer', i, w), {})
  <2>1. Total(HeldIn(layer', i, w), {}) = 0
    BY SumEmpty DEF Total
  <2>2. (i \in Consumed(r) <=> i = r.item) /\ Demand(r, i) = r.qty /\ r.qty \in Nat
    BY <1>1 DEF Consumed, Demand, Request
  <2>3. kardex[<<i, w>>] \in Int
    BY <1>2 DEF Places
  <2>4. kardex'[<<i, w>>]
          = IF i = r.item /\ w = r.from THEN kardex[<<i, w>>] - r.qty ELSE kardex[<<i, w>>]
    BY <1>1, <1>2, LowerType
  <2> QED BY <2>1, <2>2, <2>3, <2>4
<1> QED BY <1>1, <1>3, <1>4, CommitAgrees

LEMMA TransferAgrees ==
  ASSUME IInv, IInv', AllReadWell, StockInv, NEW p \in Procs, WriteTransfer(p)
  PROVE  StockInv'
<1> DEFINE r == req[p]
<1>1. /\ r \in Request /\ Remembers(r) /\ ReadsWell(layer, r) /\ r.stage = "write"
      /\ r.kind = "transfer" /\ r.item \in Items /\ r.from \in Warehouses /\ r.to \in Warehouses
      /\ r.qty \in Nat
  BY DEF IInv, LayersType, AllReadWell, WriteTransfer, At, Request
<1>2. PICK new, source : Writes(r, new) /\ Mirrors(p, new, source) /\ r.again = {}
  BY TransferWrites
<1>3. /\ kardex' = [Lower(r, kardex) EXCEPT ![<<r.item, r.to>>] = @ + r.qty]
      /\ kardex \in [Places -> Int]
  BY DEF WriteTransfer, StockInv
<1>4. Lower(r, kardex) \in [Places -> Int]
  BY <1>1, <1>3, LowerType
<1>5. kardex' \in [Places -> Int]
  BY <1>1, <1>3, <1>4 DEF Places
<1>6. ASSUME NEW i \in Items, NEW w \in Warehouses
      PROVE  kardex'[<<i, w>>]
               = kardex[<<i, w>>]
                 - (IF w = r.from /\ i \in Consumed(r) THEN Demand(r, i) ELSE 0)
                 + Total(HeldIn(layer', i, w), new)
  <2> DEFINE g == [l \in LayerIds |->
                     IF layer[l].item = r.item /\ i = r.item /\ w = r.to THEN r.take[l] ELSE 0]
             e == HeldIn(layer', i, w)
  <2>1. \A l \in LayerIds : /\ r.take[l] \in Nat
                            /\ r.take[l] > 0 /\ layer[l].item = r.item => l \in TakenOf(r, r.item)
    BY <1>1 DEF Request, Remembers, TakesWhatItSaw, TakenOf, LayersOf
  <2>2. \A l \in LayerIds \ TakenOf(r, r.item) : g[l] = 0
    BY <2>1
  <2>3. \A l \in new : g[source[l]] \in Int /\ e[l] = g[source[l]]
    <3>1. \A l \in new : /\ l \in LayerIds /\ source[l] \in LayerIds
                         /\ layer[source[l]].item = r.item
                         /\ layer'[l] = MirrorLayer(r, source[l])
      BY <1>2 DEF Mirrors, TakenOf, LayersOf
    <3>2. ASSUME NEW l \in new PROVE g[source[l]] \in Int /\ e[l] = g[source[l]]
      <4>1. PICK k \in LayerIds : k = source[l] /\ layer[k].item = r.item
        BY <3>1
      <4>2. layer'[l].item = r.item /\ layer'[l].wh = r.to /\ layer'[l].left = r.take[k]
        <5>1. layer'[l] = MirrorLayer(r, k)
          BY <3>1, <4>1
        <5>2. /\ MirrorLayer(r, k).item = r.item /\ MirrorLayer(r, k).wh = r.to
              /\ MirrorLayer(r, k).left = r.take[k]
          BY DEF MirrorLayer
        <5> QED BY <5>1, <5>2
      <4>3. e[l] = IF r.item = i /\ r.to = w THEN r.take[k] ELSE 0
        BY <3>1, <4>2 DEF HeldIn
      <4>4. g[k] = IF r.item = i /\ r.to = w THEN r.take[k] ELSE 0
        BY <4>1
      <4> QED BY <2>1, <4>1, <4>3, <4>4
    <3> QED BY <3>2
  <2>4. Total(g, LayerIds) = IF i = r.item /\ w = r.to THEN r.qty ELSE 0
    <3>1. CASE i = r.item /\ w = r.to
      <4>1. \A l \in LayerIds : g[l] = GaveBy(layer, r, r.item)[l]
        BY <3>1 DEF GaveBy
      <4>2. Total(g, LayerIds) = Gave(layer, r, r.item)
        BY <4>1, LayerIdsFinite, SumAgree DEF Gave, Total
      <4>3. Gave(layer, r, r.item) = Demand(r, r.item)
        BY <1>1, <1>2 DEF ReadsWell, InTurn, TakesEnough, Consumed
      <4> QED BY <1>1, <3>1, <4>2, <4>3 DEF Demand
    <3>2. CASE ~(i = r.item /\ w = r.to)
      <4>1. \A l \in LayerIds : g[l] = 0
        BY <3>2
      <4>2. Total(g, LayerIds) = 0
        BY <4>1, LayerIdsFinite, SumZero DEF Total
      <4> QED BY <3>2, <4>2
    <3> QED BY <3>1, <3>2
  <2> HIDE DEF g, e
  <2>5. Total(e, new) = Total(g, LayerIds)
    BY <1>2, <2>2, <2>3, MirrorsCount
  <2>6. (i \in Consumed(r) <=> i = r.item) /\ Demand(r, i) = r.qty
    BY <1>1 DEF Consumed, Demand
  <2>7. kardex[<<i, w>>] \in Int /\ Lower(r, kardex)[<<i, w>>] \in Int
    BY <1>3, <1>4 DEF Places
  <2>8. Lower(r, kardex)[<<i, w>>]
          = IF i = r.item /\ w = r.from THEN kardex[<<i, w>>] - r.qty ELSE kardex[<<i, w>>]
    BY <1>1, <1>3, LowerType
  <2>9. kardex'[<<i, w>>]
          = Lower(r, kardex)[<<i, w>>] + (IF i = r.item /\ w = r.to THEN r.qty ELSE 0)
    BY <1>1, <1>3, <1>4, <2>7 DEF Places
  <2> QED BY <1>1, <2>4, <2>5, <2>6, <2>7, <2>8, <2>9 DEF e
<1> QED BY <1>1, <1>2, <1>5, <1>6, CommitAgrees

LEMMA ProduceAgrees ==
  ASSUME IInv, IInv', AllReadWell, StockInv, NEW p \in Procs, WriteProduce(p)
  PROVE  StockInv'
<1> DEFINE r == req[p]
<1>1. /\ r \in Request /\ r.stage = "write" /\ r.kind = "produce"
      /\ r.item \in Items /\ r.from \in Warehouses /\ r.qty \in Nat
  BY DEF IInv, LayersType, WriteProduce, At, Request
<1>2. PICK new \in LayerIds : Writes(r, {new}) /\ layer'[new] = MadeOf(r)
  BY ProduceWrites
<1>3. /\ kardex' = [x \in Places |->
           IF x[2] # r.from THEN kardex[x]
           ELSE kardex[x] - Demand(r, x[1]) + IF x[1] = r.item THEN r.qty ELSE 0]
      /\ kardex \in [Places -> Int]
  BY DEF WriteProduce, StockInv
<1>4. \A i \in Items : Demand(r, i) \in Nat /\ (i \notin Consumed(r) => Demand(r, i) = 0)
  <2> SUFFICES ASSUME NEW i \in Items
               PROVE  Demand(r, i) \in Nat /\ (i \notin Consumed(r) => Demand(r, i) = 0)
    OBVIOUS
  <2>1. PICK n \in Nat : n = Recipe[r.item][i]
    BY <1>1, RecipeType
  <2>2. i \notin Consumed(r) => n = 0
    BY <1>1, <2>1 DEF Consumed, Leaves
  <2> QED BY <1>1, <2>1, <2>2, DemandType DEF Demand
<1>5. kardex' \in [Places -> Int]
  <2>1. \A x \in Places : x[1] \in Items
    BY DEF Places
  <2> QED BY <1>1, <1>3, <1>4, <2>1
<1>6. ASSUME NEW i \in Items, NEW w \in Warehouses
      PROVE  kardex'[<<i, w>>]
               = kardex[<<i, w>>]
                 - (IF w = r.from /\ i \in Consumed(r) THEN Demand(r, i) ELSE 0)
                 + Total(HeldIn(layer', i, w), {new})
  <2> DEFINE e == HeldIn(layer', i, w)
  <2>1. e[new] = IF i = r.item /\ w = r.from THEN r.qty ELSE 0
    BY <1>1, <1>2 DEF HeldIn, MadeOf
  <2>2. e[new] \in Int
    BY <1>1, <2>1
  <2> HIDE DEF e
  <2>3. Total(e, {new}) = e[new]
    <3>1. Total(e, {} \union {new}) = e[new] + Total(e, {})
      BY <2>2, FS_EmptySet, SumAdd DEF Total
    <3>2. Total(e, {}) = 0 /\ {} \union {new} = {new}
      BY SumEmpty DEF Total
    <3> QED BY <2>2, <3>1, <3>2
  <2>4. kardex[<<i, w>>] \in Int
    BY <1>3 DEF Places
  <2>5. kardex'[<<i, w>>]
          = IF w # r.from THEN kardex[<<i, w>>]
            ELSE kardex[<<i, w>>] - Demand(r, i) + IF i = r.item THEN r.qty ELSE 0
    BY <1>3 DEF Places
  <2> QED BY <1>1, <1>4, <2>1, <2>3, <2>4, <2>5 DEF e
<1> QED BY <1>1, <1>2, <1>5, <1>6, CommitAgrees

LEMMA AdjustInAgrees ==
  ASSUME IInv, IInv', StockInv, NEW p \in Procs, AdjustIn(p)
  PROVE  StockInv'
<1>1. PICK k \in LayerIds, in \in Intakes, v \in Warehouses :
        /\ {k} \in NewLayers
        /\ layer' = [layer EXCEPT ![k] =
             [item |-> in.item, wh |-> v, qty |-> in.qty, left |-> in.qty,
              expiry |-> in.expiry, used |-> 0]]
        /\ kardex' = [kardex EXCEPT ![<<in.item, v>>] = @ + in.qty]
  BY DEF AdjustIn
<1>2. /\ in.item \in Items /\ in.qty \in Nat /\ layer[k].item = NoItem /\ NoItem \notin Items
      /\ layer \in [LayerIds -> Layer] /\ layer' \in [LayerIds -> Layer]
      /\ kardex \in [Places -> Int] /\ UNCHANGED <<stale, overdrawn>>
  BY <1>1, ConstantsAssumption
     DEF NewLayers, Created, IInv, LayersType, StockInv, AdjustIn
<1>3. kardex' \in [Places -> Int]
  BY <1>1, <1>2 DEF Places
<1>4. ASSUME NEW i \in Items, NEW w \in Warehouses
      PROVE  kardex'[<<i, w>>] - kardex[<<i, w>>] = Stock(layer', i, w) - Stock(layer, i, w)
  <2> DEFINE f == HeldIn(layer, i, w)
             e == HeldIn(layer', i, w)
             more == IF i = in.item /\ w = v THEN in.qty ELSE 0
  <2>1. layer'[k] = [item |-> in.item, wh |-> v, qty |-> in.qty, left |-> in.qty,
                     expiry |-> in.expiry, used |-> 0]
    BY <1>1, <1>2
  <2>2. /\ \A l \in LayerIds : f[l] \in Int
        /\ e[k] = more /\ f[k] = 0 /\ more \in Int
        /\ \A l \in LayerIds \ {k} : e[l] = f[l]
    BY <1>1, <1>2, <2>1 DEF HeldIn, Layer
  <2> HIDE DEF f, e
  <2>3. Total(e, LayerIds) = Total(f, LayerIds) - f[k] + e[k]
    BY <2>2, LayerIdsFinite, SumDiffer DEF Total
  <2>4. Total(f, LayerIds) \in Int
    BY <2>2, LayerIdsFinite, SumType DEF Total
  <2>5. kardex'[<<i, w>>] = kardex[<<i, w>>] + more /\ kardex[<<i, w>>] \in Int
    BY <1>1, <1>2 DEF Places
  <2> QED BY <2>2, <2>3, <2>4, <2>5 DEF Stock, e, f
<1>5. \A i \in Items, w \in Warehouses :
        /\ StockOf(i, w) = Stock(layer, i, w) /\ StockOf(i, w)' = Stock(layer', i, w)
        /\ Stock(layer, i, w) \in Int /\ Stock(layer', i, w) \in Int
        /\ kardex[<<i, w>>] \in Int /\ kardex'[<<i, w>>] \in Int
        /\ <<i, w>> \in Places
  <2>1. {} \in SUBSET LayerIds
    OBVIOUS
  <2>2. \A i \in Items, w \in Warehouses :
          Stock(layer, i, w) \in Int /\ Stock(layer', i, w) \in Int
    BY <1>2, <2>1, StockType
  <2>3. \A i \in Items, w \in Warehouses :
          StockOf(i, w) = Stock(layer, i, w) /\ StockOf(i, w)' = Stock(layer', i, w)
    BY <1>2, StockIs DEF StockOf, LayersOf
  <2> QED BY <1>2, <1>3, <2>2, <2>3 DEF Places
<1>6. ASSUME stale' = 0, NEW i \in Items, NEW w \in Warehouses
      PROVE  /\ kardex'[<<i, w>>] <= StockOf(i, w)'
             /\ <<i, w>> \notin overdrawn' => kardex'[<<i, w>>] = StockOf(i, w)'
  <2>1. /\ kardex[<<i, w>>] <= StockOf(i, w)
        /\ <<i, w>> \notin overdrawn => kardex[<<i, w>>] = StockOf(i, w)
    BY <1>2, <1>5, <1>6 DEF StockInv, StockAgrees
  <2>2. kardex'[<<i, w>>] - kardex[<<i, w>>] = Stock(layer', i, w) - Stock(layer, i, w)
    BY <1>4
  <2> QED BY <1>2, <1>5, <2>1, <2>2
<1> QED BY <1>3, <1>6 DEF StockInv, StockAgrees, Places

\* Whatever moved it, adjustments, transfers or production, and however the
\* requests interleave, the stock the moves show is the stock that can be
\* taken from the layers, as long as none commits on layers it read stale;
\* where production overdrew the moves show no more than the layers hold.
THEOREM StockAlwaysAgrees == Spec => []StockAgrees
<1>1. Init => StockInv
  <2> SUFFICES ASSUME Init PROVE StockInv
    OBVIOUS
  <2>1. layer \in [LayerIds -> Layer] /\ \A l \in LayerIds : layer[l].item \notin Items
    BY ConstantsAssumption DEF Init, NoLayer, Layer, SomeWarehouse
  <2>2. ASSUME NEW i \in Items, NEW w \in Warehouses PROVE StockOf(i, w) = 0
    <3>1. LayersOf(i, w) = {}
      BY <2>1 DEF LayersOf
    <3>2. StockOf(i, w) = Total([l \in LayersOf(i, w) |-> layer[l].left], {})
      BY <3>1 DEF StockOf
    <3> QED BY <3>2, SumEmpty DEF Total
  <2>3. kardex \in [Places -> Int] /\ \A x \in Places : kardex[x] = 0
    BY DEF Init
  <2>4. \A x \in Places : StockOf(x[1], x[2]) = 0
    BY <2>2 DEF Places
  <2> QED BY <2>3, <2>4 DEF StockInv, StockAgrees
<1>2. IInv /\ IInv' /\ AllReadWell /\ StockInv /\ [Next]_vars => StockInv'
  <2> SUFFICES ASSUME IInv, IInv', AllReadWell, StockInv, [Next]_vars PROVE StockInv'
    OBVIOUS
  <2>1. CASE UNCHANGED <<layer, kardex, stale, overdrawn>>
    BY <2>1 DEF StockInv, StockAgrees, StockOf, LayersOf
  <2>2. ASSUME NEW p \in Procs, Step(p) PROVE StockInv'
    BY <2>1, <2>2, OutAgrees, TransferAgrees, ProduceAgrees, AdjustInAgrees
       DEF Step, StartOut, StartTransfer, StartProduce, ReadLayers, FallShort, ReadAgain, Abort
  <2> QED BY <2>1, <2>2 DEF Next, vars
<1>3. StockInv => StockAgrees
  BY DEF StockInv
<1> QED BY <1>1, <1>2, <1>3, AlwaysReadsWell, PTL DEF Spec

-----------------------------------------------------------------------------
(* The value of the layers and the amounts of the moves. *)

WorthIn(table, costs, i) ==
  [l \in LayerIds |-> IF table[l].item = i THEN table[l].left * costs[l] ELSE 0]
Worth(table, costs, i) == Total(WorthIn(table, costs, i), LayerIds)

LEMMA ProductType == ASSUME NEW a \in Int, NEW b \in Int PROVE a * b \in Int
OBVIOUS

LEMMA WorthType ==
  ASSUME NEW table \in [LayerIds -> Layer], NEW costs \in [LayerIds -> Int], NEW i,
         NEW new \in SUBSET LayerIds
  PROVE  /\ \A l \in LayerIds : WorthIn(table, costs, i)[l] \in Int
         /\ Worth(table, costs, i) \in Int /\ Total(WorthIn(table, costs, i), new) \in Int
<1> DEFINE e == WorthIn(table, costs, i)
<1>1. \A l \in LayerIds : e[l] \in Int
  <2> SUFFICES ASSUME NEW l \in LayerIds PROVE e[l] \in Int
    OBVIOUS
  <2>1. table[l].left * costs[l] \in Int
    <3>1. table[l].left \in Int /\ costs[l] \in Int
      BY DEF Layer
    <3> QED BY <3>1, ProductType
  <2> QED BY <2>1 DEF WorthIn
<1> HIDE DEF e
<1>2. Total(e, LayerIds) \in Int
  BY <1>1, LayerIdsFinite, SumType DEF Total
<1>3. Total(e, new) \in Int
  <2>1. IsFiniteSet(new) /\ \A l \in new : e[l] \in Int
    BY <1>1, LayerIdsFinite, FS_Subset
  <2> QED BY <2>1, SumType DEF Total
<1> QED BY <1>1, <1>2, <1>3 DEF Worth, e

LEMMA ValueIs ==
  ASSUME NEW table \in [LayerIds -> Layer], NEW costs \in [LayerIds -> Int], NEW i,
         NEW S, S = {l \in LayerIds : table[l].item = i}
  PROVE  Total([l \in LayerIds |-> table[l].left * costs[l]], S) = Worth(table, costs, i)
<1> DEFINE f == [l \in LayerIds |-> table[l].left * costs[l]]
           e == WorthIn(table, costs, i)
<1>1. \A l \in LayerIds : e[l] \in Int
  <2>1. {} \in SUBSET LayerIds
    OBVIOUS
  <2> QED BY <2>1, WorthType
<1>2. /\ S \in SUBSET LayerIds
      /\ \A l \in S : f[l] \in Int /\ e[l] = f[l]
      /\ \A l \in LayerIds \ S : e[l] = 0
  <2>1. \A l \in S : l \in LayerIds /\ e[l] = f[l]
    BY DEF WorthIn
  <2>2. \A l \in LayerIds \ S : e[l] = 0
    BY DEF WorthIn
  <2> HIDE DEF e, f
  <2> QED BY <1>1, <2>1, <2>2
<1> HIDE DEF f, e
<1>3. Total(e, LayerIds) = Total(f, S)
  BY <1>2, LayerIdsFinite, SumSubset DEF Total
<1> QED BY <1>3 DEF Worth, f, e

LayersWith(i) == {l \in LayerIds : layer[l].item = i}

\* What a request records as taken of an item costs what CostOf says.
LEMMA TakenWorth ==
  ASSUME LayersType, unitCost \in [LayerIds -> Int], NEW r \in Request, Remembers(r),
         NEW i \in Items
  PROVE  /\ Total(TakenIn(r, LayersWith(i), unitCost), LayerIds)
              = IF i \in Consumed(r) THEN CostOf(r, i) ELSE 0
         /\ CostOf(r, i) \in Int
<1> DEFINE g == TakenIn(r, LayersWith(i), unitCost)
           f == [l \in LayerIds |-> r.take[l] * unitCost[l]]
           T == TakenOf(r, i)
<1>1. \A l \in LayerIds : /\ r.take[l] \in Nat /\ unitCost[l] \in Int
                          /\ r.take[l] > 0 => layer[l].item \in Consumed(r) /\ layer[l].wh = r.from
  BY DEF Request, Remembers, TakesWhatItSaw
<1>2. \A l \in LayerIds : f[l] \in Int /\ (r.take[l] = 0 => f[l] = 0)
  <2> SUFFICES ASSUME NEW l \in LayerIds PROVE f[l] \in Int /\ (r.take[l] = 0 => f[l] = 0)
    OBVIOUS
  <2>1. r.take[l] \in Int /\ unitCost[l] \in Int
    BY <1>1
  <2> QED BY <2>1, ProductType
<1>3. T \in SUBSET LayerIds /\ \A l \in T : layer[l].item = i
  BY DEF TakenOf, LayersOf
<1>4. \A l \in T : g[l] = f[l]
  BY <1>3 DEF TakenIn, LayersWith
<1>5. \A l \in LayerIds \ T : g[l] = 0
  <2> SUFFICES ASSUME NEW l \in LayerIds \ T, layer[l].item = i PROVE g[l] = 0
    BY DEF TakenIn, LayersWith
  <2>1. r.take[l] = 0
    BY <1>1 DEF TakenOf, LayersOf
  <2>2. g[l] = f[l]
    BY DEF TakenIn, LayersWith
  <2> QED BY <1>2, <2>1, <2>2
<1>6. CostOf(r, i) = Total(f, T)
  BY DEF CostOf
<1>7. i \notin Consumed(r) => T = {}
  BY <1>1 DEF TakenOf, LayersOf
<1> HIDE DEF g, f, T
<1>8. \A l \in T : f[l] \in Int /\ g[l] = f[l]
  BY <1>2, <1>3, <1>4
<1>9. Total(g, LayerIds) = Total(f, T)
  BY <1>3, <1>5, <1>8, LayerIdsFinite, SumSubset DEF Total
<1>10. i \notin Consumed(r) => Total(f, T) = 0
  BY <1>7, SumEmpty DEF Total
<1>11. Total(f, T) \in Int
  <2>1. IsFiniteSet(T)
    BY <1>3, LayerIdsFinite, FS_Subset
  <2> QED BY <1>8, <2>1, SumType DEF Total
<1> QED BY <1>6, <1>9, <1>10, <1>11 DEF g

LEMMA WorthMoves ==
  ASSUME IInv, IInv', NEW p \in Procs, NEW new, Writes(req[p], new), stale' = 0,
         unitCost \in [LayerIds -> Int], unitCost' \in [LayerIds -> Int],
         \A l \in LayerIds \ new : unitCost'[l] = unitCost[l],
         NEW i \in Items, i \notin req[p].again
  PROVE  Worth(layer', unitCost', i)
           = Worth(layer, unitCost, i)
             - (IF i \in Consumed(req[p]) THEN CostOf(req[p], i) ELSE 0)
             + Total(WorthIn(layer', unitCost', i), new)
<1> DEFINE r == req[p]
           P == LayersWith(i)
           e == WorthIn(layer', unitCost', i)
<1>1. /\ r \in Request /\ Remembers(r) /\ layer \in [LayerIds -> Layer]
      /\ layer' \in [LayerIds -> Layer] /\ i # NoItem /\ new \in SUBSET LayerIds
  BY ConstantsAssumption DEF IInv, LayersType, Writes
<1>2. \A l \in LayerIds \ new : layer'[l].item = layer[l].item
  BY <1>1, AfterTakingType DEF Writes, IInv
<1>3. P \in SUBSET Created /\ P \intersect r.wiped = {}
  BY <1>1 DEF LayersWith, Created, Remembers, EmptiesWhatFellShort
<1>4. \A l \in LayerIds : e[l] \in Int
  BY <1>1, WorthType
<1>5. \A l \in LayerIds \ new : e[l] = IF l \in P THEN layer'[l].left * unitCost[l] ELSE 0
  BY <1>2 DEF WorthIn, LayersWith
<1>6. \A l \in LayerIds : CountIn(P, unitCost)[l] = WorthIn(layer, unitCost, i)[l]
  BY DEF CountIn, WorthIn, LayersWith
<1>7. Total(TakenIn(r, P, unitCost), LayerIds)
        = IF i \in Consumed(r) THEN CostOf(r, i) ELSE 0
  BY <1>1, TakenWorth DEF IInv
<1> HIDE DEF P, e
<1>8. Total(e, LayerIds) = Total(CountIn(P, unitCost), LayerIds)
                             - Total(TakenIn(r, P, unitCost), LayerIds) + Total(e, new)
  BY <1>3, <1>4, <1>5, CommitMoves
<1>9. Total(CountIn(P, unitCost), LayerIds) = Worth(layer, unitCost, i)
  BY <1>6, LayerIdsFinite, SumAgree DEF Worth, Total
<1> QED BY <1>7, <1>8, <1>9 DEF e, Worth

ValueInv ==
  /\ unitCost \in [LayerIds -> Int]
  /\ amounts \in [Items -> Int]
  /\ gone \in [Items -> Int]
  /\ AmountsAreValue

\* Two amounts are apart by half of n at most.
Near(a, b, n) == 2 * (a - b) <= n /\ 2 * (b - a) <= n

\* A quotient rounded to the last decimal and multiplied back is half of the
\* divisor away at most.
LEMMA Divides ==
  ASSUME NEW a \in Int, NEW b \in Nat, b > 0
  PROVE  a \div b \in Int /\ b * (a \div b) <= a /\ a < b * (a \div b) + b
OBVIOUS

LEMMA Rounded ==
  ASSUME NEW t \in Int, NEW n \in Nat, n > 0
  PROVE  UnitCostOf(t, n) \in Int /\ Near(n * UnitCostOf(t, n), t, n)
<1> DEFINE u == (2 * t + n) \div (2 * n)
<1>1. /\ u \in Int
      /\ (2 * n) * u <= 2 * t + n
      /\ 2 * t + n < (2 * n) * u + 2 * n
  BY Divides
<1>2. UnitCostOf(t, n) = u
  BY DEF UnitCostOf
<1> HIDE DEF u
<1>3. PICK m \in Int : m = n * u
  BY <1>1, ProductType
<1>4. (2 * n) * u = 2 * m
  BY <1>1, <1>3
<1> QED BY <1>1, <1>2, <1>3, <1>4 DEF Near

LEMMA UnitCostType ==
  ASSUME NEW t \in Int, NEW n \in Nat
  PROVE  UnitCostOf(t, n) \in Int
<1>1. n = 0 => UnitCostOf(t, n) = 0
  BY DEF UnitCostOf
<1> QED BY <1>1, Rounded

\* A commit whose moves are valued near the cost of what its layers lose and gain
\* keeps the amounts near the value of the layers.
LEMMA LayerIdsWhole == {} \in SUBSET LayerIds
OBVIOUS

LEMMA CommitValues ==
  ASSUME IInv, IInv', ValueInv, NEW p \in Procs, NEW new, Writes(req[p], new),
         unitCost' \in [LayerIds -> Int], amounts' \in [Items -> Int],
         gone' \in [Items -> Int],
         \A l \in LayerIds \ new : unitCost'[l] = unitCost[l],
         \A i \in Items :
           stale' = 0 /\ i \notin req[p].again =>
           Near(amounts'[i],
                amounts[i] - (IF i \in Consumed(req[p]) THEN CostOf(req[p], i) ELSE 0)
                           + Total(WorthIn(layer', unitCost', i), new),
                gone'[i] - gone[i])
  PROVE  ValueInv'
<1> SUFFICES ASSUME stale' = 0, NEW i \in Items,
                    ({i} \X Warehouses) \intersect overdrawn' = {}
             PROVE  Near(amounts'[i], Worth(layer', unitCost', i), gone'[i])
  <2>1. layer' \in [LayerIds -> Layer] /\ NoItem \notin Items
    BY ConstantsAssumption DEF IInv, LayersType
  <2>2. \A i \in Items : {l \in LayerIds : layer'[l].item # NoItem /\ layer'[l].item = i}
                           = {l \in LayerIds : layer'[l].item = i}
    BY <2>1
  <2>3. ASSUME NEW i \in Items PROVE ValueOf(i)' = Worth(layer', unitCost', i)
    <3>1. PICK S : /\ S = {l \in LayerIds : layer'[l].item # NoItem /\ layer'[l].item = i}
                   /\ S = {l \in LayerIds : layer'[l].item = i}
      BY <2>2
    <3>2. {l \in Created' : layer'[l].item = i} = S
      BY <3>1 DEF Created
    <3>3. Total([l \in LayerIds |-> layer'[l].left * unitCost'[l]], S)
            = Worth(layer', unitCost', i)
      BY <2>1, <3>1, ValueIs
    <3> QED BY <3>2, <3>3 DEF ValueOf
  <2>4. ASSUME NEW i \in Items, stale' = 0, ({i} \X Warehouses) \intersect overdrawn' = {}
        PROVE  LET apart == amounts'[i] - ValueOf(i)'
               IN  2 * apart <= gone'[i] /\ 2 * (0 - apart) <= gone'[i]
    <3>1. Near(amounts'[i], Worth(layer', unitCost', i), gone'[i])
      BY <2>4
    <3>2. /\ ValueOf(i)' = Worth(layer', unitCost', i) /\ amounts'[i] \in Int
          /\ Worth(layer', unitCost', i) \in Int /\ gone'[i] \in Int
      BY <2>1, <2>3, LayerIdsWhole, WorthType
    <3> QED BY <3>1, <3>2 DEF Near
  <2> QED BY <2>4 DEF ValueInv, AmountsAreValue
<1> DEFINE r == req[p]
<1>1. /\ layer \in [LayerIds -> Layer] /\ layer' \in [LayerIds -> Layer]
      /\ unitCost \in [LayerIds -> Int] /\ r \in Request /\ Remembers(r) /\ NoItem \notin Items
      /\ r.from \in Warehouses /\ new \in SUBSET LayerIds
  BY ConstantsAssumption DEF IInv, LayersType, ValueInv, Request, Writes
<1>2. i \notin r.again /\ ({i} \X Warehouses) \intersect overdrawn = {}
  <2>1. overdrawn \subseteq overdrawn' /\ r.again \X {r.from} \subseteq overdrawn'
    BY DEF Writes
  <2>2. <<i, r.from>> \in {i} \X Warehouses
    BY <1>1
  <2>3. i \in r.again => <<i, r.from>> \in r.again \X {r.from}
    OBVIOUS
  <2>4. <<i, r.from>> \notin overdrawn'
    BY <2>2
  <2> QED BY <2>1, <2>3, <2>4
<1>3. Near(amounts[i], Worth(layer, unitCost, i), gone[i])
  <2>1. stale = 0
    BY FreshCommit DEF Writes
  <2>2. LET apart == amounts[i] - ValueOf(i)
        IN  2 * apart <= gone[i] /\ 2 * (0 - apart) <= gone[i]
    BY <1>2, <2>1 DEF ValueInv, AmountsAreValue
  <2>3. PICK S : S = {l \in LayerIds : layer[l].item = i}
    OBVIOUS
  <2>4. {l \in Created : layer[l].item = i} = S
    BY <1>1, <2>3 DEF Created
  <2>5. Total([l \in LayerIds |-> layer[l].left * unitCost[l]], S) = Worth(layer, unitCost, i)
    BY <1>1, <2>3, ValueIs
  <2>6. ValueOf(i) = Worth(layer, unitCost, i)
    BY <2>4, <2>5 DEF ValueOf
  <2>7. amounts[i] \in Int /\ gone[i] \in Int /\ Worth(layer, unitCost, i) \in Int
    BY <1>1, LayerIdsWhole, WorthType DEF ValueInv
  <2> QED BY <2>2, <2>6, <2>7 DEF Near
<1> DEFINE paid == IF i \in Consumed(r) THEN CostOf(r, i) ELSE 0
           made == Total(WorthIn(layer', unitCost', i), new)
<1>4. Near(amounts'[i], amounts[i] - paid + made, gone'[i] - gone[i])
  BY <1>2
<1>5. Worth(layer', unitCost', i)
        = Worth(layer, unitCost, i) - paid + made
  BY <1>1, <1>2, WorthMoves
<1>6. /\ paid \in Int /\ made \in Int
      /\ Worth(layer, unitCost, i) \in Int /\ Worth(layer', unitCost', i) \in Int
      /\ amounts[i] \in Int /\ amounts'[i] \in Int /\ gone[i] \in Int /\ gone'[i] \in Int
  <2>1. paid \in Int
    BY <1>1, TakenWorth DEF IInv
  <2>2. made \in Int /\ Worth(layer', unitCost', i) \in Int
    BY <1>1, WorthType
  <2>3. Worth(layer, unitCost, i) \in Int
    BY <1>1, WorthType
  <2> QED BY <2>1, <2>2, <2>3 DEF ValueInv
<1> HIDE DEF paid, made
<1> QED BY <1>3, <1>4, <1>5, <1>6 DEF Near

LEMMA OutValues ==
  ASSUME IInv, IInv', AllReadWell, ValueInv, NEW p \in Procs, WriteOut(p)
  PROVE  ValueInv'
<1> DEFINE r == req[p]
           price == UnitCostOf(CostOf(r, r.item), r.qty)
<1>1. /\ r \in Request /\ Remembers(r) /\ Writes(r, {}) /\ r.kind = "adjust"
      /\ LayersType /\ unitCost \in [LayerIds -> Int] /\ amounts \in [Items -> Int]
      /\ gone \in [Items -> Int] /\ r.item \in Items /\ r.qty \in Nat /\ r.qty > 0
      /\ amounts' = [amounts EXCEPT ![r.item] = @ - r.qty * price]
      /\ gone' = [gone EXCEPT ![r.item] = @ + r.qty]
      /\ unitCost' = unitCost
  <2>1. /\ r \in Request /\ Remembers(r) /\ LayersType /\ Writes(r, {})
        /\ unitCost \in [LayerIds -> Int] /\ amounts \in [Items -> Int]
        /\ gone \in [Items -> Int]
    BY OutWrites DEF IInv, LayersType, ValueInv
  <2>2. /\ r.kind = "adjust" /\ r.stage = "write" /\ unitCost' = unitCost
        /\ amounts' = [amounts EXCEPT ![r.item] = @ - r.qty * price]
        /\ gone' = [gone EXCEPT ![r.item] = @ + r.qty]
    BY DEF WriteOut, At
  <2>3. r.item \in Items /\ r.qty \in Nat
    BY <2>1 DEF Request
  <2>4. r.qty > 0
    BY <2>2 DEF AllReadWell, ReadsWell, InTurn
  <2> QED BY <2>1, <2>2, <2>3, <2>4
<1>2. \A i \in Items : CostOf(r, i) \in Int
  BY <1>1, TakenWorth
<1>3. price \in Int /\ Near(r.qty * price, CostOf(r, r.item), r.qty)
  BY <1>1, <1>2, Rounded
<1> HIDE DEF price
<1>4. PICK paid \in Int : paid = r.qty * price
  BY <1>1, <1>3, ProductType
<1>5. /\ amounts' \in [Items -> Int] /\ unitCost' \in [LayerIds -> Int]
      /\ gone' \in [Items -> Int]
  BY <1>1, <1>4
<1>6. \A l \in LayerIds \ {} : unitCost'[l] = unitCost[l]
  BY <1>1
<1>7. ASSUME NEW i \in Items
      PROVE  Near(amounts'[i],
                  amounts[i] - (IF i \in Consumed(r) THEN CostOf(r, i) ELSE 0)
                             + Total(WorthIn(layer', unitCost', i), {}),
                  gone'[i] - gone[i])
  <2>1. Total(WorthIn(layer', unitCost', i), {}) = 0
    BY SumEmpty DEF Total
  <2>2. i \in Consumed(r) <=> i = r.item
    BY <1>1 DEF Consumed
  <2>3. /\ amounts'[i] = IF i = r.item THEN amounts[i] - paid ELSE amounts[i]
        /\ gone'[i] = IF i = r.item THEN gone[i] + r.qty ELSE gone[i]
    BY <1>1, <1>4
  <2>4. amounts[i] \in Int /\ gone[i] \in Int /\ CostOf(r, i) \in Int
    BY <1>1, <1>2
  <2>5. i = r.item => Near(paid, CostOf(r, i), r.qty)
    BY <1>3, <1>4
  <2> QED BY <1>1, <2>1, <2>2, <2>3, <2>4, <2>5 DEF Near
<1> QED BY <1>1, <1>5, <1>6, <1>7, CommitValues

LEMMA TransferValues ==
  ASSUME IInv, IInv', ValueInv, NEW p \in Procs, WriteTransfer(p)
  PROVE  ValueInv'
<1> DEFINE r == req[p]
<1>1. /\ r \in Request /\ Remembers(r) /\ r.kind = "transfer"
      /\ LayersType /\ unitCost \in [LayerIds -> Int] /\ amounts \in [Items -> Int]
      /\ amounts' = amounts /\ gone' = gone /\ gone \in [Items -> Int]
  BY DEF IInv, LayersType, ValueInv, WriteTransfer
<1>2. PICK new, source : Writes(r, new) /\ Mirrors(p, new, source)
  BY TransferWrites
<1>3. /\ new \in SUBSET LayerIds
      /\ \A l \in new : /\ l \in LayerIds /\ source[l] \in LayerIds
                        /\ layer[source[l]].item = r.item
                        /\ layer'[l] = MirrorLayer(r, source[l])
      /\ unitCost' = [l \in LayerIds |-> IF l \in new THEN unitCost[source[l]] ELSE unitCost[l]]
  BY <1>2 DEF Mirrors, TakenOf, LayersOf
<1>4. /\ unitCost' \in [LayerIds -> Int]
      /\ \A l \in LayerIds \ new : unitCost'[l] = unitCost[l]
  BY <1>1, <1>3
<1>5. ASSUME NEW i \in Items
      PROVE  Near(amounts'[i],
                  amounts[i] - (IF i \in Consumed(r) THEN CostOf(r, i) ELSE 0)
                             + Total(WorthIn(layer', unitCost', i), new),
                  gone'[i] - gone[i])
  <2> DEFINE g == TakenIn(r, LayersWith(i), unitCost)
             e == WorthIn(layer', unitCost', i)
  <2>1. \A l \in LayerIds : /\ r.take[l] \in Nat /\ unitCost[l] \in Int
                            /\ r.take[l] > 0 => layer[l].item = r.item /\ layer[l].wh = r.from
    BY <1>1 DEF Request, Remembers, TakesWhatItSaw, Consumed
  <2>2. ASSUME NEW l \in LayerIds \ TakenOf(r, r.item) PROVE g[l] = 0
    <3>1. r.take[l] = 0
      BY <2>1 DEF TakenOf, LayersOf
    <3>2. r.take[l] * unitCost[l] = 0
      BY <2>1, <3>1
    <3> QED BY <3>2 DEF TakenIn
  <2>3. ASSUME NEW l \in new PROVE g[source[l]] \in Int /\ e[l] = g[source[l]]
    <3>1. PICK k \in LayerIds : k = source[l] /\ layer[k].item = r.item
      BY <1>3
    <3>2. layer'[l].item = r.item /\ layer'[l].left = r.take[k] /\ unitCost'[l] = unitCost[k]
      <4>1. layer'[l] = MirrorLayer(r, k) /\ unitCost'[l] = unitCost[k]
        BY <1>3, <3>1
      <4>2. MirrorLayer(r, k).item = r.item /\ MirrorLayer(r, k).left = r.take[k]
        BY DEF MirrorLayer
      <4> QED BY <4>1, <4>2
    <3>3. e[l] = IF r.item = i THEN r.take[k] * unitCost[k] ELSE 0
      BY <1>3, <3>2 DEF WorthIn
    <3>4. g[k] = IF r.item = i THEN r.take[k] * unitCost[k] ELSE 0
      BY <3>1 DEF TakenIn, LayersWith
    <3>5. r.take[k] * unitCost[k] \in Int
      <4>1. r.take[k] \in Int /\ unitCost[k] \in Int
        BY <2>1
      <4> QED BY <4>1, ProductType
    <3> QED BY <3>1, <3>3, <3>4, <3>5
  <2>4. Total(g, LayerIds) = (IF i \in Consumed(r) THEN CostOf(r, i) ELSE 0)
    BY <1>1, TakenWorth
  <2>5. CostOf(r, i) \in Int /\ amounts[i] \in Int
    BY <1>1, TakenWorth
  <2> HIDE DEF g, e
  <2>6. Total(e, new) = Total(g, LayerIds)
    BY <1>2, <2>2, <2>3, MirrorsCount
  <2>7. amounts[i] - (IF i \in Consumed(r) THEN CostOf(r, i) ELSE 0) + Total(e, new) = amounts[i]
    BY <2>4, <2>5, <2>6
  <2> QED BY <1>1, <2>5, <2>7 DEF e, Near
<1> QED BY <1>1, <1>2, <1>4, <1>5, CommitValues

\* A leaf that did not fall short leaves near what the layers taken of it cost.
LEMMA LeafAtCost ==
  ASSUME IInv, unitCost \in [LayerIds -> Int], NEW p \in Procs, ReadsWell(layer, req[p]),
         req[p].stage = "write", req[p].kind = "produce",
         NEW i \in Leaves(req[p].item), i \notin req[p].again
  PROVE  /\ LeafAmount(req[p], i) \in Int
         /\ Near(LeafAmount(req[p], i), CostOf(req[p], i), Demand(req[p], i))
<1> DEFINE r == req[p]
           T == TakenOf(r, i)
           e == GaveBy(layer, r, i)
<1>1. /\ r \in Request /\ Remembers(r) /\ r.todo = {} /\ r.qty > 0 /\ r.qty \in Nat
      /\ i \in Items /\ i \in Consumed(r) /\ Recipe[r.item][i] > 0
  BY DEF IInv, LayersType, ReadsWell, InTurn, Leaves, Consumed, Request
<1>2. Recipe[r.item][i] \in Nat
  BY <1>1, RecipeType DEF Request
<1>3. Demand(r, i) \in Nat /\ Demand(r, i) > 0
  <2>1. ASSUME NEW a \in Nat, NEW b \in Nat, a > 0, b > 0 PROVE a * b \in Nat /\ a * b > 0
    BY <2>1
  <2> QED BY <1>1, <1>2, <2>1 DEF Demand
<1>4. T \in SUBSET LayerIds /\ \A l \in T : layer[l].item = i
  BY DEF TakenOf, LayersOf
<1>5. \A l \in T : r.take[l] \in Int /\ e[l] = r.take[l]
  BY <1>1, <1>4 DEF GaveBy, Request
<1>6. \A l \in LayerIds \ T : e[l] = 0
  <2>1. \A l \in LayerIds : /\ r.take[l] \in Nat /\ (r.take[l] > 0 => layer[l].wh = r.from)
    BY <1>1 DEF Request, Remembers, TakesWhatItSaw
  <2> QED BY <2>1 DEF GaveBy, TakenOf, LayersOf
<1> HIDE DEF T, e
<1>7. Total(e, LayerIds) = Total(r.take, T)
  BY <1>4, <1>5, <1>6, LayerIdsFinite, SumSubset DEF Total
<1>8. Total(r.take, T) = Demand(r, i)
  BY <1>1, <1>7 DEF ReadsWell, TakesEnough, Gave, e
<1>9. CostOf(r, i) \in Int
  BY <1>1, TakenWorth DEF IInv
<1>10. LeafAmount(r, i) = Demand(r, i) * UnitCostOf(CostOf(r, i), Demand(r, i))
  BY <1>8 DEF LeafAmount, T
<1>11. /\ UnitCostOf(CostOf(r, i), Demand(r, i)) \in Int
       /\ Near(LeafAmount(r, i), CostOf(r, i), Demand(r, i))
  BY <1>3, <1>9, <1>10, Rounded
<1> QED BY <1>3, <1>10, <1>11, ProductType

LEMMA ProduceValues ==
  ASSUME IInv, IInv', AllReadWell, ValueInv, NEW p \in Procs, WriteProduce(p)
  PROVE  ValueInv'
<1> DEFINE r == req[p]
           cost == UnitCostOf(Total([i \in Items |-> CostOf(r, i)], Leaves(r.item)), r.qty)
<1>1. /\ r \in Request /\ Remembers(r) /\ r.kind = "produce" /\ r.stage = "write"
      /\ r.item \in Items /\ r.qty \in Nat /\ r.qty > 0 /\ ReadsWell(layer, r)
      /\ LayersType /\ unitCost \in [LayerIds -> Int] /\ amounts \in [Items -> Int]
      /\ gone \in [Items -> Int]
  BY DEF IInv, LayersType, ValueInv, WriteProduce, AllReadWell, At, Request, ReadsWell, InTurn
<1>2. PICK new \in LayerIds :
        /\ Writes(r, {new}) /\ layer'[new] = MadeOf(r)
        /\ unitCost' = [unitCost EXCEPT ![new] = cost]
  BY ProduceWrites
<1>3. /\ amounts' = [i \in Items |->
           amounts[i] + (IF i = r.item THEN r.qty * cost ELSE 0)
                      - (IF i \in Leaves(r.item) THEN LeafAmount(r, i) ELSE 0)]
      /\ gone' = [i \in Items |-> gone[i] + IF i \in Leaves(r.item) THEN Demand(r, i) ELSE 0]
  BY DEF WriteProduce
<1>4. \A i \in Items : CostOf(r, i) \in Int
  BY <1>1, TakenWorth
<1>5. cost \in Int
  <2> DEFINE f == [i \in Items |-> CostOf(r, i)]
  <2>1. \A i \in Leaves(r.item) : f[i] \in Int
    BY <1>4 DEF Leaves
  <2>2. IsFiniteSet(Leaves(r.item))
    BY ConstantsAssumption, FS_Subset DEF Leaves
  <2> HIDE DEF f
  <2>3. Total(f, Leaves(r.item)) \in Int
    BY <2>1, <2>2, SumType DEF Total
  <2>4. UnitCostOf(Total(f, Leaves(r.item)), r.qty) \in Int
    BY <1>1, <2>3, UnitCostType
  <2> QED BY <2>4 DEF f
<1> HIDE DEF cost
<1>6. /\ unitCost' \in [LayerIds -> Int] /\ unitCost'[new] = cost
      /\ \A l \in LayerIds \ {new} : unitCost'[l] = unitCost[l]
  BY <1>1, <1>2, <1>5
<1>7. PICK worth \in Int : worth = r.qty * cost
  BY <1>1, <1>5, ProductType
<1>8. \A i \in Leaves(r.item) : LeafAmount(r, i) \in Int
  <2> SUFFICES ASSUME NEW i \in Leaves(r.item) PROVE LeafAmount(r, i) \in Int
    OBVIOUS
  <2> DEFINE taken == Total(r.take, TakenOf(r, i))
  <2>1. i \in Items /\ Demand(r, i) \in Nat /\ CostOf(r, i) \in Int
    BY <1>1, <1>4, DemandType DEF Leaves
  <2>2. taken \in Nat
    <3>1. TakenOf(r, i) \in SUBSET LayerIds /\ \A l \in TakenOf(r, i) : r.take[l] \in Nat
      BY <1>1 DEF TakenOf, LayersOf, Request
    <3>2. IsFiniteSet(TakenOf(r, i))
      BY <3>1, LayerIdsFinite, FS_Subset
    <3> QED BY <3>1, <3>2, SumNat DEF Total
  <2> HIDE DEF taken
  <2>3. UnitCostOf(CostOf(r, i), taken) \in Int
    BY <2>1, <2>2, UnitCostType
  <2> QED BY <2>1, <2>3, ProductType DEF LeafAmount, taken
<1>9. amounts' \in [Items -> Int]
  BY <1>1, <1>3, <1>7, <1>8
<1>11. gone' \in [Items -> Int]
  <2>1. \A i \in Items : Demand(r, i) \in Int
    BY <1>1, DemandType
  <2> QED BY <1>1, <1>3, <2>1
<1>10. ASSUME NEW i \in Items, i \notin r.again
       PROVE  Near(amounts'[i],
                   amounts[i] - (IF i \in Consumed(r) THEN CostOf(r, i) ELSE 0)
                              + Total(WorthIn(layer', unitCost', i), {new}),
                   gone'[i] - gone[i])
  <2> DEFINE e == WorthIn(layer', unitCost', i)
  <2>1. e[new] = IF i = r.item THEN worth ELSE 0
    BY <1>2, <1>6, <1>7 DEF WorthIn, MadeOf
  <2> HIDE DEF e
  <2>2. Total(e, {new}) = e[new]
    <3>1. Total(e, {} \union {new}) = e[new] + Total(e, {})
      BY <2>1, FS_EmptySet, SumAdd DEF Total
    <3>2. Total(e, {}) = 0 /\ {} \union {new} = {new}
      BY SumEmpty DEF Total
    <3> QED BY <2>1, <3>1, <3>2
  <2>3. Consumed(r) = Leaves(r.item)
    BY <1>1 DEF Consumed
  <2>4. i \in Leaves(r.item) => /\ LeafAmount(r, i) \in Int
                                /\ Near(LeafAmount(r, i), CostOf(r, i), Demand(r, i))
    BY <1>1, <1>10, LeafAtCost
  <2>5. amounts[i] \in Int /\ gone[i] \in Int /\ CostOf(r, i) \in Int /\ Demand(r, i) \in Int
    BY <1>1, <1>4, DemandType
  <2>6. /\ amounts'[i] = amounts[i] + (IF i = r.item THEN worth ELSE 0)
                                 - (IF i \in Leaves(r.item) THEN LeafAmount(r, i) ELSE 0)
        /\ gone'[i] = gone[i] + IF i \in Leaves(r.item) THEN Demand(r, i) ELSE 0
    BY <1>3, <1>7
  <2>7. Total(e, {new}) = (IF i = r.item THEN worth ELSE 0)
    BY <2>1, <2>2
  <2>8. Near(amounts'[i],
             amounts[i] - (IF i \in Leaves(r.item) THEN CostOf(r, i) ELSE 0) + Total(e, {new}),
             gone'[i] - gone[i])
    BY <2>4, <2>5, <2>6, <2>7 DEF Near
  <2> QED BY <2>3, <2>8 DEF e
<1> QED BY <1>2, <1>6, <1>9, <1>10, <1>11, CommitValues

LEMMA AdjustInValues ==
  ASSUME IInv, IInv', ValueInv, NEW p \in Procs, AdjustIn(p)
  PROVE  ValueInv'
<1>1. PICK k \in LayerIds, in \in Intakes, v \in Warehouses :
        /\ {k} \in NewLayers
        /\ layer' = [layer EXCEPT ![k] =
             [item |-> in.item, wh |-> v, qty |-> in.qty, left |-> in.qty,
              expiry |-> in.expiry, used |-> 0]]
        /\ unitCost' = [unitCost EXCEPT ![k] = in.cost]
        /\ amounts' = [amounts EXCEPT ![in.item] = @ + in.qty * in.cost]
  BY DEF AdjustIn
<1>2. /\ in.item \in Items /\ in.qty \in Nat /\ in.cost \in Nat
      /\ layer[k].item = NoItem /\ NoItem \notin Items
      /\ layer \in [LayerIds -> Layer] /\ layer' \in [LayerIds -> Layer]
      /\ unitCost \in [LayerIds -> Int] /\ amounts \in [Items -> Int]
      /\ UNCHANGED <<stale, overdrawn, gone>> /\ gone \in [Items -> Int]
  BY <1>1, ConstantsAssumption
     DEF NewLayers, Created, IInv, LayersType, ValueInv, AdjustIn
<1>3. PICK worth \in Int : worth = in.qty * in.cost
  BY <1>2, ProductType
<1>4. amounts' \in [Items -> Int] /\ unitCost' \in [LayerIds -> Int]
  BY <1>1, <1>2, <1>3
<1>5. ASSUME NEW i \in Items
      PROVE  amounts'[i] - amounts[i] = Worth(layer', unitCost', i) - Worth(layer, unitCost, i)
  <2> DEFINE f == WorthIn(layer, unitCost, i)
             e == WorthIn(layer', unitCost', i)
             more == IF i = in.item THEN worth ELSE 0
  <2>1. {} \in SUBSET LayerIds
    OBVIOUS
  <2>2. \A l \in LayerIds : f[l] \in Int
    BY <1>2, <2>1, WorthType
  <2>3. layer'[k].item = in.item /\ layer'[k].left = in.qty /\ unitCost'[k] = in.cost
    BY <1>1, <1>2
  <2>4. e[k] = more /\ f[k] = 0
    BY <1>2, <1>3, <2>3 DEF WorthIn
  <2>5. \A l \in LayerIds \ {k} : e[l] = f[l]
    BY <1>1, <1>2 DEF WorthIn
  <2>6. e[k] \in Int
    BY <2>4
  <2> HIDE DEF f, e
  <2>7. Total(e, LayerIds) = Total(f, LayerIds) - f[k] + e[k]
    BY <2>2, <2>5, <2>6, LayerIdsFinite, SumDiffer DEF Total
  <2>8. Total(f, LayerIds) \in Int
    BY <2>2, LayerIdsFinite, SumType DEF Total
  <2>9. amounts'[i] = amounts[i] + more /\ amounts[i] \in Int
    BY <1>1, <1>2, <1>3
  <2> QED BY <2>4, <2>7, <2>8, <2>9 DEF Worth, e, f
<1>6. ASSUME stale' = 0, NEW i \in Items, ({i} \X Warehouses) \intersect overdrawn' = {}
      PROVE  LET apart == amounts'[i] - ValueOf(i)'
             IN  2 * apart <= gone'[i] /\ 2 * (0 - apart) <= gone'[i]
  <2>1. LET apart == amounts[i] - ValueOf(i)
        IN  2 * apart <= gone[i] /\ 2 * (0 - apart) <= gone[i]
    BY <1>2, <1>6 DEF ValueInv, AmountsAreValue
  <2>2. ValueOf(i) = Worth(layer, unitCost, i)
    <3>1. PICK S : S = {l \in LayerIds : layer[l].item = i}
      OBVIOUS
    <3>2. {l \in Created : layer[l].item = i} = S
      BY <1>2, <3>1 DEF Created
    <3>3. Total([l \in LayerIds |-> layer[l].left * unitCost[l]], S) = Worth(layer, unitCost, i)
      BY <1>2, <3>1, ValueIs
    <3> QED BY <3>2, <3>3 DEF ValueOf
  <2>3. ValueOf(i)' = Worth(layer', unitCost', i)
    <3>1. PICK S : S = {l \in LayerIds : layer'[l].item = i}
      OBVIOUS
    <3>2. {l \in Created' : layer'[l].item = i} = S
      BY <1>2, <3>1 DEF Created
    <3>3. Total([l \in LayerIds |-> layer'[l].left * unitCost'[l]], S)
            = Worth(layer', unitCost', i)
      BY <1>2, <1>4, <3>1, ValueIs
    <3> QED BY <3>2, <3>3 DEF ValueOf
  <2>4. /\ Worth(layer, unitCost, i) \in Int /\ Worth(layer', unitCost', i) \in Int
        /\ amounts[i] \in Int /\ amounts'[i] \in Int /\ gone[i] \in Int /\ gone'[i] = gone[i]
    <3>1. {} \in SUBSET LayerIds
      OBVIOUS
    <3> QED BY <1>2, <1>4, <3>1, WorthType
  <2>5. amounts'[i] - amounts[i] = Worth(layer', unitCost', i) - Worth(layer, unitCost, i)
    BY <1>5
  <2> QED BY <2>1, <2>2, <2>3, <2>4, <2>5
<1>7. gone' \in [Items -> Int]
  BY <1>2
<1> QED BY <1>4, <1>6, <1>7 DEF ValueInv, AmountsAreValue

\* What postStockMove books, the amounts of the moves of an item (quantity times
\* the unit cost rounded to its column), follows the value of its layers at their
\* own costs, as long as no request commits on layers it read stale and production
\* has not overdrawn the item: the two are never apart by more than half of the
\* last decimal for each unit that adjust or produce took out.
THEOREM AmountsAlwaysValue == Spec => []AmountsAreValue
<1>1. Init => ValueInv
  <2> SUFFICES ASSUME Init PROVE ValueInv
    OBVIOUS
  <2>1. \A l \in LayerIds : layer[l].item = NoItem
    BY DEF Init, NoLayer
  <2>2. ASSUME NEW i \in Items PROVE ValueOf(i) = 0
    <3>1. {l \in Created : layer[l].item = i} = {}
      BY <2>1 DEF Created
    <3>2. ValueOf(i) = Total([l \in LayerIds |-> layer[l].left * unitCost[l]], {})
      BY <3>1 DEF ValueOf
    <3> QED BY <3>2, SumEmpty DEF Total
  <2>3. /\ unitCost \in [LayerIds -> Int] /\ amounts \in [Items -> Int] /\ gone \in [Items -> Int]
        /\ \A i \in Items : amounts[i] = 0 /\ gone[i] = 0
    BY DEF Init
  <2> QED BY <2>2, <2>3 DEF ValueInv, AmountsAreValue
<1>2. IInv /\ IInv' /\ AllReadWell /\ ValueInv /\ [Next]_vars => ValueInv'
  <2> SUFFICES ASSUME IInv, IInv', AllReadWell, ValueInv, [Next]_vars PROVE ValueInv'
    OBVIOUS
  <2>1. CASE UNCHANGED <<layer, unitCost, amounts, stale, overdrawn, gone>>
    BY <2>1 DEF ValueInv, AmountsAreValue, ValueOf, Created
  <2>2. ASSUME NEW p \in Procs, Step(p) PROVE ValueInv'
    BY <2>1, <2>2, OutValues, TransferValues, ProduceValues, AdjustInValues
       DEF Step, StartOut, StartTransfer, StartProduce, ReadLayers, FallShort, ReadAgain, Abort
  <2> QED BY <2>1, <2>2 DEF Next, vars
<1>3. ValueInv => AmountsAreValue
  BY DEF ValueInv
<1> QED BY <1>1, <1>2, <1>3, AlwaysReadsWell, PTL DEF Spec

-----------------------------------------------------------------------------
(* What a transfer keeps. *)

KindIn(table, costs, i, cost, expiry) ==
  [l \in LayerIds |->
     IF table[l].item = i /\ costs[l] = cost /\ table[l].expiry = expiry
     THEN table[l].left ELSE 0]

LEMMA HoldingIs ==
  ASSUME NEW table \in [LayerIds -> Layer], NEW costs, NEW i, NEW cost, NEW expiry
  PROVE  Holding(table, costs, i, cost, expiry)
           = Total(KindIn(table, costs, i, cost, expiry), LayerIds)
<1> DEFINE S == {l \in LayerIds : /\ table[l].item = i /\ costs[l] = cost
                                  /\ table[l].expiry = expiry}
           f == [l \in LayerIds |-> table[l].left]
           e == KindIn(table, costs, i, cost, expiry)
<1>1. /\ S \in SUBSET LayerIds
      /\ \A l \in S : f[l] \in Int /\ e[l] = f[l]
      /\ \A l \in LayerIds \ S : e[l] = 0
  BY DEF KindIn, Layer
<1>2. Holding(table, costs, i, cost, expiry) = Total(f, S)
  BY DEF Holding
<1> HIDE DEF S, f, e
<1>3. Total(e, LayerIds) = Total(f, S)
  BY <1>1, LayerIdsFinite, SumSubset DEF Total
<1> QED BY <1>2, <1>3 DEF e

LEMMA TransferKeepsKind ==
  ASSUME IInv, IInv', NEW p \in Procs, WriteTransfer(p), stale' = 0,
         NEW i, i # NoItem, NEW cost, NEW expiry
  PROVE  Holding(layer', unitCost', i, cost, expiry) = Holding(layer, unitCost, i, cost, expiry)
<1> DEFINE r == req[p]
           P == {l \in LayerIds : /\ layer[l].item = i /\ unitCost[l] = cost
                                  /\ layer[l].expiry = expiry}
           c == [l \in LayerIds |-> 1]
           g == TakenIn(r, P, c)
           e == KindIn(layer', unitCost', i, cost, expiry)
<1>1. /\ r \in Request /\ Remembers(r) /\ r.kind = "transfer"
      /\ layer \in [LayerIds -> Layer] /\ layer' \in [LayerIds -> Layer]
  BY DEF IInv, LayersType, WriteTransfer
<1>2. PICK new, source : Writes(r, new) /\ Mirrors(p, new, source) /\ r.again = {}
  BY TransferWrites
<1>3. /\ new \in SUBSET LayerIds
      /\ \A l \in new : /\ l \in LayerIds /\ source[l] \in LayerIds
                        /\ layer[source[l]].item = r.item
                        /\ layer'[l] = MirrorLayer(r, source[l])
      /\ unitCost' = [l \in LayerIds |-> IF l \in new THEN unitCost[source[l]] ELSE unitCost[l]]
  BY <1>2 DEF Mirrors, TakenOf, LayersOf
<1>4. P \in SUBSET Created /\ P \intersect r.wiped = {}
  BY <1>1, <1>2 DEF Created, Remembers, EmptiesWhatFellShort
<1>5. \A l \in LayerIds : r.take[l] \in Nat /\ layer[l].left \in Nat /\ layer'[l].left \in Nat
  BY <1>1 DEF Request, Layer
<1>6. c \in [LayerIds -> Int] /\ \A l \in LayerIds : e[l] \in Int
  BY <1>5 DEF KindIn
<1>7. ASSUME NEW l \in LayerIds \ new
      PROVE  e[l] = IF l \in P THEN layer'[l].left * c[l] ELSE 0
  <2>1. /\ layer'[l].item = layer[l].item /\ layer'[l].expiry = layer[l].expiry
        /\ unitCost'[l] = unitCost[l]
    BY <1>1, <1>2, <1>3, AfterTakingType, AfterTakingExpiry DEF Writes, IInv
  <2> QED BY <1>5, <2>1 DEF KindIn
<1>8. \A l \in LayerIds : CountIn(P, c)[l] = KindIn(layer, unitCost, i, cost, expiry)[l]
  BY <1>5 DEF CountIn, KindIn
<1>9. ASSUME NEW l \in LayerIds \ TakenOf(r, r.item) PROVE g[l] = 0
  <2>1. r.take[l] = 0
    BY <1>1, <1>5 DEF TakenOf, LayersOf, Remembers, TakesWhatItSaw, Consumed
  <2> QED BY <2>1 DEF TakenIn
<1>10. ASSUME NEW l \in new PROVE g[source[l]] \in Int /\ e[l] = g[source[l]]
  <2>1. PICK k \in LayerIds : k = source[l] /\ layer[k].item = r.item
    BY <1>3
  <2>2. /\ layer'[l].item = layer[k].item /\ layer'[l].left = r.take[k]
        /\ layer'[l].expiry = layer[k].expiry /\ unitCost'[l] = unitCost[k]
    <3>1. layer'[l] = MirrorLayer(r, k) /\ unitCost'[l] = unitCost[k]
      BY <1>3, <2>1
    <3>2. /\ MirrorLayer(r, k).item = r.item /\ MirrorLayer(r, k).left = r.take[k]
          /\ MirrorLayer(r, k).expiry = layer[k].expiry
      BY DEF MirrorLayer
    <3> QED BY <2>1, <3>1, <3>2
  <2>3. e[l] = IF k \in P THEN r.take[k] ELSE 0
    BY <1>3, <2>2 DEF KindIn
  <2>4. g[k] = IF k \in P THEN r.take[k] ELSE 0
    BY <1>5 DEF TakenIn
  <2> QED BY <1>5, <2>1, <2>3, <2>4
<1>11. Holding(layer, unitCost, i, cost, expiry)
         = Total(KindIn(layer, unitCost, i, cost, expiry), LayerIds)
  BY <1>1, HoldingIs
<1>12. Holding(layer', unitCost', i, cost, expiry) = Total(e, LayerIds)
  BY <1>1, HoldingIs
<1>13. \A l \in LayerIds : CountIn(P, c)[l] \in Int /\ g[l] \in Int
  BY <1>5 DEF CountIn, TakenIn
<1> HIDE DEF P, c, e
<1>14. Total(e, LayerIds) = Total(CountIn(P, c), LayerIds) - Total(g, LayerIds) + Total(e, new)
  BY <1>2, <1>4, <1>6, <1>7, CommitMoves
<1>15. Total(CountIn(P, c), LayerIds) \in Int /\ Total(g, LayerIds) \in Int
  <2> HIDE DEF g
  <2> QED BY <1>13, LayerIdsFinite, SumType DEF Total
<1>16. Total(CountIn(P, c), LayerIds)
         = Total(KindIn(layer, unitCost, i, cost, expiry), LayerIds)
  BY <1>8, LayerIdsFinite, SumAgree DEF Total
<1> HIDE DEF g
<1>17. Total(e, new) = Total(g, LayerIds)
  BY <1>2, <1>9, <1>10, MirrorsCount
<1> QED BY <1>11, <1>12, <1>14, <1>16, <1>17, <1>15

\* "preserva capas": a transfer on layers still as they were read leaves how
\* much of an item there is at each cost and expiry date, over all warehouses
\* together, as it was: it splits layers and mixes none.
THEOREM TransfersKeepLayers == Spec => TransferKeepsLayers
<1>1. IInv /\ IInv' /\ [Next]_vars =>
        [\A p \in Procs :
           /\ stale' = 0 /\ WriteTransfer(p)
           => \A l \in LayerIds :
                LET x == layer'[l]  cost == unitCost'[l]
                IN  x.item # NoItem =>
                      Holding(layer', unitCost', x.item, cost, x.expiry)
                        = Holding(layer, unitCost, x.item, cost, x.expiry)]_layer
  BY TransferKeepsKind
<1> QED BY <1>1, Invariance, PTL DEF Spec, TransferKeepsLayers
=============================================================================
