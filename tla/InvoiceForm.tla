---------------------------- MODULE InvoiceForm ----------------------------
(***************************************************************************)
(* The lines of the new-invoice form of the web front end and the stock    *)
(* each of them shows: sales/new-invoice/context/InvoiceFormContext.tsx    *)
(* with the handlers of components/ItemsSection/ItemsSection.tsx.          *)
(*                                                                         *)
(* A handler runs to its first await and goes on when the API answers;     *)
(* answers come in any order.  An answer is applied to the line at an      *)
(* INDEX, and what follows it uses the lines of the render the handler was *)
(* created in (its closure).                                               *)
(*                                                                         *)
(* Abstracted: services, units, prices and taxes; and the numbers.  The    *)
(* stock answered (baseAvailable) is kept as the pair it was asked for; a  *)
(* line's quantity, and the available figure that recomputeAvailability-   *)
(* ForGroup derives from the stock and the other lines' quantities, are    *)
(* left out: they change nothing kept here.                                *)
(***************************************************************************)
EXTENDS Naturals, Sequences, SequencesExt, FiniteSets, FiniteSetsExt

CONSTANTS
  Items,       \* products on sale
  Warehouses,  \* where they are kept
  None,        \* undefined
  Slots,       \* requests the form may have open at once (bound)
  MaxLines     \* lines of the form (bound)

\* A request for the stock of <<item, wh>> for line idx; `rest` are the lines
\* to ask for after it, with their items, and `adds` the default warehouse
\* of a line to add after it.
StockCalls ==
  [idx : 1..MaxLines, item : Items, wh : Warehouses,
   rest : Seq([idx : 1..MaxLines, item : Items]),
   adds : [new : BOOLEAN, wh : Warehouses \cup {None}]]

ASSUME FormAssumption ==
  /\ MaxLines \in Nat \ {0}
  /\ None \notin Items \cup Warehouses \cup StockCalls

VARIABLES
  lines,    \* the lines: item, warehouse, whose stock is shown (of), loading
  default,  \* defaultWarehouseId
  calls,    \* slot -> a request for stock and what follows it, or None
  removed,  \* history: a line has been removed from the form
  astray    \* history: lines an answer may be stale for, see Changed

formVars == <<lines, default, calls, removed, astray>>

Blank(wh) == [item |-> None, wh |-> wh, of |-> None, loading |-> FALSE]

\* effectiveWarehouseId.
Eff(l) == IF l.wh # None THEN l.wh ELSE default

\* updateLine: nothing happens when no line has the index.
UpdateLine(ls, i, line) == [j \in DOMAIN ls |-> IF j = i THEN line ELSE ls[j]]

Forget(l) == [l EXCEPT !.of = None]

Loads(l) == [l EXCEPT !.loading = TRUE]

\* A request asks for line i, now or after the answers to come.
Covers(r, i) == i = r.idx \/ \E k \in DOMAIN r.rest : r.rest[k].idx = i

Covered(i) == \E c \in Slots : calls[c] # None /\ Covers(calls[c], i)

(* astray: the lines whose item, warehouse or index has changed under an   *)
(* open request for them, until the user acts on them with none open.      *)
(* Changed and Refreshed are what an event on line i does to it.           *)
Changed(i) == astray' = IF Covered(i) THEN astray \cup {i} ELSE astray \ {i}

Refreshed(i) == astray' = IF Covered(i) THEN astray ELSE astray \ {i}

---------------------------------------------------------------------------
(* refreshAvailabilityForLine.                                             *)

StockCall(i, item, wh, rest, adds) ==
  [idx |-> i, item |-> item, wh |-> wh, rest |-> rest, adds |-> adds]

\* The first part, up to the await.
Ask(ls, r) ==
  \E c \in Slots :
    /\ calls[c] = None
    /\ calls' = [calls EXCEPT ![c] = r]
    /\ lines' = UpdateLine(ls, r.idx, Loads(ls[r.idx]))

(* Variants of the code that follows, for the mutants.                     *)

\* A request that fails leaves the stock that was shown.
MutCaught(l, r, ok) ==
  [l EXCEPT !.of = IF ok THEN <<r.item, r.wh>> ELSE @, !.loading = FALSE]

\* The flag is cleared with the answer, and not when the request fails.
MutAnswered(l, r, ok) ==
  [l EXCEPT !.of = IF ok THEN <<r.item, r.wh>> ELSE None, !.loading = @ /\ ~ok]

\* The assignment of the answer, or the catch; then finally.
Answered(l, r, ok) ==
  [l EXCEPT !.of = IF ok THEN <<r.item, r.wh>> ELSE None,
            !.loading = FALSE]

\* A request comes back, answered or not, and its caller goes on after the
\* await: to the next line of its loop, or to a new line at the end.
Return(c, ok) ==
  LET r == calls[c] IN
  /\ r # None
  /\ LET done == UpdateLine(lines, r.idx, Answered(lines[r.idx], r, ok))
     IN IF r.rest # <<>>
        THEN LET next == Head(r.rest) IN
             /\ calls' = [calls EXCEPT ![c] =
                            StockCall(next.idx, next.item, r.wh, Tail(r.rest), r.adds)]
             /\ lines' = UpdateLine(done, next.idx, Loads(done[next.idx]))
        ELSE /\ calls' = [calls EXCEPT ![c] = None]
             /\ lines' = IF r.adds.new /\ Len(done) < MaxLines
                         THEN Append(done, Blank(r.adds.wh)) ELSE done
  /\ UNCHANGED <<default, removed, astray>>

---------------------------------------------------------------------------
(* What the user does.                                                     *)

NewLine(yes) == [new |-> yes, wh |-> IF yes THEN default ELSE None]

\* Lines other than i that already sell the item from the warehouse.
Duplicates(i, item, wh) ==
  {j \in DOMAIN lines \ {i} : lines[j].item = item /\ Eff(lines[j]) = wh}

\* The line of a chosen item.
Chosen(l, item, wh) == [Forget(l) EXCEPT !.item = item, !.wh = wh]

\* The item of line i is chosen.  If another line has it, that one takes one
\* more and line i is cleared; otherwise the stock is asked for, and after
\* the last line a new one follows.
SelectItem(i, item) ==
  LET wh   == Eff(lines[i])
      last == i = Len(lines)
      set  == UpdateLine(lines, i, Chosen(lines[i], item, wh))
  IN /\ Changed(i)
     /\ IF Duplicates(i, item, wh) # {}
        THEN /\ lines' = UpdateLine(lines, i,
                           [Blank(wh) EXCEPT !.loading = lines[i].loading])
             /\ UNCHANGED calls
        ELSE IF wh # None
        THEN Ask(set, StockCall(i, item, wh, <<>>, NewLine(last)))
        ELSE /\ lines' = IF last /\ i < MaxLines THEN Append(set, Blank(default)) ELSE set
             /\ UNCHANGED calls
     /\ UNCHANGED <<default, removed>>

\* The warehouse of line i is chosen, or cleared.
SetWarehouse(i, wh) ==
  LET item == lines[i].item
      set  == UpdateLine(lines, i, [Forget(lines[i]) EXCEPT !.wh = wh])
  IN /\ wh # lines[i].wh
     /\ Changed(i)
     /\ IF item # None /\ wh # None
        THEN Ask(set, StockCall(i, item, wh, <<>>, NewLine(FALSE)))
        ELSE lines' = set /\ UNCHANGED calls
     /\ UNCHANGED <<default, removed>>

\* The quantity of line i is left.
BlurQty(i) ==
  LET item == lines[i].item
      wh   == Eff(lines[i])
  IN /\ item # None
     /\ Refreshed(i)
     /\ IF wh # None
        THEN Ask(lines, StockCall(i, item, wh, <<>>, NewLine(FALSE)))
        ELSE /\ lines' = UpdateLine(lines, i, [Forget(lines[i]) EXCEPT !.loading = FALSE])
             /\ UNCHANGED calls
     /\ UNCHANGED <<default, removed>>

AddLine ==
  /\ Len(lines) < MaxLines
  /\ lines' = Append(lines, Blank(default))
  /\ UNCHANGED <<default, calls, removed, astray>>

\* The lines after i take the index before theirs; open requests keep theirs.
RemoveLine(i) ==
  /\ lines' = RemoveAt(lines, i)
  /\ removed' = TRUE
  /\ astray' = {j \in 1..MaxLines :
                  IF j < i THEN j \in astray
                  ELSE j + 1 \in astray \/ \E k \in i..MaxLines : Covered(k)}
  /\ UNCHANGED <<default, calls>>

\* The members of S from the least to the greatest, as a sequence.
Ascending(S) ==
  {order \in [1..Cardinality(S) -> S] :
     /\ \A i \in S : \E k \in DOMAIN order : order[k] = i
     /\ \A j, k \in DOMAIN order : j < k => order[j] < order[k]}

\* The default warehouse is chosen, or cleared.  The lines that have no
\* warehouse take it, and every line with an item asks, one after the other,
\* for the stock of the new default, its own warehouse or not.
SetDefault(w) ==
  LET sold  == {i \in DOMAIN lines : lines[i].item # None}
      taken == [i \in DOMAIN lines |-> [lines[i] EXCEPT !.wh = IF @ = None THEN w ELSE @]]
  IN /\ w # default
     /\ default' = w
     /\ astray' = astray \cup {i \in DOMAIN lines : lines[i].wh = None /\ Covered(i)}
                        \cup {i \in sold : w # None /\ lines[i].wh \notin {None, w}}
     /\ IF w = None
        THEN /\ lines' = [i \in DOMAIN lines |-> [Forget(lines[i]) EXCEPT !.loading = FALSE]]
             /\ UNCHANGED calls
        ELSE IF sold = {} THEN lines' = taken /\ UNCHANGED calls
        ELSE \E order \in Ascending(sold) :
               LET ask == [k \in DOMAIN order |->
                             [idx |-> order[k], item |-> lines[order[k]].item]]
               IN  Ask(taken, StockCall(ask[1].idx, ask[1].item, w, Tail(ask),
                                        NewLine(FALSE)))
     /\ UNCHANGED removed

---------------------------------------------------------------------------
(* When the lists have come, the first warehouse is the default.           *)
FormInit ==
  /\ \E w \in Warehouses : default = w /\ lines = <<Blank(w)>>
  /\ calls = [c \in Slots |-> None]
  /\ removed = FALSE
  /\ astray = {}

Edit(i) ==
  \/ \E item \in Items : SelectItem(i, item)
  \/ \E wh \in Warehouses \cup {None} : SetWarehouse(i, wh)
  \/ BlurQty(i)
  \/ RemoveLine(i)

FormNext ==
  \/ \E i \in DOMAIN lines : Edit(i)
  \/ AddLine
  \/ \E w \in Warehouses \cup {None} : SetDefault(w)
  \/ \E c \in Slots : \E ok \in BOOLEAN : Return(c, ok)

(* A request is answered or fails at last (the network gives up on it if   *)
(* the API does not answer), and the browser's event loop gets to what     *)
(* follows it; nothing is assumed of the user.                             *)
Fairness == \A c \in Slots : WF_formVars(\E ok \in BOOLEAN : Return(c, ok))

FormSpec == FormInit /\ [][FormNext]_formVars /\ Fairness

---------------------------------------------------------------------------
Groups == Items \X Warehouses

Shown == [item : Items \cup {None}, wh : Warehouses \cup {None},
          of : Groups \cup {None}, loading : BOOLEAN]

FormTyped ==
  /\ lines \in Seq(Shown) /\ Len(lines) <= MaxLines
  /\ default \in Warehouses \cup {None}
  /\ calls \in [Slots -> StockCalls \cup {None}]
  /\ removed \in BOOLEAN /\ astray \subseteq 1..MaxLines

(* The stock a line shows is that of its own item and of the warehouse it  *)
(* sells from, once no request for it is open, whatever requests for other *)
(* lines, or repeated for it, are open and in whatever order they are      *)
(* answered.  The code shows another's where astray says so: the item or   *)
(* the warehouse of the line was changed, or a line up to it removed,      *)
(* under an open request; or the default was, which asks for the default's *)
(* stock even on a line that sells from another warehouse.                 *)
OwnStock ==
  \A i \in DOMAIN lines \ astray :
    ~Covered(i) /\ lines[i].of # None =>
      lines[i].of = <<lines[i].item, Eff(lines[i])>>

Loading(i) == i \in DOMAIN lines /\ lines[i].loading

(* A line that shows "..." stops doing so, whatever the user does and      *)
(* whether the request is answered or fails, unless a line is removed:     *)
(* finally clears the flag at the index the request was made for.          *)
StopsLoading ==
  \A i \in 1..MaxLines : (Loading(i) /\ ~removed) ~> (removed \/ ~Loading(i))

=============================================================================
