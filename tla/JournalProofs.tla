--------------------------- MODULE JournalProofs ---------------------------
(***************************************************************************)
(* Theorems about Journal, for any number of requests, entries, periods    *)
(* and journals, and their proofs.                                         *)
(***************************************************************************)
EXTENDS Books, SumTheorems, TLAPS

USE ConstantsAssumption

LEMMA SomeConstants ==
  /\ SomeDate \in Dates
  /\ SomeJournal \in Journals
  /\ MonthOf[SomeDate] \in Periods
BY DEF SomeDate, SomeJournal

\* The values a row or a request starts from are well typed.
LEMMA IdleTyped == Idle \in Request /\ FreeRow \in Row /\ DeletedRow \in Row
BY SomeConstants DEF Idle, Request, FreeRow, DeletedRow, Row, Stages

LEMMA MirrorTyped == ASSUME NEW ls \in SUBSET Line PROVE Mirror(ls) \in SUBSET Line
BY DEF Mirror, Line

\* _REV sources: one step up the chain, and no two bases share one.
LEMMA ReversalTyped ==
  ASSUME NEW src \in Source, src.rev < MaxRev PROVE Reversal(src) \in Source
BY DEF Source, Reversal

LEMMA ReversalInjective ==
  ASSUME NEW s \in Source, NEW t \in Source, Reversal(s) = Reversal(t) PROVE s = t
BY DEF Source, Reversal

-----------------------------------------------------------------------------
(* Type correctness. *)

LEMMA TypeInit == Init => TypeOK
BY IdleTyped DEF Init, TypeOK, AbsentPeriod, PeriodRow

LEMMA PeriodStep ==
  ASSUME TypeOK, NEW m \in Periods, GetOrCreatePeriod(m)
  PROVE  period' \in [Periods -> PeriodRow]
BY DEF TypeOK, GetOrCreatePeriod, AbsentPeriod, PeriodRow

LEMMA NumberStep ==
  ASSUME TypeOK, NEW m \in Periods, NEW j \in Journals, AllocateNumber(m, j)
  PROVE  /\ seq' \in [Periods \X Journals -> Nat]
         /\ NextNumber(m, j) \in Nat \ {0}
BY DEF TypeOK, AllocateNumber, NextNumber

LEMMA CreateTyped ==
  ASSUME TypeOK, NEW p \in Procs, PostDocument(p) \/ CreateDraft(p)
  PROVE  TypeOK'
<1>1. \A src \in Source, d \in Dates, j \in Journals, st \in {"DRAFT", "POSTED"} :
        StartCreate(p, src, d, j, st) => TypeOK'
  <2> SUFFICES ASSUME NEW src \in Source, NEW d \in Dates, NEW j \in Journals,
                      NEW st \in {"DRAFT", "POSTED"}, StartCreate(p, src, d, j, st)
               PROVE  TypeOK'
    OBVIOUS
  <2>1. [Idle EXCEPT !.stage = "insert", !.src = src, !.date = d, !.journal = j,
                     !.status = st] \in Request
    BY IdleTyped DEF Request, Stages
  <2> QED BY <2>1 DEF StartCreate, TypeOK
<1>2. \A doc \in Docs : [doc |-> doc, rev |-> 0] \in Source
  BY DEF Source
<1> QED BY <1>1, <1>2 DEF PostDocument, CreateDraft, Docs

LEMMA InsertTyped ==
  ASSUME TypeOK, NEW p \in Procs, InsertPosted(p) \/ InsertDraft(p)
  PROVE  TypeOK'
<1> DEFINE r == req[p]
           m == MonthOf[r.date]
<1>1. /\ r \in Request /\ m \in Periods /\ r.journal \in Journals /\ r.date \in Dates
      /\ r.src \in Source \union {NoSource}
  BY DEF TypeOK, Request
<1>2. \A b \in FreshBatches : {[batch |-> b, sign |-> 1]} \in SUBSET Line
  BY DEF FreshBatches, Line
<1>3. CASE InsertPosted(p)
  <2>1. seq' \in [Periods \X Journals -> Nat] /\ NextNumber(m, r.journal) \in Nat
    BY <1>1, <1>3, NumberStep DEF InsertPosted
  <2>2. period' \in [Periods -> PeriodRow]
    BY <1>1, <1>3, PeriodStep DEF InsertPosted
  <2>3. row' \in [EntryIds -> Row]
    BY <1>1, <1>2, <1>3, <2>1 DEF InsertPosted, TypeOK, Row
  <2> QED BY <1>3, <2>1, <2>2, <2>3, IdleTyped DEF InsertPosted, TypeOK, Finish
<1>4. CASE InsertDraft(p)
  <2>1. period' \in [Periods -> PeriodRow]
    BY <1>1, <1>4, PeriodStep DEF InsertDraft
  <2>2. row' \in [EntryIds -> Row]
    BY <1>1, <1>2, <1>4 DEF InsertDraft, TypeOK, Row
  <2> QED BY <1>4, <2>1, <2>2, IdleTyped DEF InsertDraft, TypeOK, Finish
<1> QED BY <1>3, <1>4

LEMMA PostTyped ==
  ASSUME TypeOK, NEW p \in Procs, ReadForPost(p) \/ CheckPost(p) \/ WritePost(p)
  PROVE  TypeOK'
<1>1. CASE ReadForPost(p)
  <2>1. \A id \in EntryIds :
          [Idle EXCEPT !.stage = "post", !.id = id, !.date = row[id].date,
                       !.journal = row[id].journal] \in Request
    BY IdleTyped DEF TypeOK, Row, Request, Stages
  <2> QED BY <1>1, <2>1, ZenonT(60) DEF ReadForPost, TypeOK, Live
<1>2. CASE CheckPost(p)
  <2>1. [req[p] EXCEPT !.stage = "postWrite"] \in Request
    BY DEF TypeOK, Request, Stages
  <2> QED BY <1>2, <2>1 DEF CheckPost, TypeOK
<1>3. CASE WritePost(p)
  <2> DEFINE r == req[p]
             m == MonthOf[r.date]
  <2>1. /\ r \in Request /\ m \in Periods /\ r.journal \in Journals
        /\ r.id \in EntryIds /\ row[r.id] \in Row
    BY <1>3 DEF TypeOK, Request, WritePost, Live
  <2>2. seq' \in [Periods \X Journals -> Nat] /\ NextNumber(m, r.journal) \in Nat
    BY <2>1, <1>3, NumberStep DEF WritePost
  <2>3. period' \in [Periods -> PeriodRow]
    BY <2>1, <1>3, PeriodStep DEF WritePost
  <2>4. row' \in [EntryIds -> Row]
    BY <2>1, <1>3, <2>2 DEF WritePost, TypeOK, Row
  <2> QED BY <1>3, <2>2, <2>3, <2>4, IdleTyped DEF WritePost, TypeOK, Finish
<1> QED BY <1>1, <1>2, <1>3

LEMMA EditTyped ==
  ASSUME TypeOK, NEW p \in Procs, ReadForEdit(p) \/ CheckEdit(p) \/ WriteEdit(p)
  PROVE  TypeOK'
<1>1. CASE ReadForEdit(p)
  <2>1. PICK id \in Live, d \in Dates, j \in Journals :
          req' = [req EXCEPT ![p] =
            [Idle EXCEPT !.stage = "edit", !.id = id, !.date = d, !.journal = j]]
    BY <1>1 DEF ReadForEdit
  <2>2. [Idle EXCEPT !.stage = "edit", !.id = id, !.date = d, !.journal = j] \in Request
    BY IdleTyped DEF Request, Stages, Live
  <2> QED BY <1>1, <2>1, <2>2 DEF ReadForEdit, TypeOK
<1>2. CASE CheckEdit(p)
  <2>0. req[p] \in Request /\ row[req[p].id].lines \in SUBSET Line
    BY <1>2 DEF CheckEdit, Live, TypeOK, Row
  <2>1. [req[p] EXCEPT !.stage = "editWrite", !.lines = row[req[p].id].lines] \in Request
    BY <2>0 DEF Request, Stages
  <2>2. req' = [req EXCEPT ![p] =
                  [req[p] EXCEPT !.stage = "editWrite", !.lines = row[req[p].id].lines]]
    BY <1>2 DEF CheckEdit, TypeOK
  <2> QED BY <1>2, <2>1, <2>2 DEF CheckEdit, TypeOK
<1>3. CASE WriteEdit(p)
  <2> DEFINE r == req[p]
             m == MonthOf[r.date]
  <2>1. /\ r \in Request /\ m \in Periods /\ r.journal \in Journals /\ r.date \in Dates
        /\ r.id \in EntryIds /\ row[r.id] \in Row
    BY <1>3 DEF TypeOK, Request, WriteEdit, Live
  <2>2. period' \in [Periods -> PeriodRow]
    BY <2>1, <1>3, PeriodStep DEF WriteEdit
  <2>3. \A b \in FreshBatches :
          (row[r.id].lines \ r.lines) \union {[batch |-> b, sign |-> 1]} \in SUBSET Line
    BY <2>1 DEF FreshBatches, Line, Row
  <2>4. row' \in [EntryIds -> Row]
    <3> DEFINE Edited(b) == [row[r.id] EXCEPT !.date = r.date, !.period = m,
                               !.journal = r.journal,
                               !.lines = (row[r.id].lines \ r.lines)
                                           \union {[batch |-> b, sign |-> 1]}]
    <3>1. PICK b \in FreshBatches : row' = [row EXCEPT ![r.id] = Edited(b)]
      BY <1>3, <2>1 DEF WriteEdit, TypeOK
    <3>2. Edited(b) \in Row
      BY <2>1, <2>3 DEF Row
    <3> HIDE DEF Edited
    <3> QED BY <3>1, <3>2 DEF TypeOK
  <2> QED BY <1>3, <2>2, <2>4, IdleTyped DEF WriteEdit, TypeOK, Finish
<1> QED BY <1>1, <1>2, <1>3

LEMMA DeleteAndDraftTyped ==
  ASSUME TypeOK, NEW p \in Procs,
         ReadForDelete(p) \/ WriteDelete(p) \/ ReadForDraft(p) \/ WriteDraft(p)
  PROVE  TypeOK'
<1>1. CASE ReadForDelete(p) \/ ReadForDraft(p)
  <2>1. \A id \in EntryIds, st \in {"delete", "setDraft"} :
          [Idle EXCEPT !.stage = st, !.id = id] \in Request
    BY IdleTyped DEF Request, Stages
  <2> QED BY <1>1, <2>1, ZenonT(60) DEF ReadForDelete, ReadForDraft, TypeOK, Live
<1>2. CASE WriteDelete(p)
  BY <1>2, IdleTyped DEF WriteDelete, TypeOK, Finish
<1>3. CASE WriteDraft(p)
  BY <1>3, IdleTyped DEF WriteDraft, TypeOK, Finish, Row, Live
<1> QED BY <1>1, <1>2, <1>3

LEMMA ReadBaseTyped ==
  ASSUME TypeOK, NEW p \in Procs, NEW id \in EntryIds, NEW j \in Journals,
         NEW todo \in SUBSET EntryIds, ReadBase(p, id, j, todo)
  PROVE  req' \in [Procs -> Request]
<1>1. [Idle EXCEPT !.stage = "reverse", !.id = id, !.src = row[id].src,
                   !.journal = j, !.lines = row[id].lines, !.todo = todo] \in Request
  <2>1. row[id].src \in Source \union {NoSource} /\ row[id].lines \in SUBSET Line
    BY DEF TypeOK, Row
  <2> QED BY <2>1, IdleTyped DEF Request, Stages
<1> QED BY <1>1 DEF ReadBase, TypeOK

LEMMA MassTyped ==
  ASSUME NEW todo \in SUBSET EntryIds
  PROVE  [Idle EXCEPT !.stage = "mass", !.todo = todo] \in Request
BY IdleTyped DEF Request, Stages

LEMMA ReverseTyped ==
  ASSUME TypeOK, NEW p \in Procs,
         \/ ReadForReverse(p) \/ ReadForReverseBySource(p)
         \/ CheckReverse(p) \/ ReadForMass(p) \/ NextOfMass(p)
  PROVE  TypeOK'
<1>1. CASE ReadForReverse(p)
  <2>1. PICK id \in EntryIds : ReadBase(p, id, row[id].journal, {})
    BY <1>1 DEF ReadForReverse, Live
  <2>2. row[id].journal \in Journals
    BY DEF TypeOK, Row
  <2> QED BY <1>1, <2>1, <2>2, ReadBaseTyped DEF ReadForReverse, TypeOK
<1>2. CASE ReadForReverseBySource(p)
  <2>1. PICK id \in EntryIds, doc \in PostDocs : ReadBase(p, id, JournalOf[doc], {})
    BY <1>2 DEF ReadForReverseBySource, Live
  <2> QED BY <1>2, <2>1, ReadBaseTyped DEF ReadForReverseBySource, TypeOK
<1>3. CASE CheckReverse(p)
  <2>0. req[p] \in Request /\ today \in Dates
    BY DEF TypeOK
  <2>1. [req[p] EXCEPT !.stage = "reverseWrite", !.date = today] \in Request
    BY <2>0 DEF Request, Stages
  <2>2. req' = [req EXCEPT ![p] = [req[p] EXCEPT !.stage = "reverseWrite", !.date = today]]
    <3>1. req' = [req EXCEPT ![p].stage = "reverseWrite", ![p].date = today]
      BY <1>3 DEF CheckReverse
    <3> QED BY <3>1 DEF TypeOK
  <2> QED BY <1>3, <2>1, <2>2 DEF CheckReverse, TypeOK
<1>4. CASE ReadForMass(p)
  <2>1. PICK entries \in SUBSET EntryIds :
          req' = [req EXCEPT ![p] = [Idle EXCEPT !.stage = "mass", !.todo = entries]]
    BY <1>4 DEF ReadForMass, Live
  <2> QED BY <1>4, <2>1, MassTyped DEF ReadForMass, TypeOK
<1>5. CASE NextOfMass(p)
  <2>1. PICK id \in req[p].todo \intersect Live :
          IF row[id].reversal = NoId
          THEN ReadBase(p, id, row[id].journal, req[p].todo \ {id})
          ELSE req' = [req EXCEPT ![p] =
                 IF req[p].todo \ {id} = {} THEN Idle
                 ELSE [req[p] EXCEPT !.todo = req[p].todo \ {id}]]
    BY <1>5 DEF NextOfMass
  <2>2. /\ id \in EntryIds /\ row[id].journal \in Journals
        /\ req[p].todo \ {id} \in SUBSET EntryIds
    BY DEF TypeOK, Row, Request, Live
  <2>3. [req[p] EXCEPT !.todo = req[p].todo \ {id}] \in Request
    BY <2>2 DEF TypeOK, Request
  <2>4. req' \in [Procs -> Request]
    <3>1. CASE row[id].reversal = NoId
      BY <3>1, <2>1, <2>2, ReadBaseTyped
    <3>2. CASE row[id].reversal # NoId
      BY <3>2, <2>1, <2>3, IdleTyped DEF TypeOK
    <3> QED BY <3>1, <3>2
  <2> QED BY <1>5, <2>4 DEF NextOfMass, TypeOK
<1> QED BY <1>1, <1>2, <1>3, <1>4, <1>5

LEMMA WriteReverseTyped ==
  ASSUME TypeOK, NEW p \in Procs, WriteReverse(p),
         Reversal(req[p].src) \in Source
  PROVE  TypeOK'
<1> DEFINE r == req[p]
           m == MonthOf[r.date]
           n == NextNumber(m, r.journal)
           New == [status |-> "POSTED", born |-> "POSTED",
                   src |-> Reversal(r.src), date |-> r.date, period |-> m,
                   journal |-> r.journal, number |-> n,
                   reversal |-> NoId, lines |-> Mirror(r.lines)]
           Base(id) == [row[r.id] EXCEPT !.status = "REVERSED", !.reversal = id]
<1>1. /\ r \in Request /\ m \in Periods /\ r.journal \in Journals /\ r.date \in Dates
      /\ r.id \in EntryIds /\ row[r.id] \in Row
      /\ Mirror(r.lines) \in SUBSET Line
  BY MirrorTyped DEF TypeOK, Request, WriteReverse, Live
<1>2. seq' \in [Periods \X Journals -> Nat] /\ n \in Nat
  BY <1>1, NumberStep DEF WriteReverse
<1>3. period' \in [Periods -> PeriodRow]
  BY <1>1, PeriodStep DEF WriteReverse
<1>4. PICK id \in EntryIds : row' = [row EXCEPT ![r.id] = Base(id), ![id] = New]
  BY DEF WriteReverse
<1>5. Base(id) \in Row /\ New \in Row
  BY <1>1, <1>2 DEF Row
<1>6. row' \in [EntryIds -> Row]
  <2> HIDE DEF Base, New
  <2> QED BY <1>4, <1>5 DEF TypeOK
<1>7. req' \in [Procs -> Request]
  BY <1>1, MassTyped, IdleTyped DEF WriteReverse, TypeOK, Request
<1> QED BY <1>2, <1>3, <1>6, <1>7 DEF WriteReverse, TypeOK

LEMMA PeriodTyped ==
  ASSUME TypeOK, NEW p \in Procs,
         CountDrafts(p) \/ WriteClose(p) \/ ReadForLock(p) \/ WriteLock(p)
  PROVE  TypeOK'
<1>1. CASE CountDrafts(p)
  <2>1. PICK m \in Periods, f \in BOOLEAN :
          req' = [req EXCEPT ![p] = [Idle EXCEPT !.stage = "close", !.period = m, !.flag = f]]
    BY <1>1 DEF CountDrafts
  <2>2. [Idle EXCEPT !.stage = "close", !.period = m, !.flag = f] \in Request
    BY IdleTyped DEF Request, Stages
  <2> QED BY <1>1, <2>1, <2>2 DEF CountDrafts, TypeOK
<1>2. CASE WriteClose(p)
  <2>1. period' \in [Periods -> PeriodRow]
    BY <1>2 DEF WriteClose, TypeOK, PeriodRow
  <2> QED BY <1>2, <2>1, IdleTyped DEF WriteClose, TypeOK, Finish
<1>3. CASE ReadForLock(p)
  <2>1. PICK m \in Periods, f \in BOOLEAN :
          req' = [req EXCEPT ![p] = [Idle EXCEPT !.stage = "lock", !.period = m,
                                       !.flag = f, !.closed = period[m].closedAt]]
    BY <1>3 DEF ReadForLock
  <2>2. [Idle EXCEPT !.stage = "lock", !.period = m, !.flag = f,
                     !.closed = period[m].closedAt] \in Request
    <3> DEFINE c == period[m].closedAt
    <3>1. period[m] \in PeriodRow
      BY DEF TypeOK
    <3>2. c \in BOOLEAN
      BY <3>1 DEF PeriodRow
    <3> HIDE DEF c
    <3>3. [Idle EXCEPT !.stage = "lock", !.period = m, !.flag = f, !.closed = c] \in Request
      BY <3>2, IdleTyped DEF Request, Stages
    <3> QED BY <3>3 DEF c
  <2> QED BY <1>3, <2>1, <2>2 DEF ReadForLock, TypeOK
<1>4. CASE WriteLock(p)
  <2> DEFINE r == req[p]
             st == IF r.flag THEN "LOCKED" ELSE IF r.closed THEN "CLOSED" ELSE "OPEN"
  <2>0. period' = [period EXCEPT ![r.period].status = st]
    BY <1>4 DEF WriteLock
  <2>1. period' \in [Periods -> PeriodRow]
    <3>1. st \in {"ABSENT", "OPEN", "CLOSED", "LOCKED"}
      OBVIOUS
    <3> HIDE DEF st
    <3> QED BY <2>0, <3>1, ZenonT(60) DEF TypeOK, PeriodRow
  <2> QED BY <1>4, <2>1, IdleTyped DEF WriteLock, TypeOK, Finish
<1> QED BY <1>1, <1>2, <1>3, <1>4

-----------------------------------------------------------------------------
(* The five ways a step changes the rows.  Each keeps RowInv, and leaves   *)
(* what the requests hold of the rows in place.                            *)

RowsEvolve ==
  \A id \in EntryIds :
    row[id].status # "FREE" =>
      /\ row'[id].status # "FREE"
      /\ row'[id].born = row[id].born
      /\ id \in Live' =>
           /\ id \in Live
           /\ row'[id].src = row[id].src
           /\ row[id].born = "POSTED" => row'[id].lines = row[id].lines

LEMMA KeepRows ==
  ASSUME RowInv, UNCHANGED row
  PROVE  RowInv' /\ RowsEvolve
BY DEF RowInv, RowsEvolve, UniqueSource, UniqueNumber, RowsKeepBirth,
       ReversalsBornPosted, PostedReversalMirrors, Live

LEMMA InsertRow ==
  ASSUME TypeOK, RowInv, NEW id \in EntryIds, row[id].status = "FREE",
         NEW R \in Row, row' = [row EXCEPT ![id] = R],
         R.status = R.born, R.src \in Source, R.reversal = NoId,
         R.born = "POSTED" => R.number # 0,
         R.born = "DRAFT" => R.number = 0 /\ R.src.doc \in DraftDocs,
         SourceIsFree(R.src), NumberIsFree(id, R.period, R.journal, R.number)
  PROVE  RowInv' /\ RowsEvolve
<1>1. /\ R.status \in {"DRAFT", "POSTED"}
      /\ row'[id] = R
      /\ \A i \in EntryIds \ {id} : row'[i] = row[i]
      /\ Live' = Live \union {id}
      /\ id \notin Live
  BY DEF TypeOK, Row, Live
<1>2. UniqueSource'
  BY <1>1 DEF RowInv, UniqueSource, SourceIsFree, HasSource, Live
<1>3. UniqueNumber'
  BY <1>1 DEF RowInv, UniqueNumber, NumberIsFree, Live
<1>4. RowsKeepBirth'
  BY <1>1 DEF RowInv, RowsKeepBirth, Live
<1>5. ReversalsBornPosted'
  BY <1>1 DEF RowInv, ReversalsBornPosted, Live
<1>6. PostedReversalMirrors'
  BY <1>1 DEF RowInv, PostedReversalMirrors, RowsKeepBirth, ReversalsBornPosted, Live
<1>7. RowsEvolve
  BY <1>1 DEF RowsEvolve
<1> QED BY <1>2, <1>3, <1>4, <1>5, <1>6, <1>7 DEF RowInv

LEMMA AmendRow ==
  ASSUME TypeOK, RowInv, NEW id \in Live, row[id].born = "DRAFT",
         NEW R \in Row, row' = [row EXCEPT ![id] = R],
         R.status \notin {"FREE", "DELETED"}, R.born = "DRAFT",
         R.src = row[id].src, R.reversal = row[id].reversal,
         NumberIsFree(id, R.period, R.journal, R.number)
  PROVE  RowInv' /\ RowsEvolve
<1>1. /\ id \in EntryIds
      /\ row'[id] = R
      /\ \A i \in EntryIds \ {id} : row'[i] = row[i]
      /\ Live' = Live
  BY DEF TypeOK, Row, Live
<1>2. UniqueSource'
  BY <1>1 DEF RowInv, UniqueSource, Live
<1>3. UniqueNumber'
  BY <1>1 DEF RowInv, UniqueNumber, NumberIsFree, Live
<1>4. RowsKeepBirth'
  BY <1>1 DEF RowInv, RowsKeepBirth, Live
<1>5. ReversalsBornPosted'
  BY <1>1 DEF RowInv, ReversalsBornPosted, Live
<1>6. PostedReversalMirrors'
  BY <1>1 DEF RowInv, PostedReversalMirrors, RowsKeepBirth, ReversalsBornPosted, Live
<1>7. RowsEvolve
  BY <1>1 DEF RowsEvolve, Live
<1> QED BY <1>2, <1>3, <1>4, <1>5, <1>6, <1>7 DEF RowInv

LEMMA DeleteRow ==
  ASSUME TypeOK, RowInv, NEW id \in Live, row[id].born = "DRAFT",
         row' = [row EXCEPT ![id] = DeletedRow]
  PROVE  RowInv' /\ RowsEvolve
<1>1. /\ id \in EntryIds
      /\ row'[id] = DeletedRow /\ DeletedRow.status = "DELETED" /\ DeletedRow.born = "DRAFT"
      /\ \A i \in EntryIds \ {id} : row'[i] = row[i]
      /\ Live' = Live \ {id}
  BY DEF TypeOK, Row, Live, DeletedRow, FreeRow
<1>2. UniqueSource'
  BY <1>1 DEF RowInv, UniqueSource, Live
<1>3. UniqueNumber'
  BY <1>1 DEF RowInv, UniqueNumber, Live
<1>4. RowsKeepBirth'
  BY <1>1 DEF RowInv, RowsKeepBirth, Live
<1>5. ReversalsBornPosted'
  BY <1>1 DEF RowInv, ReversalsBornPosted, Live
<1>6. PostedReversalMirrors'
  BY <1>1 DEF RowInv, PostedReversalMirrors, RowsKeepBirth, ReversalsBornPosted, Live
<1>7. RowsEvolve
  BY <1>1 DEF RowsEvolve, Live
<1> QED BY <1>2, <1>3, <1>4, <1>5, <1>6, <1>7 DEF RowInv

\* The columns no reversal touches.
KeepsKeys(i) ==
  /\ row'[i].src = row[i].src
  /\ row'[i].born = row[i].born
  /\ row'[i].lines = row[i].lines
  /\ row'[i].number = row[i].number
  /\ row'[i].period = row[i].period
  /\ row'[i].journal = row[i].journal

LEMMA KeysStayUnique ==
  ASSUME UniqueSource, UniqueNumber, NEW id \in EntryIds, id \notin Live,
         Live' = Live \union {id}, \A i \in Live : KeepsKeys(i),
         SourceIsFree(row'[id].src),
         NumberIsFree(id, row'[id].period, row'[id].journal, row'[id].number)
  PROVE  UniqueSource' /\ UniqueNumber'
<1>1. UniqueSource'
  <2> SUFFICES ASSUME NEW a \in Live', NEW b \in Live', row'[a].src = row'[b].src
               PROVE  a = b
    BY DEF UniqueSource
  <2>1. \A i \in Live : row'[i].src = row[i].src /\ row[i].src # row'[id].src
    BY DEF KeepsKeys, SourceIsFree, HasSource
  <2> QED BY <2>1 DEF UniqueSource
<1>2. UniqueNumber'
  <2> SUFFICES ASSUME NEW a \in Live', NEW b \in Live', row'[a].number # 0,
                      row'[a].number = row'[b].number, row'[a].period = row'[b].period,
                      row'[a].journal = row'[b].journal
               PROVE  a = b
    BY DEF UniqueNumber
  <2>1. \A i \in Live :
          /\ row'[i].number = row[i].number /\ row'[i].period = row[i].period
          /\ row'[i].journal = row[i].journal
    BY DEF KeepsKeys
  <2>2. CASE a \in Live /\ b \in Live
    BY <2>1, <2>2 DEF UniqueNumber
  <2>3. CASE a = id /\ b = id
    BY <2>3
  <2>4. CASE (a = id /\ b \in Live) \/ (a \in Live /\ b = id)
    BY <2>1, <2>4 DEF NumberIsFree
  <2> QED BY <2>2, <2>3, <2>4
<1> QED BY <1>1, <1>2

\* The reversal of a base no other entry reverses: its _REV source is free.
LEMMA ReverseRow ==
  ASSUME TypeOK, RowInv, NEW base \in Live, NEW id \in EntryIds, row[id].status = "FREE",
         NEW R \in Row,
         row' = [row EXCEPT
           ![base] = [row[base] EXCEPT !.status = "REVERSED", !.reversal = id], ![id] = R],
         R.status = "POSTED", R.born = "POSTED", R.number # 0, R.reversal = NoId,
         R.src \in Source, R.src = Reversal(row[base].src), SourceIsFree(R.src),
         NumberIsFree(id, R.period, R.journal, R.number),
         row[base].born = "POSTED" => R.lines = Mirror(row[base].lines)
  PROVE  RowInv' /\ RowsEvolve
<1> DEFINE B == [row[base] EXCEPT !.status = "REVERSED", !.reversal = id]
<1>1. /\ base \in EntryIds /\ base # id /\ row[base] \in Row
      /\ row[base].status \notin {"FREE", "DELETED"}
      /\ id \notin Live
  BY DEF TypeOK, Live
<1>2. /\ B.status = "REVERSED" /\ B.reversal = id /\ B.src = row[base].src
      /\ B.born = row[base].born /\ B.lines = row[base].lines
      /\ B.number = row[base].number /\ B.period = row[base].period
      /\ B.journal = row[base].journal
  BY <1>1 DEF Row
<1>3. /\ row'[base] = B
      /\ row'[id] = R
      /\ \A i \in EntryIds \ {base, id} : row'[i] = row[i]
  BY <1>1 DEF TypeOK
<1> HIDE DEF B
<1>4. Live' = Live \union {id}
  BY <1>1, <1>2, <1>3 DEF Live
<1>0. \A i \in Live : KeepsKeys(i)
  BY <1>1, <1>2, <1>3 DEF Live, KeepsKeys
<1>5. row[base].reversal = NoId
  BY <1>1 DEF RowInv, ReversalsBornPosted, SourceIsFree, HasSource, Live
<1>6. UniqueSource' /\ UniqueNumber'
  <2>1. SourceIsFree(row'[id].src)
    BY <1>3
  <2>2. NumberIsFree(id, row'[id].period, row'[id].journal, row'[id].number)
    BY <1>3
  <2>3. UniqueSource /\ UniqueNumber
    BY DEF RowInv
  <2> QED BY <1>0, <1>1, <1>4, <2>1, <2>2, <2>3, KeysStayUnique
<1>8. RowsKeepBirth'
  <2> DEFINE Kept(x) == /\ x.src \in Source
                        /\ x.born = "DRAFT" => x.src.doc \in DraftDocs
                        /\ x.born = "POSTED" =>
                             /\ x.status \in {"POSTED", "REVERSED"}
                             /\ x.number # 0
                             /\ x.status = "REVERSED" <=> x.reversal # NoId
  <2>1. \A i \in Live : Kept(row[i])
    BY DEF RowInv, RowsKeepBirth
  <2>2. Kept(B)
    BY <2>1, <1>2
  <2>3. Kept(R)
    OBVIOUS
  <2>4. \A i \in Live' : row'[i] \in {B, R} \/ (i \in Live /\ row'[i] = row[i])
    BY <1>3, <1>4 DEF Live
  <2>5. \A i \in Live' : Kept(row'[i])
    <3> HIDE DEF Kept
    <3> QED BY <2>1, <2>2, <2>3, <2>4
  <2> QED BY <2>5 DEF RowsKeepBirth
<1>9. ReversalsBornPosted'
  <2> SUFFICES ASSUME NEW i \in Live', row'[i].reversal # NoId
               PROVE  /\ row'[i].reversal \in Live'
                      /\ row'[row'[i].reversal].born = "POSTED"
                      /\ row'[row'[i].reversal].src = Reversal(row'[i].src)
    BY DEF ReversalsBornPosted
  <2>1. CASE i = base
    BY <2>1, <1>2, <1>3, <1>4
  <2>2. CASE i # base
    <3>1. i \in Live /\ row'[i] = row[i] /\ row[i].reversal \in Live
      BY <2>2, <1>1, <1>3, <1>4 DEF RowInv, ReversalsBornPosted, Live
    <3>2. row[i].reversal # id
      BY <3>1, <1>1
    <3>3. /\ row'[row[i].reversal].born = row[row[i].reversal].born
          /\ row'[row[i].reversal].src = row[row[i].reversal].src
      BY <3>1, <3>2, <1>2, <1>3 DEF Live
    <3> QED BY <3>1, <3>3, <1>4 DEF RowInv, ReversalsBornPosted
  <2> QED BY <2>1, <2>2
<1>10. PostedReversalMirrors'
  <2> SUFFICES ASSUME NEW i \in Live', row'[i].born = "POSTED"
               PROVE  /\ row'[i].status = "REVERSED" <=> row'[i].reversal # NoId
                      /\ row'[i].status = "REVERSED" =>
                           row'[row'[i].reversal].lines = Mirror(row'[i].lines)
    BY DEF PostedReversalMirrors
  <2>1. CASE i = base
    <3>1. row'[i].reversal = id /\ row'[i].status = "REVERSED" /\ id # NoId
      BY <2>1, <1>2, <1>3
    <3>2. row'[id].lines = Mirror(row[base].lines) /\ row'[i].lines = row[base].lines
      BY <2>1, <1>2, <1>3
    <3> QED BY <3>1, <3>2
  <2>2. CASE i = id
    BY <2>2, <1>3
  <2>3. CASE i \notin {base, id}
    <3>1. i \in Live /\ row'[i] = row[i]
      BY <2>3, <1>3, <1>4 DEF Live
    <3>2. row[i].reversal # NoId =>
            /\ row[i].reversal \in Live
            /\ row'[row[i].reversal].lines = row[row[i].reversal].lines
      BY <3>1, <1>0 DEF RowInv, ReversalsBornPosted, KeepsKeys
    <3> QED BY <3>1, <3>2 DEF RowInv, PostedReversalMirrors
  <2> QED BY <2>1, <2>2, <2>3
<1>11. RowsEvolve
  BY <1>1, <1>2, <1>3, <1>4, ZenonT(60) DEF RowsEvolve
<1> QED BY <1>6, <1>8, <1>9, <1>10, <1>11 DEF RowInv

-----------------------------------------------------------------------------
(* What requests hold of the rows. *)

\* A request that took no step still holds what it held.
LEMMA OthersHold ==
  ASSUME TypeOK, RowsEvolve, NEW q \in Procs, RequestHolds(req[q]), req'[q] = req[q]
  PROVE  RequestHolds(req[q])'
<1> DEFINE r == req[q]
<1>1. r \in Request
  BY DEF TypeOK
<1>2. HoldsDraft(r) => HoldsDraft(r)'
  BY DEF HoldsDraft, RowsEvolve
<1>3. HoldsBase(r) => HoldsBase(r)'
  BY DEF HoldsBase, RowsEvolve
<1>4. \A id \in r.todo :
        (row[id].status # "FREE" /\ (id \in Live => row[id].src.rev < MaxRev))
          => (row'[id].status # "FREE" /\ (id \in Live' => row'[id].src.rev < MaxRev))
  BY <1>1 DEF RowsEvolve, Request
<1> QED BY <1>2, <1>3, <1>4 DEF RequestHolds

LEMMA IdleHolds == RequestHolds(Idle)'
BY DEF RequestHolds, Idle

\* It is enough to look at the request that took the step.
LEMMA StepHolds ==
  ASSUME TypeOK, RequestsHold, RowsEvolve, NEW p \in Procs,
         NEW R, req' = [req EXCEPT ![p] = R], RequestHolds(R)'
  PROVE  RequestsHold'
<1> SUFFICES ASSUME NEW q \in Procs PROVE RequestHolds(req[q])'
  BY DEF RequestsHold
<1>1. CASE q = p
  BY <1>1 DEF TypeOK
<1>2. CASE q # p
  BY <1>2, OthersHold DEF TypeOK, RequestsHold
<1> QED BY <1>1, <1>2

-----------------------------------------------------------------------------
(* The inductive invariant, one lemma per kind of handler. *)

LEMMA CreateKeeps ==
  ASSUME IInv, NEW p \in Procs,
         \/ PostDocument(p) \/ CreateDraft(p) \/ InsertPosted(p) \/ InsertDraft(p)
  PROVE  RowInv' /\ RequestsHold' /\ RowsEvolve
<1> USE DEF IInv
<1>1. ASSUME NEW doc \in Docs, NEW d \in Dates, NEW j \in Journals,
             NEW st \in {"DRAFT", "POSTED"}, st = "DRAFT" => doc \in DraftDocs,
             StartCreate(p, [doc |-> doc, rev |-> 0], d, j, st)
      PROVE  RowInv' /\ RequestsHold' /\ RowsEvolve
  <2> DEFINE R == [Idle EXCEPT !.stage = "insert", !.src = [doc |-> doc, rev |-> 0],
                              !.date = d, !.journal = j, !.status = st]
  <2>1. RowInv' /\ RowsEvolve
    BY <1>1, KeepRows DEF StartCreate
  <2>2. /\ R.stage = "insert" /\ R.src = [doc |-> doc, rev |-> 0]
        /\ R.status = st /\ R.todo = {}
    BY DEF Idle
  <2>3. R.src \in Source /\ R.src.rev = 0 /\ R.src.doc = doc
    BY <2>2 DEF Source
  <2>4. req' = [req EXCEPT ![p] = R]
    BY <1>1 DEF StartCreate
  <2> HIDE DEF R
  <2>5. RequestHolds(R)'
    BY <1>1, <2>2, <2>3 DEF RequestHolds
  <2> QED BY <2>1, <2>4, <2>5, StepHolds
<1>2. CASE PostDocument(p) \/ CreateDraft(p)
  BY <1>1, <1>2 DEF PostDocument, CreateDraft, Docs
<1> DEFINE r == req[p]
           m == MonthOf[r.date]
           n == NextNumber(m, r.journal)
<1>3. r \in Request /\ m \in Periods /\ r.date \in Dates /\ r.journal \in Journals
  BY DEF TypeOK, Request
<1>4. RequestHolds(r)
  BY DEF RequestsHold
<1>5. CASE InsertPosted(p)
  <2>1. PICK id \in EntryIds, b \in FreshBatches :
          /\ row[id].status = "FREE"
          /\ NumberIsFree(id, m, r.journal, n)
          /\ row' = [row EXCEPT ![id] =
               [status |-> "POSTED", born |-> "POSTED", src |-> r.src,
                date |-> r.date, period |-> m, journal |-> r.journal,
                number |-> n, reversal |-> NoId,
                lines |-> {[batch |-> b, sign |-> 1]}]]
    BY <1>5 DEF InsertPosted
  <2> DEFINE R == [status |-> "POSTED", born |-> "POSTED", src |-> r.src,
                   date |-> r.date, period |-> m, journal |-> r.journal,
                   number |-> n, reversal |-> NoId,
                   lines |-> {[batch |-> b, sign |-> 1]}]
  <2>2. n \in Nat \ {0} /\ r.src \in Source /\ SourceIsFree(r.src)
    BY <1>3, <1>4, <1>5, NumberStep DEF InsertPosted, At, RequestHolds
  <2>3. R \in Row
    BY <1>3, <2>2 DEF Row, Line, FreshBatches
  <2>4. RowInv' /\ RowsEvolve
    BY <2>1, <2>2, <2>3, InsertRow
  <2> QED BY <1>5, <2>4, StepHolds, IdleHolds DEF InsertPosted, Finish
<1>6. CASE InsertDraft(p)
  <2>1. PICK id \in EntryIds, b \in FreshBatches :
          /\ row[id].status = "FREE"
          /\ row' = [row EXCEPT ![id] =
               [status |-> "DRAFT", born |-> "DRAFT", src |-> r.src,
                date |-> r.date, period |-> m, journal |-> r.journal,
                number |-> 0, reversal |-> NoId,
                lines |-> {[batch |-> b, sign |-> 1]}]]
    BY <1>6 DEF InsertDraft
  <2> DEFINE R == [status |-> "DRAFT", born |-> "DRAFT", src |-> r.src,
                   date |-> r.date, period |-> m, journal |-> r.journal,
                   number |-> 0, reversal |-> NoId,
                   lines |-> {[batch |-> b, sign |-> 1]}]
  <2>2. r.src \in Source /\ r.src.doc \in DraftDocs /\ SourceIsFree(r.src)
    BY <1>4, <1>6 DEF InsertDraft, At, RequestHolds
  <2>3. R \in Row
    BY <1>3, <2>2 DEF Row, Line, FreshBatches
  <2>4. NumberIsFree(id, R.period, R.journal, R.number)
    BY DEF NumberIsFree
  <2>5. RowInv' /\ RowsEvolve
    BY <2>1, <2>2, <2>3, <2>4, InsertRow
  <2> QED BY <1>6, <2>5, StepHolds, IdleHolds DEF InsertDraft, Finish
<1> QED BY <1>2, <1>5, <1>6

LEMMA PostKeeps ==
  ASSUME IInv, NEW p \in Procs, ReadForPost(p) \/ CheckPost(p) \/ WritePost(p)
  PROVE  RowInv' /\ RequestsHold' /\ RowsEvolve
<1> USE DEF IInv
<1>1. CASE ReadForPost(p)
  <2>1. PICK id \in Live :
          /\ row[id].status = "DRAFT"
          /\ req' = [req EXCEPT ![p] =
               [Idle EXCEPT !.stage = "post", !.id = id, !.date = row[id].date,
                            !.journal = row[id].journal]]
    BY <1>1 DEF ReadForPost
  <2>0. PICK R : R = [Idle EXCEPT !.stage = "post", !.id = id, !.date = row[id].date,
                                  !.journal = row[id].journal]
    OBVIOUS
  <2>2. R.stage = "post" /\ R.id = id /\ R.todo = {}
    BY <2>0 DEF Idle
  <2>3. RowInv' /\ RowsEvolve /\ row' = row
    BY <1>1, KeepRows DEF ReadForPost
  <2>4. id \in EntryIds /\ row[id].born = "DRAFT" /\ row[id].status # "FREE"
    BY <2>1 DEF RowInv, RowsKeepBirth, Live, TypeOK, Row
  <2>5. RequestHolds(R)'
    BY <2>2, <2>3, <2>4 DEF RequestHolds, HoldsDraft
  <2> QED BY <2>0, <2>1, <2>3, <2>5, StepHolds
<1>2. CASE CheckPost(p)
  <2>0. PICK R : R = [req[p] EXCEPT !.stage = "postWrite"]
    OBVIOUS
  <2>1. RowInv' /\ RowsEvolve /\ row' = row
    BY <1>2, KeepRows DEF CheckPost
  <2>2. req' = [req EXCEPT ![p] = R]
    BY <1>2, <2>0 DEF CheckPost, TypeOK
  <2>3. R.stage = "postWrite" /\ R.id = req[p].id /\ R.todo = req[p].todo
    BY <2>0 DEF TypeOK, Request
  <2>4. RequestHolds(req[p])
    BY DEF RequestsHold
  <2>5. RequestHolds(R)'
    BY <1>2, <2>1, <2>3, <2>4 DEF RequestHolds, HoldsDraft, CheckPost, At, Live
  <2> QED BY <2>1, <2>2, <2>5, StepHolds
<1>3. CASE WritePost(p)
  <2> DEFINE r == req[p]
             m == MonthOf[r.date]
             n == NextNumber(m, r.journal)
             R == [row[r.id] EXCEPT !.status = "POSTED", !.period = m,
                                    !.journal = r.journal, !.number = n]
  <2>1. /\ r.id \in Live /\ row[r.id].born = "DRAFT" /\ row[r.id] \in Row
        /\ m \in Periods /\ r.journal \in Journals
    BY <1>3 DEF WritePost, RequestsHold, RequestHolds, HoldsDraft, At, TypeOK, Request, Live
  <2>2. n \in Nat
    BY <1>3, <2>1, NumberStep DEF WritePost
  <2>3. R \in Row
    BY <2>1, <2>2 DEF Row
  <2>4. /\ R.status = "POSTED" /\ R.born = row[r.id].born /\ R.src = row[r.id].src
        /\ R.reversal = row[r.id].reversal
        /\ R.period = m /\ R.journal = r.journal /\ R.number = n
    BY <2>1 DEF Row
  <2>5. row' = [row EXCEPT ![r.id] = R] /\ NumberIsFree(r.id, m, r.journal, n)
    BY <1>3 DEF WritePost
  <2> HIDE DEF R, m, n
  <2>6. RowInv' /\ RowsEvolve
    BY <2>1, <2>3, <2>4, <2>5, AmendRow
  <2> QED BY <1>3, <2>6, StepHolds, IdleHolds DEF WritePost, Finish
<1> QED BY <1>1, <1>2, <1>3

LEMMA EditKeeps ==
  ASSUME IInv, NEW p \in Procs, ReadForEdit(p) \/ CheckEdit(p) \/ WriteEdit(p)
  PROVE  RowInv' /\ RequestsHold' /\ RowsEvolve
<1> USE DEF IInv
<1>1. CASE ReadForEdit(p)
  <2>1. PICK id \in Live, d \in Dates, j \in Journals :
          /\ row[id].status = "DRAFT"
          /\ req' = [req EXCEPT ![p] =
               [Idle EXCEPT !.stage = "edit", !.id = id, !.date = d, !.journal = j]]
    BY <1>1 DEF ReadForEdit
  <2>0. PICK R : R = [Idle EXCEPT !.stage = "edit", !.id = id, !.date = d, !.journal = j]
    OBVIOUS
  <2>2. R.stage = "edit" /\ R.id = id /\ R.todo = {}
    BY <2>0 DEF Idle
  <2>3. RowInv' /\ RowsEvolve /\ row' = row
    BY <1>1, KeepRows DEF ReadForEdit
  <2>4. id \in EntryIds /\ row[id].born = "DRAFT" /\ row[id].status # "FREE"
    BY <2>1 DEF RowInv, RowsKeepBirth, Live, TypeOK, Row
  <2>5. RequestHolds(R)'
    BY <2>2, <2>3, <2>4 DEF RequestHolds, HoldsDraft
  <2> QED BY <2>0, <2>1, <2>3, <2>5, StepHolds
<1>2. CASE CheckEdit(p)
  <2>0. PICK R : R = [req[p] EXCEPT !.stage = "editWrite", !.lines = row[req[p].id].lines]
    OBVIOUS
  <2>1. RowInv' /\ RowsEvolve /\ row' = row
    BY <1>2, KeepRows DEF CheckEdit
  <2>2. req' = [req EXCEPT ![p] = R]
    BY <1>2, <2>0 DEF CheckEdit, TypeOK
  <2>3. R.stage = "editWrite" /\ R.id = req[p].id /\ R.todo = req[p].todo
    BY <2>0 DEF TypeOK, Request
  <2>4. RequestHolds(req[p])
    BY DEF RequestsHold
  <2>5. RequestHolds(R)'
    BY <1>2, <2>1, <2>3, <2>4 DEF RequestHolds, HoldsDraft, CheckEdit, At, Live
  <2> QED BY <2>1, <2>2, <2>5, StepHolds
<1>3. CASE WriteEdit(p)
  <2> DEFINE r == req[p]
             m == MonthOf[r.date]
  <2>1. /\ r.id \in Live /\ row[r.id].born = "DRAFT" /\ row[r.id] \in Row
        /\ row[r.id].status \notin {"FREE", "DELETED"}
        /\ m \in Periods /\ r.journal \in Journals /\ r.date \in Dates
    BY <1>3 DEF WriteEdit, RequestsHold, RequestHolds, HoldsDraft, At, TypeOK, Request, Live
  <2>2. PICK b \in FreshBatches :
          row' = [row EXCEPT ![r.id] =
                    [row[r.id] EXCEPT !.date = r.date, !.period = m,
                                      !.journal = r.journal,
                                      !.lines = (row[r.id].lines \ r.lines)
                                          \union {[batch |-> b, sign |-> 1]}]]
    BY <1>3, <2>1 DEF WriteEdit, TypeOK
  <2>3. PICK R : R = [row[r.id] EXCEPT !.date = r.date, !.period = m,
                                      !.journal = r.journal,
                                      !.lines = (row[r.id].lines \ r.lines)
                                          \union {[batch |-> b, sign |-> 1]}]
    OBVIOUS
  <2>4. (row[r.id].lines \ r.lines) \union {[batch |-> b, sign |-> 1]} \in SUBSET Line
    BY <2>1 DEF FreshBatches, Line, Row
  <2>5. R \in Row
    BY <2>1, <2>3, <2>4 DEF Row
  <2>6. /\ R.status = row[r.id].status /\ R.born = "DRAFT" /\ R.src = row[r.id].src
        /\ R.reversal = row[r.id].reversal
        /\ R.period = m /\ R.journal = r.journal /\ R.number = row[r.id].number
    BY <2>1, <2>3 DEF Row
  <2>7. row' = [row EXCEPT ![r.id] = R] /\ NumberIsFree(r.id, m, r.journal, row[r.id].number)
    BY <1>3, <2>2, <2>3 DEF WriteEdit
  <2> HIDE DEF m
  <2>8. RowInv' /\ RowsEvolve
    BY <2>1, <2>5, <2>6, <2>7, AmendRow
  <2> QED BY <1>3, <2>8, StepHolds, IdleHolds DEF WriteEdit, Finish
<1> QED BY <1>1, <1>2, <1>3

LEMMA DeleteAndDraftKeeps ==
  ASSUME IInv, NEW p \in Procs,
         ReadForDelete(p) \/ WriteDelete(p) \/ ReadForDraft(p) \/ WriteDraft(p)
  PROVE  RowInv' /\ RequestsHold' /\ RowsEvolve
<1> USE DEF IInv
<1>1. CASE ReadForDelete(p) \/ ReadForDraft(p)
  <2>1. PICK id \in Live, st \in {"delete", "setDraft"} :
          /\ row[id].status = "DRAFT" \/ (row[id].status # "REVERSED" /\ row[id].number = 0)
          /\ req' = [req EXCEPT ![p] = [Idle EXCEPT !.stage = st, !.id = id]]
    BY <1>1 DEF ReadForDelete, ReadForDraft
  <2>0. PICK R : R = [Idle EXCEPT !.stage = st, !.id = id]
    OBVIOUS
  <2>2. R.stage = st /\ R.id = id /\ R.todo = {}
    BY <2>0 DEF Idle
  <2>3. RowInv' /\ RowsEvolve /\ row' = row
    BY <1>1, KeepRows DEF ReadForDelete, ReadForDraft
  <2>4. id \in EntryIds /\ row[id].born = "DRAFT" /\ row[id].status # "FREE"
    BY <2>1 DEF RowInv, RowsKeepBirth, Live, TypeOK, Row
  <2>5. RequestHolds(R)'
    BY <2>2, <2>3, <2>4 DEF RequestHolds, HoldsDraft
  <2> QED BY <2>0, <2>1, <2>3, <2>5, StepHolds
<1> DEFINE r == req[p]
<1>2. /\ r.stage \in {"delete", "setDraft"} /\ r.id \in Live
        => row[r.id].born = "DRAFT" /\ row[r.id] \in Row
  BY DEF RequestsHold, RequestHolds, HoldsDraft, TypeOK, Live
<1>3. CASE WriteDelete(p)
  <2>1. RowInv' /\ RowsEvolve
    BY <1>2, <1>3, DeleteRow DEF WriteDelete, At
  <2> QED BY <1>3, <2>1, StepHolds, IdleHolds DEF WriteDelete, Finish
<1>4. CASE WriteDraft(p)
  <2>1. PICK R : R = [row[r.id] EXCEPT !.status = "DRAFT"]
    OBVIOUS
  <2>2. r.id \in Live /\ row[r.id].born = "DRAFT" /\ row[r.id] \in Row
    BY <1>2, <1>4 DEF WriteDraft, At
  <2>3. R \in Row
    BY <2>1, <2>2 DEF Row
  <2>4. /\ R.status = "DRAFT" /\ R.born = "DRAFT" /\ R.src = row[r.id].src
        /\ R.reversal = row[r.id].reversal /\ R.period = row[r.id].period
        /\ R.journal = row[r.id].journal /\ R.number = row[r.id].number
    BY <2>1, <2>2 DEF Row
  <2>5. row' = [row EXCEPT ![r.id] = R]
    BY <1>4, <2>1, <2>2 DEF WriteDraft, Live
  <2>6. NumberIsFree(r.id, R.period, R.journal, R.number)
    BY <2>2, <2>4 DEF RowInv, UniqueNumber, NumberIsFree
  <2>7. RowInv' /\ RowsEvolve
    BY <2>2, <2>3, <2>4, <2>5, <2>6, AmendRow
  <2> QED BY <1>4, <2>7, StepHolds, IdleHolds DEF WriteDraft, Finish
<1> QED BY <1>1, <1>3, <1>4

\* The rows of a list of entries stay there, with their sources.
LEMMA TodoHolds ==
  ASSUME RowsEvolve, NEW todo \in SUBSET EntryIds,
         \A id \in todo : row[id].status # "FREE" /\ (id \in Live => row[id].src.rev < MaxRev)
  PROVE  \A id \in todo :
           row'[id].status # "FREE" /\ (id \in Live' => row'[id].src.rev < MaxRev)
BY DEF RowsEvolve

LEMMA ReadBaseHolds ==
  ASSUME IInv, UNCHANGED row, NEW p \in Procs, NEW id \in Live, NEW j \in Journals,
         NEW todo \in SUBSET EntryIds, row[id].src.rev < MaxRev,
         \A i \in todo : row[i].status # "FREE" /\ (i \in Live => row[i].src.rev < MaxRev),
         ReadBase(p, id, j, todo)
  PROVE  RowInv' /\ RequestsHold' /\ RowsEvolve
<1> USE DEF IInv
<1>1. PICK R : R = [Idle EXCEPT !.stage = "reverse", !.id = id, !.src = row[id].src,
                                !.journal = j, !.lines = row[id].lines, !.todo = todo]
  OBVIOUS
<1>2. /\ R.stage = "reverse" /\ R.id = id /\ R.src = row[id].src
      /\ R.lines = row[id].lines /\ R.todo = todo
  BY <1>1 DEF Idle
<1>3. RowInv' /\ RowsEvolve /\ row' = row
  BY KeepRows
<1>4. id \in EntryIds /\ row[id].status # "FREE" /\ row[id].src \in Source
  BY DEF RowInv, RowsKeepBirth, Live
<1>5. HoldsBase(R)'
  BY <1>2, <1>3, <1>4 DEF HoldsBase, Live
<1>6. RequestHolds(R)'
  BY <1>2, <1>3, <1>5 DEF RequestHolds, Live
<1> QED BY <1>1, <1>3, <1>6, StepHolds DEF ReadBase

LEMMA ReverseKeeps ==
  ASSUME IInv, NEW p \in Procs,
         ReadForReverse(p) \/ ReadForReverseBySource(p) \/ CheckReverse(p)
  PROVE  RowInv' /\ RequestsHold' /\ RowsEvolve
<1> USE DEF IInv
<1>1. CASE ReadForReverse(p)
  <2>1. PICK id \in Live : row[id].src.rev < MaxRev /\ ReadBase(p, id, row[id].journal, {})
    BY <1>1 DEF ReadForReverse
  <2>2. row[id].journal \in Journals
    BY DEF TypeOK, Row, Live
  <2> QED BY <1>1, <2>1, <2>2, ReadBaseHolds DEF ReadForReverse
<1>2. CASE ReadForReverseBySource(p)
  <2>1. PICK id \in Live, doc \in PostDocs :
          /\ row[id].src = [doc |-> doc, rev |-> 0]
          /\ ReadBase(p, id, JournalOf[doc], {})
    BY <1>2 DEF ReadForReverseBySource
  <2>2. row[id].src.rev < MaxRev /\ JournalOf[doc] \in Journals
    BY <1>2, <2>1 DEF ReadForReverseBySource
  <2> QED BY <1>2, <2>1, <2>2, ReadBaseHolds DEF ReadForReverseBySource
<1>3. CASE CheckReverse(p)
  <2>0. PICK R : R = [req[p] EXCEPT !.stage = "reverseWrite", !.date = today]
    OBVIOUS
  <2>1. RowInv' /\ RowsEvolve /\ row' = row
    BY <1>3, KeepRows DEF CheckReverse
  <2>2. req' = [req EXCEPT ![p] = R]
    <3>1. req' = [req EXCEPT ![p].stage = "reverseWrite", ![p].date = today]
      BY <1>3 DEF CheckReverse
    <3> QED BY <2>0, <3>1 DEF TypeOK
  <2>3. /\ R.stage = "reverseWrite" /\ R.id = req[p].id /\ R.src = req[p].src
        /\ R.lines = req[p].lines /\ R.todo = req[p].todo
    BY <2>0 DEF TypeOK, Request
  <2>4. RequestHolds(req[p]) /\ req[p].stage = "reverse"
    BY <1>3 DEF RequestsHold, CheckReverse, At
  <2>5. HoldsBase(R)'
    BY <2>1, <2>3, <2>4 DEF RequestHolds, HoldsBase, Live
  <2>6. RequestHolds(R)'
    BY <2>1, <2>3, <2>4, <2>5 DEF RequestHolds, Live
  <2> QED BY <2>1, <2>2, <2>6, StepHolds
<1> QED BY <1>1, <1>2, <1>3

LEMMA WriteReverseKeeps ==
  ASSUME IInv, NEW p \in Procs, WriteReverse(p)
  PROVE  RowInv' /\ RequestsHold' /\ RowsEvolve /\ Reversal(req[p].src) \in Source
<1> USE DEF IInv
<1> DEFINE r == req[p]
           m == MonthOf[r.date]
           n == NextNumber(m, r.journal)
<1>1. /\ r \in Request /\ m \in Periods /\ r.journal \in Journals /\ r.date \in Dates
      /\ r.id \in Live /\ row[r.id] \in Row /\ r.todo \in SUBSET EntryIds
      /\ Mirror(r.lines) \in SUBSET Line
  BY MirrorTyped DEF TypeOK, Request, WriteReverse, Live
<1>2. RequestHolds(r) /\ HoldsBase(r)
  BY DEF RequestsHold, RequestHolds, WriteReverse, At
<1>3. Reversal(r.src) \in Source /\ r.src = row[r.id].src
  BY <1>1, <1>2, ReversalTyped DEF HoldsBase
<1>4. n \in Nat \ {0}
  BY <1>1, NumberStep DEF WriteReverse
<1>5. PICK R : R = [status |-> "POSTED", born |-> "POSTED",
                    src |-> Reversal(r.src), date |-> r.date, period |-> m,
                    journal |-> r.journal, number |-> n,
                    reversal |-> NoId, lines |-> Mirror(r.lines)]
  OBVIOUS
<1>6. PICK id \in EntryIds :
        /\ row[id].status = "FREE"
        /\ NumberIsFree(id, m, r.journal, n)
        /\ row' = [row EXCEPT
             ![r.id] = [row[r.id] EXCEPT !.status = "REVERSED", !.reversal = id], ![id] = R]
  BY <1>1, <1>5 DEF WriteReverse, TypeOK
<1>7. R \in Row
  BY <1>1, <1>3, <1>4, <1>5 DEF Row
<1>8. /\ R.status = "POSTED" /\ R.born = "POSTED" /\ R.number = n /\ R.reversal = NoId
      /\ R.src = Reversal(r.src) /\ R.period = m /\ R.journal = r.journal
      /\ R.lines = Mirror(r.lines)
  BY <1>5
<1>9. SourceIsFree(R.src) /\ (row[r.id].born = "POSTED" => R.lines = Mirror(row[r.id].lines))
  BY <1>1, <1>2, <1>8 DEF WriteReverse, HoldsBase
<1>10. RowInv' /\ RowsEvolve
  <2> HIDE DEF m, n
  <2> QED BY <1>1, <1>3, <1>4, <1>6, <1>7, <1>8, <1>9, ReverseRow
<1>11. PICK Q : Q = IF r.todo = {} THEN Idle
                    ELSE [Idle EXCEPT !.stage = "mass", !.todo = r.todo]
  OBVIOUS
<1>12. RequestHolds(Q)'
  <2>1. CASE r.todo = {}
    BY <2>1, <1>11, IdleHolds
  <2>2. CASE r.todo # {}
    <3>1. PICK T \in SUBSET EntryIds : T = r.todo
      BY <1>1
    <3>2. Q.stage = "mass" /\ Q.todo = T
      BY <2>2, <3>1, <1>11 DEF Idle
    <3>3. \A i \in T : row'[i].status # "FREE" /\ (i \in Live' => row'[i].src.rev < MaxRev)
      BY <1>2, <1>10, <3>1, TodoHolds DEF RequestHolds
    <3> QED BY <3>2, <3>3 DEF RequestHolds
  <2> QED BY <2>1, <2>2
<1>13. req' = [req EXCEPT ![p] = Q]
  BY <1>11 DEF WriteReverse
<1> QED BY <1>3, <1>10, <1>12, <1>13, StepHolds

LEMMA MassKeeps ==
  ASSUME IInv, NEW p \in Procs, ReadForMass(p) \/ NextOfMass(p)
  PROVE  RowInv' /\ RequestsHold' /\ RowsEvolve
<1> USE DEF IInv
<1>0. RowInv' /\ RowsEvolve /\ row' = row
  BY KeepRows DEF ReadForMass, NextOfMass
<1>1. CASE ReadForMass(p)
  <2>1. PICK entries \in SUBSET Live :
          /\ \A id \in entries : row[id].src.rev < MaxRev
          /\ req' = [req EXCEPT ![p] = [Idle EXCEPT !.stage = "mass", !.todo = entries]]
    BY <1>1 DEF ReadForMass
  <2>2. PICK R : R = [Idle EXCEPT !.stage = "mass", !.todo = entries]
    OBVIOUS
  <2>3. R.stage = "mass" /\ R.todo = entries
    BY <2>2 DEF Idle
  <2>4. RequestHolds(R)'
    BY <1>0, <2>1, <2>3 DEF RequestHolds, Live
  <2> QED BY <1>0, <2>1, <2>2, <2>4, StepHolds
<1>2. CASE NextOfMass(p)
  <2>1. PICK id \in req[p].todo \intersect Live :
          IF row[id].reversal = NoId
          THEN ReadBase(p, id, row[id].journal, req[p].todo \ {id})
          ELSE req' = [req EXCEPT ![p] =
                 IF req[p].todo \ {id} = {} THEN Idle
                 ELSE [req[p] EXCEPT !.todo = req[p].todo \ {id}]]
    BY <1>2 DEF NextOfMass
  <2>2. PICK T : T = req[p].todo \ {id}
    OBVIOUS
  <2>3. /\ T \in SUBSET EntryIds /\ row[id].journal \in Journals
        /\ row[id].src.rev < MaxRev
        /\ \A i \in T : row[i].status # "FREE" /\ (i \in Live => row[i].src.rev < MaxRev)
    BY <2>2 DEF TypeOK, Row, Request, Live, RequestsHold, RequestHolds
  <2>4. CASE row[id].reversal = NoId
    BY <1>0, <2>1, <2>2, <2>3, <2>4, ReadBaseHolds
  <2>5. CASE row[id].reversal # NoId
    <3>1. PICK R : R = IF T = {} THEN Idle ELSE [req[p] EXCEPT !.todo = T]
      OBVIOUS
    <3>2. CASE T = {}
      BY <1>0, <2>1, <2>2, <2>5, <3>1, <3>2, IdleHolds, StepHolds
    <3>3. CASE T # {}
      <4>1. R.stage = "mass" /\ R.todo = T
        BY <1>2, <3>1, <3>3 DEF NextOfMass, At, TypeOK, Request
      <4>2. RequestHolds(R)'
        BY <1>0, <2>3, <4>1 DEF RequestHolds, Live
      <4> QED BY <1>0, <2>1, <2>2, <2>5, <3>1, <4>2, StepHolds
    <3> QED BY <3>2, <3>3
  <2> QED BY <2>4, <2>5
<1> QED BY <1>1, <1>2

LEMMA PeriodKeeps ==
  ASSUME IInv, NEW p \in Procs,
         \/ CountDrafts(p) \/ WriteClose(p) \/ ReadForLock(p) \/ WriteLock(p)
         \/ Abort(p)
  PROVE  RowInv' /\ RequestsHold' /\ RowsEvolve
<1> USE DEF IInv
<1>0. RowInv' /\ RowsEvolve /\ row' = row
  BY KeepRows DEF CountDrafts, WriteClose, ReadForLock, WriteLock, Abort
<1>1. CASE CountDrafts(p)
  <2>1. PICK m \in Periods, f \in BOOLEAN :
          req' = [req EXCEPT ![p] = [Idle EXCEPT !.stage = "close", !.period = m, !.flag = f]]
    BY <1>1 DEF CountDrafts
  <2>2. PICK R : R = [Idle EXCEPT !.stage = "close", !.period = m, !.flag = f]
    OBVIOUS
  <2>3. R.stage = "close" /\ R.todo = {}
    BY <2>2 DEF Idle
  <2> QED BY <1>0, <2>1, <2>2, <2>3, StepHolds DEF RequestHolds
<1>2. CASE ReadForLock(p)
  <2>1. PICK m \in Periods, f \in BOOLEAN :
          req' = [req EXCEPT ![p] = [Idle EXCEPT !.stage = "lock", !.period = m,
                                       !.flag = f, !.closed = period[m].closedAt]]
    BY <1>2 DEF ReadForLock
  <2>2. PICK R : R = [Idle EXCEPT !.stage = "lock", !.period = m,
                                  !.flag = f, !.closed = period[m].closedAt]
    OBVIOUS
  <2>3. R.stage = "lock" /\ R.todo = {}
    BY <2>2 DEF Idle
  <2> QED BY <1>0, <2>1, <2>2, <2>3, StepHolds DEF RequestHolds
<1>3. CASE WriteClose(p) \/ WriteLock(p) \/ Abort(p)
  BY <1>0, <1>3, StepHolds, IdleHolds DEF WriteClose, WriteLock, Abort, Finish
<1> QED BY <1>1, <1>2, <1>3

\* A step of the server that is nobody's request: openPeriod, and the clock.
LEMMA QuietKeeps ==
  ASSUME IInv, UNCHANGED <<row, req>>
  PROVE  RowInv' /\ RequestsHold' /\ RowsEvolve
<1>1. RowInv' /\ RowsEvolve
  BY KeepRows DEF IInv
<1>2. RequestsHold'
  BY <1>1, OthersHold DEF IInv, RequestsHold
<1> QED BY <1>1, <1>2

-----------------------------------------------------------------------------

LEMMA InitHolds == Init => IInv
<1> SUFFICES ASSUME Init PROVE IInv
  OBVIOUS
<1>1. TypeOK
  BY TypeInit
<1>2. Live = {}
  BY DEF Init, Live, FreeRow
<1>3. RowInv
  BY <1>2 DEF RowInv, UniqueSource, UniqueNumber, RowsKeepBirth, ReversalsBornPosted,
         PostedReversalMirrors
<1>4. RequestsHold
  BY DEF Init, RequestsHold, RequestHolds, Idle
<1> QED BY <1>1, <1>3, <1>4 DEF IInv

LEMMA StepKeeps ==
  ASSUME IInv, [Next]_vars
  PROVE  IInv' /\ RowsEvolve
<1>1. ASSUME NEW p \in Procs, Step(p) PROVE IInv' /\ RowsEvolve
  <2>1. RowInv' /\ RequestsHold' /\ RowsEvolve
    BY <1>1, CreateKeeps, PostKeeps, EditKeeps, DeleteAndDraftKeeps, ReverseKeeps,
       WriteReverseKeeps, MassKeeps, PeriodKeeps DEF Step, EntryHandler, PeriodHandler
  <2>2. TypeOK'
    <3>1. CASE Abort(p)
      BY <3>1, IdleTyped DEF IInv, TypeOK, Abort, Finish
    <3>2. CASE ~Abort(p)
      BY <1>1, <3>2, CreateTyped, InsertTyped, PostTyped, EditTyped, DeleteAndDraftTyped,
         ReverseTyped, WriteReverseTyped, WriteReverseKeeps, PeriodTyped DEF Step, EntryHandler, PeriodHandler, IInv
    <3> QED BY <3>1, <3>2
  <2> QED BY <2>1, <2>2 DEF IInv
<1>2. ASSUME NEW m \in Periods, OpenPeriod(m) PROVE IInv' /\ RowsEvolve
  <2>1. PICK d \in Dates :
          period' = [period EXCEPT ![m] = [period[m] EXCEPT !.status = "OPEN", !.until = d]]
    BY <1>2 DEF OpenPeriod, IInv, TypeOK
  <2>2. period[m] \in PeriodRow
    BY DEF IInv, TypeOK
  <2>3. [period[m] EXCEPT !.status = "OPEN", !.until = d] \in PeriodRow
    BY <2>2 DEF PeriodRow
  <2>4. TypeOK'
    BY <1>2, <2>1, <2>3 DEF OpenPeriod, IInv, TypeOK
  <2> QED BY <1>2, <2>4, QuietKeeps DEF OpenPeriod, IInv
<1>3. CASE Tick
  BY <1>3, QuietKeeps DEF Tick, IInv, TypeOK
<1>4. CASE UNCHANGED vars
  BY <1>4, QuietKeeps DEF vars, IInv, TypeOK
<1> QED BY <1>1, <1>2, <1>3, <1>4 DEF Next

\* The inductive invariant, of which every invariant below is a part.
THEOREM Inductive == Spec => []IInv
BY InitHolds, StepKeeps, PTL DEF Spec

-----------------------------------------------------------------------------
(* The theorems. *)

LEMMA IInvImplies ==
  IInv => TypeOK /\ UniqueSource /\ UniqueNumber /\ PostedReversalMirrors /\ ReversalPaired
<1> SUFFICES ASSUME IInv PROVE ReversalPaired
  BY DEF IInv, RowInv
<1> USE DEF IInv, RowInv
<1> SUFFICES ASSUME NEW id \in Live, row[id].reversal # NoId
             PROVE  /\ row[id].reversal \in Live
                    /\ row[row[id].reversal].src = Reversal(row[id].src)
                    /\ row[row[id].reversal].number # 0
                    /\ \A other \in Live \ {id} : row[other].reversal # row[id].reversal
  BY DEF ReversalPaired
<1>1. /\ row[id].reversal \in Live
      /\ row[row[id].reversal].born = "POSTED"
      /\ row[row[id].reversal].src = Reversal(row[id].src)
  BY DEF ReversalsBornPosted
<1>2. row[row[id].reversal].number # 0
  BY <1>1 DEF RowsKeepBirth
<1>3. ASSUME NEW other \in Live, row[other].reversal = row[id].reversal PROVE other = id
  <2>1. Reversal(row[other].src) = Reversal(row[id].src)
    BY <1>1, <1>3 DEF ReversalsBornPosted
  <2>2. row[other].src \in Source /\ row[id].src \in Source
    BY DEF RowsKeepBirth
  <2> QED BY <2>1, <2>2, ReversalInjective DEF UniqueSource
<1> QED BY <1>1, <1>2, <1>3

\* Every table, and every request, keeps its type.
THEOREM TypeCorrect == Spec => []TypeOK
BY Inductive, IInvImplies, PTL

\* Idempotency: a document or its reversal has one entry, whatever handlers
\* run side by side, and though ensureIdempotency reads before it writes.
THEOREM SourcesUnique == Spec => []UniqueSource
BY Inductive, IInvImplies, PTL

\* Numbering: no two entries share a number, though a stale edit may move a
\* numbered entry to another journal or period.
THEOREM NumbersUnique == Spec => []UniqueNumber
BY Inductive, IInvImplies, PTL

\* reversalId leads to the one entry that carries the base's _REV source.
THEOREM ReversalsPaired == Spec => []ReversalPaired
BY Inductive, IInvImplies, PTL

\* The reversal of a posted entry cancels the lines it has, not lines it had.
THEOREM ReversalsMirror == Spec => []PostedReversalMirrors
BY Inductive, IInvImplies, PTL

-----------------------------------------------------------------------------
(* What a step does to the rows born POSTED: it leaves them as they are,   *)
(* posts one document, or reverses one entry.                              *)

LeavesPosted ==
  /\ \A i \in Live : row[i].born = "POSTED" => i \in Live' /\ row'[i] = row[i]
  /\ \A i \in Live' : row'[i].born = "POSTED" => i \in Live /\ row[i].born = "POSTED"

PostsOne(id, R) ==
  /\ id \notin Live /\ Live' = Live \union {id}
  /\ row'[id] = R /\ \A i \in Live : row'[i] = row[i]
  /\ R.status = "POSTED" /\ R.src \in Source /\ R.src.rev = 0
  /\ SourceIsFree(R.src) /\ R.lines \in SUBSET Line

ReversesOne(base, id, R) ==
  /\ base \in Live /\ id \notin Live /\ Live' = Live \union {id}
  /\ row[base].reversal = NoId
  /\ row'[base] = [row[base] EXCEPT !.status = "REVERSED", !.reversal = id]
  /\ row'[id] = R /\ \A i \in Live \ {base} : row'[i] = row[i]
  /\ R.status = "POSTED" /\ R.src = Reversal(row[base].src) /\ R.src \in Source
  /\ SourceIsFree(R.src)
  /\ row[base].born = "POSTED" => R.lines = Mirror(row[base].lines)

LEMMA InsertPosts ==
  ASSUME IInv, NEW p \in Procs, InsertPosted(p)
  PROVE  \E id \in EntryIds, R \in Row : PostsOne(id, R)
<1> USE DEF IInv
<1> DEFINE r == req[p]
           m == MonthOf[r.date]
           n == NextNumber(m, r.journal)
<1>1. r \in Request /\ m \in Periods /\ r.date \in Dates /\ r.journal \in Journals
  BY DEF TypeOK, Request
<1>2. PICK id \in EntryIds, b \in FreshBatches :
        /\ row[id].status = "FREE"
        /\ row' = [row EXCEPT ![id] =
             [status |-> "POSTED", born |-> "POSTED", src |-> r.src,
              date |-> r.date, period |-> m, journal |-> r.journal,
              number |-> n, reversal |-> NoId,
              lines |-> {[batch |-> b, sign |-> 1]}]]
  BY DEF InsertPosted
<1>3. PICK R : R = [status |-> "POSTED", born |-> "POSTED", src |-> r.src,
                    date |-> r.date, period |-> m, journal |-> r.journal,
                    number |-> n, reversal |-> NoId,
                    lines |-> {[batch |-> b, sign |-> 1]}]
  OBVIOUS
<1>4. n \in Nat /\ r.src \in Source /\ r.src.rev = 0 /\ SourceIsFree(r.src)
  BY <1>1, NumberStep DEF InsertPosted, At, RequestsHold, RequestHolds
<1>5. {[batch |-> b, sign |-> 1]} \in SUBSET Line
  BY DEF Line, FreshBatches
<1>6. R \in Row
  BY <1>1, <1>3, <1>4, <1>5 DEF Row
<1>7. /\ R.status = "POSTED" /\ R.src = r.src /\ R.lines \in SUBSET Line
  BY <1>3, <1>5
<1>8. row' = [row EXCEPT ![id] = R]
  BY <1>2, <1>3
<1>9. /\ id \notin Live /\ Live' = Live \union {id}
      /\ row'[id] = R /\ \A i \in Live : row'[i] = row[i]
  BY <1>2, <1>7, <1>8 DEF TypeOK, Live
<1>10. PostsOne(id, R)
  BY <1>4, <1>7, <1>9 DEF PostsOne
<1> QED BY <1>6, <1>10

LEMMA WriteReverses ==
  ASSUME IInv, NEW p \in Procs, WriteReverse(p)
  PROVE  \E base \in Live, id \in EntryIds, R \in Row : ReversesOne(base, id, R)
<1> USE DEF IInv
<1> DEFINE r == req[p]
           m == MonthOf[r.date]
           n == NextNumber(m, r.journal)
<1>1. /\ r \in Request /\ m \in Periods /\ r.journal \in Journals /\ r.date \in Dates
      /\ r.id \in Live /\ r.id \in EntryIds /\ row[r.id] \in Row
      /\ Mirror(r.lines) \in SUBSET Line
  BY MirrorTyped DEF TypeOK, Request, WriteReverse, Live
<1>2. /\ Reversal(r.src) \in Source /\ r.src = row[r.id].src
      /\ row[r.id].born = "POSTED" => r.lines = row[r.id].lines
  BY <1>1, WriteReverseKeeps DEF RequestsHold, RequestHolds, HoldsBase, WriteReverse, At
<1>3. n \in Nat
  BY <1>1, NumberStep DEF WriteReverse
<1>4. PICK R : R = [status |-> "POSTED", born |-> "POSTED",
                    src |-> Reversal(r.src), date |-> r.date, period |-> m,
                    journal |-> r.journal, number |-> n,
                    reversal |-> NoId, lines |-> Mirror(r.lines)]
  OBVIOUS
<1>5. PICK id \in EntryIds :
        /\ row[id].status = "FREE"
        /\ row' = [row EXCEPT
             ![r.id] = [row[r.id] EXCEPT !.status = "REVERSED", !.reversal = id], ![id] = R]
  BY <1>1, <1>4 DEF WriteReverse, TypeOK
<1>6. R \in Row
  BY <1>1, <1>2, <1>3, <1>4 DEF Row
<1>7. R.status = "POSTED" /\ R.src = Reversal(r.src) /\ R.lines = Mirror(r.lines)
  BY <1>4
<1>8. PICK B : B = [row[r.id] EXCEPT !.status = "REVERSED", !.reversal = id]
  OBVIOUS
<1>9. B.status = "REVERSED"
  BY <1>1, <1>8 DEF Row
<1>10. /\ id \notin Live /\ row'[r.id] = B
       /\ row'[id] = R /\ \A i \in EntryIds \ {r.id, id} : row'[i] = row[i]
  BY <1>1, <1>5, <1>8 DEF TypeOK, Live
<1>11. Live' = Live \union {id}
  BY <1>1, <1>7, <1>9, <1>10 DEF Live
<1>12. SourceIsFree(R.src)
  BY <1>7 DEF WriteReverse
<1>13. row[r.id].reversal = NoId
  BY <1>1, <1>2, <1>7, <1>12 DEF RowInv, ReversalsBornPosted, SourceIsFree, HasSource
<1>14. ReversesOne(r.id, id, R)
  BY <1>1, <1>2, <1>7, <1>8, <1>10, <1>11, <1>12, <1>13 DEF ReversesOne, Live
<1> QED BY <1>1, <1>6, <1>14

LEMMA OthersLeavePosted ==
  ASSUME IInv, [Next]_vars, \A p \in Procs : ~InsertPosted(p) /\ ~WriteReverse(p)
  PROVE  LeavesPosted
<1> USE DEF IInv
<1>1. ASSUME row' = row PROVE LeavesPosted
  BY <1>1 DEF LeavesPosted, Live
<1>2. ASSUME NEW p \in Procs, WritePost(p) \/ WriteEdit(p) \/ WriteDelete(p) \/ WriteDraft(p)
      PROVE  LeavesPosted
  <2>1. PICK id \in Live : id = req[p].id
    BY <1>2 DEF WritePost, WriteEdit, WriteDelete, WriteDraft
  <2>2. row[id].born = "DRAFT" /\ id \in EntryIds /\ row[id] \in Row
    BY <1>2, <2>1 DEF WritePost, WriteEdit, WriteDelete, WriteDraft, At, RequestsHold,
       RequestHolds, HoldsDraft, Live, TypeOK
  <2>3. \A i \in EntryIds \ {id} : row'[i] = row[i]
    BY <1>2, <2>1 DEF WritePost, WriteEdit, WriteDelete, WriteDraft, TypeOK
  <2>4. row'[id].born = "DRAFT"
    <3>1. row'[id].born = row[id].born
      BY <2>1, <2>2, StepKeeps DEF RowsEvolve, Live
    <3> QED BY <2>2, <3>1
  <2> QED BY <2>2, <2>3, <2>4 DEF LeavesPosted, Live
<1>3. ASSUME NEW p \in Procs, InsertDraft(p) PROVE LeavesPosted
  <2>0. PICK id \in EntryIds, b \in FreshBatches :
          /\ row[id].status = "FREE"
          /\ row' = [row EXCEPT ![id] =
               [status |-> "DRAFT", born |-> "DRAFT", src |-> req[p].src,
                date |-> req[p].date, period |-> MonthOf[req[p].date],
                journal |-> req[p].journal, number |-> 0, reversal |-> NoId,
                lines |-> {[batch |-> b, sign |-> 1]}]]
    BY <1>3 DEF InsertDraft
  <2>1. PICK R : R = [status |-> "DRAFT", born |-> "DRAFT", src |-> req[p].src,
                      date |-> req[p].date, period |-> MonthOf[req[p].date],
                      journal |-> req[p].journal, number |-> 0, reversal |-> NoId,
                      lines |-> {[batch |-> b, sign |-> 1]}]
    OBVIOUS
  <2>2. /\ row'[id] = R /\ \A i \in EntryIds \ {id} : row'[i] = row[i]
        /\ id \notin Live
    BY <2>0, <2>1 DEF TypeOK, Live
  <2>3. R.born = "DRAFT"
    BY <2>1
  <2> QED BY <2>2, <2>3 DEF LeavesPosted, Live
<1>4. ASSUME NEW p \in Procs, Step(p), ~(WritePost(p) \/ WriteEdit(p) \/ WriteDelete(p)
                 \/ WriteDraft(p) \/ InsertDraft(p))
      PROVE  row' = row
  BY <1>4 DEF Step, EntryHandler, PeriodHandler, PostDocument, CreateDraft, StartCreate, ReadForPost, CheckPost,
     ReadForEdit, CheckEdit, ReadForDelete, ReadForDraft, ReadForReverse,
     ReadForReverseBySource, CheckReverse, ReadForMass, NextOfMass, CountDrafts,
     WriteClose, ReadForLock, WriteLock, Abort
<1>5. ASSUME ~\E p \in Procs : Step(p) PROVE row' = row
  BY <1>5 DEF Next, OpenPeriod, Tick, vars
<1> QED BY <1>1, <1>2, <1>3, <1>4, <1>5

LEMMA StepKinds ==
  ASSUME IInv, [Next]_vars
  PROVE  \/ LeavesPosted
         \/ \E id \in EntryIds, R \in Row : PostsOne(id, R)
         \/ \E base \in Live, id \in EntryIds, R \in Row : ReversesOne(base, id, R)
BY InsertPosts, WriteReverses, OthersLeavePosted

\* A posted entry changes only by being reversed: no handler, however stale
\* what it read, edits, deletes, renumbers or reopens what createEntry posted.
THEOREM PostedFrozen == Spec => PostedIsFrozen
<1>1. IInv /\ [Next]_vars => [FreezesPosted]_row
  <2> SUFFICES ASSUME IInv, [Next]_vars,
                      NEW i \in Live, row[i].born = "POSTED", row'[i] # row[i]
               PROVE  Reverses(i)
    BY DEF FreezesPosted
  <2>1. PICK base \in Live, id \in EntryIds, R \in Row : ReversesOne(base, id, R)
    BY StepKinds DEF LeavesPosted, PostsOne
  <2>2. i = base
    BY <2>1 DEF ReversesOne
  <2>3. row[i].status = "POSTED"
    BY <2>1, <2>2 DEF IInv, RowInv, RowsKeepBirth, ReversesOne
  <2>4. row'[i].reversal = id /\ row'[i] = [row[i] EXCEPT !.status = "REVERSED", !.reversal = id]
    <3>1. row[i] \in Row
      BY DEF IInv, TypeOK, Live
    <3> QED BY <2>1, <2>2, <3>1 DEF ReversesOne, Row
  <2> QED BY <2>3, <2>4 DEF Reverses
<1> QED BY <1>1, Inductive, PTL DEF Spec, PostedIsFrozen

-----------------------------------------------------------------------------
(* Refinement: the entries of the services' documents are a DocumentLedger. *)

LEMMA LedgerOfRow ==
  ASSUME UniqueSource, NEW src, NEW id \in Live, row[id].src = src
  PROVE  /\ HasSource(src)
         /\ LedgerState(src) = IF row[id].status = "REVERSED" THEN "reversed" ELSE "posted"
         /\ LedgerContent(src) = row[id].lines
<1>1. HasSource(src)
  BY DEF HasSource
<1>2. EntryOf(src) \in Live /\ row[EntryOf(src)].src = src
  BY DEF EntryOf
<1>3. EntryOf(src) = id
  BY <1>2 DEF UniqueSource
<1> QED BY <1>1, <1>3 DEF LedgerState, LedgerContent

LEMMA LedgerOfRowNext ==
  ASSUME UniqueSource', NEW src, NEW id \in Live', row'[id].src = src
  PROVE  /\ HasSource(src)'
         /\ LedgerState(src)' = IF row'[id].status = "REVERSED" THEN "reversed" ELSE "posted"
         /\ LedgerContent(src)' = row'[id].lines
<1>1. HasSource(src)'
  BY DEF HasSource
<1>2. EntryOf(src)' \in Live' /\ row'[EntryOf(src)'].src = src
  BY DEF EntryOf
<1>3. EntryOf(src)' = id
  BY <1>2 DEF UniqueSource
<1> QED BY <1>1, <1>3 DEF LedgerState, LedgerContent

LEMMA LedgerOfNone ==
  ASSUME NEW src, ~HasSource(src)
  PROVE  LedgerState(src) = "none" /\ LedgerContent(src) = {}
BY DEF LedgerState, LedgerContent

LEMMA LedgerOfNoneNext ==
  ASSUME NEW src, ~HasSource(src)'
  PROVE  LedgerState(src)' = "none" /\ LedgerContent(src)' = {}
BY DEF LedgerState, LedgerContent

\* What the ledger shows of a source no step touched.
Untouched(src) ==
  LedgerState(src)' = LedgerState(src) /\ LedgerContent(src)' = LedgerContent(src)

\* It shows the same if the rows with that source are the same.
LEMMA SameRows ==
  ASSUME UniqueSource, UniqueSource', NEW src,
         \A i \in Live : row[i].src = src => i \in Live' /\ row'[i] = row[i],
         \A i \in Live' : row'[i].src = src => i \in Live /\ row[i].src = src
  PROVE  Untouched(src)
<1>1. CASE \E i \in Live : row[i].src = src
  <2>1. PICK i \in Live : row[i].src = src
    BY <1>1
  <2>2. i \in Live' /\ row'[i] = row[i]
    BY <2>1
  <2> QED BY <2>1, <2>2, LedgerOfRow, LedgerOfRowNext DEF Untouched
<1>2. CASE ~\E i \in Live : row[i].src = src
  <2>1. ~HasSource(src) /\ ~HasSource(src)'
    BY <1>2 DEF HasSource
  <2> QED BY <2>1, LedgerOfNone, LedgerOfNoneNext DEF Untouched
<1> QED BY <1>1, <1>2

LEMMA QuietLedger ==
  ASSUME IInv, IInv', LeavesPosted, NEW src \in SystemSource
  PROVE  Untouched(src)
<1>1. UniqueSource /\ UniqueSource' /\ RowsKeepBirth /\ RowsKeepBirth'
  BY DEF IInv, RowInv
<1>2. src.doc \notin DraftDocs
  BY DEF SystemSource, SystemDocs
<1>3. \A i \in Live : row[i].src = src => row[i].born = "POSTED"
  BY <1>1, <1>2 DEF IInv, TypeOK, Row, RowsKeepBirth, Live
<1>4. \A i \in Live' : row'[i].src = src => row'[i].born = "POSTED"
  BY <1>1, <1>2 DEF IInv, TypeOK, Row, RowsKeepBirth, Live
<1>5. \A i \in Live : row[i].src = src => i \in Live' /\ row'[i] = row[i]
  BY <1>3 DEF LeavesPosted
<1>6. \A i \in Live' : row'[i].src = src => i \in Live /\ row[i].src = src
  BY <1>4 DEF LeavesPosted
<1> QED BY <1>1, <1>5, <1>6, SameRows

LEMMA PostLedger ==
  ASSUME IInv, IInv', NEW id \in EntryIds, NEW R \in Row, PostsOne(id, R)
  PROVE  /\ LedgerState(R.src) = "none" /\ LedgerState(R.src)' = "posted"
         /\ LedgerContent(R.src)' = R.lines
         /\ \A s \in SystemSource : s # R.src => Untouched(s)
<1>1. UniqueSource /\ UniqueSource'
  BY DEF IInv, RowInv
<1>2. LedgerState(R.src) = "none"
  BY LedgerOfNone DEF PostsOne, SourceIsFree
<1>3. LedgerState(R.src)' = "posted" /\ LedgerContent(R.src)' = R.lines
  BY <1>1, LedgerOfRowNext DEF PostsOne
<1>4. ASSUME NEW s \in SystemSource, s # R.src PROVE Untouched(s)
  <2>1. \A i \in Live : row[i].src = s => i \in Live' /\ row'[i] = row[i]
    BY DEF PostsOne
  <2>2. \A i \in Live' : row'[i].src = s => i \in Live /\ row[i].src = s
    BY <1>4 DEF PostsOne
  <2> QED BY <1>1, <2>1, <2>2, SameRows
<1> QED BY <1>2, <1>3, <1>4

LEMMA ReverseLedger ==
  ASSUME IInv, IInv', NEW base \in Live, NEW id \in EntryIds, NEW R \in Row,
         ReversesOne(base, id, R), NEW src, src = row[base].src
  PROVE  /\ src \in Source
         /\ R.src # src
         /\ src \in SystemSource =>
              /\ LedgerState(src) = "posted" /\ LedgerState(src)' = "reversed"
              /\ LedgerState(R.src) = "none" /\ LedgerState(R.src)' = "posted"
              /\ LedgerContent(src)' = LedgerContent(src)
              /\ LedgerContent(R.src)' = Mirror(LedgerContent(src))
         /\ \A s \in SystemSource : s # R.src /\ s # src => Untouched(s)
<1>1. UniqueSource /\ UniqueSource' /\ RowsKeepBirth
  BY DEF IInv, RowInv
<1>2. row[base].src \in Source /\ row[base] \in Row /\ base # id
  BY <1>1 DEF RowsKeepBirth, IInv, TypeOK, Live, ReversesOne
<1>3. R.src # row[base].src
  BY <1>2 DEF ReversesOne, SourceIsFree, HasSource
<1>4. PICK B : B = [row[base] EXCEPT !.status = "REVERSED", !.reversal = id]
  OBVIOUS
<1>5. /\ B.status = "REVERSED" /\ B.src = row[base].src /\ B.lines = row[base].lines
      /\ row'[base] = B /\ base \in Live'
  BY <1>2, <1>4 DEF ReversesOne, Row
<1>6. ASSUME src \in SystemSource
      PROVE  /\ LedgerState(src) = "posted" /\ LedgerState(src)' = "reversed"
             /\ LedgerState(R.src) = "none" /\ LedgerState(R.src)' = "posted"
             /\ LedgerContent(src)' = LedgerContent(src)
             /\ LedgerContent(R.src)' = Mirror(LedgerContent(src))
  <2>2. row[base].born = "POSTED"
    BY <1>1, <1>2, <1>6 DEF RowsKeepBirth, SystemSource, SystemDocs, Row
  <2>3. row[base].status # "REVERSED"
    BY <1>1, <2>2 DEF RowsKeepBirth, ReversesOne
  <2>4. LedgerState(src) = "posted" /\ LedgerContent(src) = row[base].lines
    BY <1>1, <2>3, LedgerOfRow
  <2>5. LedgerState(src)' = "reversed" /\ LedgerContent(src)' = row[base].lines
    BY <1>1, <1>5, LedgerOfRowNext
  <2>6. LedgerState(R.src) = "none"
    BY LedgerOfNone DEF ReversesOne, SourceIsFree
  <2>7. LedgerState(R.src)' = "posted" /\ LedgerContent(R.src)' = R.lines
    BY <1>1, LedgerOfRowNext DEF ReversesOne
  <2>8. R.lines = Mirror(row[base].lines)
    BY <2>2 DEF ReversesOne
  <2> QED BY <2>4, <2>5, <2>6, <2>7, <2>8
<1>7. ASSUME NEW s \in SystemSource, s # R.src, s # src PROVE Untouched(s)
  <2>1. \A i \in Live : row[i].src = s => i \in Live' /\ row'[i] = row[i]
    BY <1>7 DEF ReversesOne
  <2>2. \A i \in Live' : row'[i].src = s => i \in Live /\ row[i].src = s
    BY <1>5, <1>7 DEF ReversesOne
  <2> QED BY <1>1, <2>1, <2>2, SameRows
<1> QED BY <1>2, <1>3, <1>6, <1>7

StateMap == [src \in SystemSource |-> LedgerState(src)]
ContentMap == [src \in SystemSource |-> LedgerContent(src)]

LEMMA LedgerInit == Init => Ledger!Init
<1> SUFFICES ASSUME Init PROVE Ledger!Init
  OBVIOUS
<1>1. \A src : ~HasSource(src)
  BY DEF Init, HasSource, Live, FreeRow
<1>2. \A src : LedgerState(src) = "none" /\ LedgerContent(src) = {}
  BY <1>1, LedgerOfNone
<1> QED BY <1>2 DEF Ledger!Init, Ledger!Voucher, SystemSource

LEMMA LedgerStep ==
  ASSUME IInv, IInv', [Next]_vars
  PROVE  [Ledger!Next]_<<StateMap, ContentMap>>
<1>1. /\ StateMap = [src \in SystemSource |-> StateMap[src]]
      /\ ContentMap = [src \in SystemSource |-> ContentMap[src]]
      /\ StateMap' = [src \in SystemSource |-> StateMap'[src]]
      /\ ContentMap' = [src \in SystemSource |-> ContentMap'[src]]
  BY DEF StateMap, ContentMap
<1>2. ASSUME \A src \in SystemSource : Untouched(src)
      PROVE  UNCHANGED <<StateMap, ContentMap>>
  BY <1>2 DEF StateMap, ContentMap, Untouched
<1>3. CASE LeavesPosted
  BY <1>2, <1>3, QuietLedger
<1>4. ASSUME NEW id \in EntryIds, NEW R \in Row, PostsOne(id, R)
      PROVE  [Ledger!Next]_<<StateMap, ContentMap>>
  <2>1. PICK src : src = R.src
    OBVIOUS
  <2>2. /\ LedgerState(src) = "none" /\ LedgerState(src)' = "posted"
        /\ LedgerContent(src)' = R.lines
        /\ \A s \in SystemSource : s # src => Untouched(s)
    BY <1>4, <2>1, PostLedger
  <2>3. CASE src \notin SystemSource
    BY <1>2, <2>2, <2>3
  <2>4. CASE src \in SystemSource
    <3>1. /\ StateMap[src] = "none" /\ StateMap'[src] = "posted"
          /\ ContentMap'[src] = R.lines
      BY <2>2, <2>4 DEF StateMap, ContentMap
    <3>2. \A s \in SystemSource \ {src} :
            StateMap'[s] = StateMap[s] /\ ContentMap'[s] = ContentMap[s]
      BY <2>2, <2>4 DEF StateMap, ContentMap, Untouched
    <3>3. /\ StateMap' = [StateMap EXCEPT ![src] = "posted"]
          /\ ContentMap' = [ContentMap EXCEPT ![src] = R.lines]
      BY <1>1, <2>4, <3>1, <3>2
    <3>4. src \in Ledger!Voucher /\ src.rev = 0 /\ R.lines \in SUBSET Line
      BY <1>4, <2>1, <2>4 DEF PostsOne, Ledger!Voucher, SystemSource
    <3>5. Ledger!Post(src)
      BY <3>1, <3>3, <3>4 DEF Ledger!Post, StateMap, ContentMap
    <3> QED BY <3>4, <3>5 DEF Ledger!Next
  <2> QED BY <2>3, <2>4
<1>5. ASSUME NEW base \in Live, NEW id \in EntryIds, NEW R \in Row, ReversesOne(base, id, R)
      PROVE  [Ledger!Next]_<<StateMap, ContentMap>>
  <2>0. PICK src : src = row[base].src
    OBVIOUS
  <2>1. PICK w : w = R.src
    OBVIOUS
  <2>2. /\ src \in Source
        /\ w # src
        /\ src \in SystemSource =>
             /\ LedgerState(src) = "posted" /\ LedgerState(src)' = "reversed"
             /\ LedgerState(w) = "none" /\ LedgerState(w)' = "posted"
             /\ LedgerContent(src)' = LedgerContent(src)
             /\ LedgerContent(w)' = Mirror(LedgerContent(src))
        /\ \A s \in SystemSource : s # w /\ s # src => Untouched(s)
    BY <1>5, <2>0, <2>1, ReverseLedger
  <2>3. w = [doc |-> src.doc, rev |-> src.rev + 1] /\ w \in Source
    BY <1>5, <2>0, <2>1, <2>2 DEF ReversesOne, Reversal, Source
  <2>4. CASE src \notin SystemSource
    <3>1. w \notin SystemSource
      BY <2>2, <2>3, <2>4 DEF SystemSource, Source
    <3> QED BY <1>2, <2>2, <2>4, <3>1
  <2>5. CASE src \in SystemSource
    <3>0. w \in SystemSource /\ src.rev < MaxRev
      BY <2>3, <2>5 DEF SystemSource, Source
    <3>1. /\ StateMap[src] = "posted" /\ StateMap'[src] = "reversed"
          /\ StateMap[w] = "none" /\ StateMap'[w] = "posted"
          /\ ContentMap'[src] = ContentMap[src]
          /\ ContentMap'[w] = Mirror(ContentMap[src])
      BY <2>2, <2>5, <3>0 DEF StateMap, ContentMap
    <3>2. \A s \in SystemSource \ {src, w} :
            StateMap'[s] = StateMap[s] /\ ContentMap'[s] = ContentMap[s]
      BY <2>2, <2>5 DEF StateMap, ContentMap, Untouched
    <3>3. /\ StateMap' = [StateMap EXCEPT ![src] = "reversed", ![w] = "posted"]
          /\ ContentMap' = [ContentMap EXCEPT ![w] = Mirror(ContentMap[src])]
      BY <1>1, <2>2, <2>5, <3>0, <3>1, <3>2
    <3>4. src \in Ledger!Voucher
      BY <2>5 DEF Ledger!Voucher, SystemSource
    <3>5. Ledger!Cancel(src)
      BY <2>3, <3>0, <3>1, <3>3 DEF Ledger!Cancel, Ledger!Swapped, Mirror, StateMap, ContentMap
    <3> QED BY <3>4, <3>5 DEF Ledger!Next
  <2> QED BY <2>4, <2>5
<1> QED BY <1>3, <1>4, <1>5, StepKinds

\* The service posts and cancels each of its documents as DocumentLedger says,
\* whatever drafts, edits, closes and mass reversals race with it.
THEOREM Refinement == Spec => ImplementsLedger
<1>1. Init => Ledger!Init
  BY LedgerInit
<1>2. IInv /\ IInv' /\ [Next]_vars => [Ledger!Next]_<<StateMap, ContentMap>>
  BY LedgerStep
<1> QED BY <1>1, <1>2, Inductive, PTL
        DEF Spec, ImplementsLedger, Ledger!Spec, StateMap, ContentMap

-----------------------------------------------------------------------------
(* Books, and the journal with one request at a time.  Requests that race  *)
(* break each of the next properties (a draft edited while it is reversed, *)
(* a draft inserted while its month closes): AloneInv is what holds of a   *)
(* server that answers one at a time, months that open and the close of    *)
(* the year between its reads and its writes included.                     *)

OneAtATime == \A p, q \in Procs : p = q

YearRequest == [stage : {"idle", "write"}, closing : [Accounts -> Int], result : Int]

BooksTyped ==
  /\ \A b \in DOMAIN amount : amount[b] \in [Accounts -> Int]
  /\ year \in YearRequest

\* What a request has read stays true when no other request runs, though months
\* open and the year closes meanwhile.
Draft(id) == id \in Live /\ row[id].status = "DRAFT"

Relies(r) ==
  /\ r.stage \in {"post", "postWrite"} => Draft(r.id) /\ r.date = row[r.id].date
  /\ r.stage \in {"edit", "editWrite", "delete"} => Draft(r.id)
  /\ r.stage = "setDraft" =>
       r.id \in Live /\ row[r.id].status # "REVERSED" /\ row[r.id].number = 0
  /\ r.stage \in {"reverse", "reverseWrite"} =>
       r.id \in Live /\ r.lines = row[r.id].lines
  /\ r.stage \in {"postWrite", "reverseWrite"} \/ (r.stage = "insert" /\ r.status = "POSTED")
       => ~Shut(MonthOf[r.date])
  /\ r.stage = "close" =>
       \A id \in Live : ~(row[id].status = "DRAFT" /\ MonthOf[row[id].date] = r.period)

AloneInv ==
  /\ NumbersGapless /\ DraftsAreUnnumbered /\ ReversalMirrors
  /\ \A p \in Procs : Relies(req[p])

\* What ShutMonthsStand says of a step.
FirmStays == \A m \in Periods : Shut(m) => FirmLines(m)' = FirmLines(m)
StepIsSound == AloneInv' /\ FirmStays

-----------------------------------------------------------------------------
\* Numbers without gaps, in any table with any counters.
NumbersIn(t, m, j) ==
  {t[id].number : id \in {i \in EntryIds : /\ t[i].status \notin {"FREE", "DELETED"}
                                           /\ t[i].period = m /\ t[i].journal = j}} \ {0}
Gapless(t, s) ==
  \A m \in Periods, j \in Journals : NumbersIn(t, m, j) = 1..s[<<m, j>>]

LEMMA GaplessRows ==
  /\ NumbersGapless <=> Gapless(row, seq)
  /\ NumbersGapless' <=> Gapless(row', seq')
<1>1. \A m, j : NumbersIn(row, m, j) =
        {row[id].number : id \in {i \in Live : row[i].period = m /\ row[i].journal = j}} \ {0}
  BY DEF Live, NumbersIn
<1>2. \A m, j : NumbersIn(row', m, j) =
        {row'[id].number : id \in {i \in Live' : row'[i].period = m /\ row'[i].journal = j}} \ {0}
  BY DEF Live, NumbersIn
<1>3. NumbersGapless <=> Gapless(row, seq)
  BY <1>1 DEF NumbersGapless, Gapless
<1>4. NumbersGapless' <=> Gapless(row', seq')
  BY <1>2 DEF NumbersGapless, Gapless
<1> QED BY <1>3, <1>4

Standing(x) == x.status \notin {"FREE", "DELETED"}
Numbered(x) == Standing(x) /\ x.number # 0
Carries(x, m, j, n) == Numbered(x) /\ x.period = m /\ x.journal = j /\ x.number = n
SameNumber(x, y) == x.period = y.period /\ x.journal = y.journal /\ x.number = y.number

LEMMA CarriedNumbers ==
  ASSUME NEW t, NEW m, NEW j, NEW n
  PROVE  n \in NumbersIn(t, m, j) <=> \E i \in EntryIds : Carries(t[i], m, j, n)
BY DEF NumbersIn, Numbered, Standing, Carries

LEMMA NumberGiven ==
  ASSUME NEW t \in [EntryIds -> Row], NEW s \in [Periods \X Journals -> Nat], Gapless(t, s),
         NEW u \in [EntryIds -> Row], NEW id \in EntryIds,
         NEW m \in Periods, NEW j \in Journals,
         Standing(u[id]), u[id].period = m, u[id].journal = j,
         u[id].number = s[<<m, j>>] + 1, ~Numbered(t[id]),
         \A i \in EntryIds \ {id} : /\ Numbered(u[i]) <=> Numbered(t[i])
                                    /\ Numbered(t[i]) => SameNumber(u[i], t[i])
  PROVE  Gapless(u, [s EXCEPT ![<<m, j>>] = @ + 1])
<1> SUFFICES ASSUME NEW k \in Periods, NEW l \in Journals
             PROVE  NumbersIn(u, k, l) = 1..[s EXCEPT ![<<m, j>>] = @ + 1][<<k, l>>]
  BY DEF Gapless
<1>1. NumbersIn(t, k, l) = 1..s[<<k, l>>] /\ s[<<k, l>>] \in Nat
  BY DEF Gapless
<1>2. \A n : n \in NumbersIn(u, k, l) <=> \E i \in EntryIds : Carries(u[i], k, l, n)
  BY CarriedNumbers
<1>3. \A n : n \in NumbersIn(t, k, l) <=> \E i \in EntryIds : Carries(t[i], k, l, n)
  BY CarriedNumbers
<1>4. Numbered(u[id])
  BY DEF Numbered
<1>7. \A n : \A i \in EntryIds \ {id} : Carries(u[i], k, l, n) <=> Carries(t[i], k, l, n)
  BY DEF Carries, SameNumber
<1>8. \A n : ~Carries(t[id], k, l, n)
  BY DEF Carries
<1>5. CASE k = m /\ l = j
  <2>1. NumbersIn(u, k, l) = NumbersIn(t, k, l) \union {s[<<m, j>>] + 1}
    <3>1. \A n : Carries(u[id], k, l, n) <=> n = s[<<m, j>>] + 1
      BY <1>4, <1>5 DEF Carries
    <3> QED BY <1>2, <1>3, <1>7, <1>8, <3>1
  <2> QED BY <1>1, <1>5, <2>1
<1>6. CASE ~(k = m /\ l = j)
  <2>1. NumbersIn(u, k, l) = NumbersIn(t, k, l)
    <3>1. \A n : ~Carries(u[id], k, l, n)
      BY <1>6 DEF Carries
    <3> QED BY <1>2, <1>3, <1>7, <1>8, <3>1
  <2> QED BY <1>1, <1>6, <2>1
<1> QED BY <1>5, <1>6

LEMMA NumbersKept ==
  ASSUME NEW t, NEW s, Gapless(t, s), NEW u,
         \A i \in EntryIds : /\ Numbered(u[i]) <=> Numbered(t[i])
                             /\ Numbered(t[i]) => SameNumber(u[i], t[i])
  PROVE  Gapless(u, s)
<1> SUFFICES ASSUME NEW k \in Periods, NEW l \in Journals
             PROVE  NumbersIn(u, k, l) = NumbersIn(t, k, l)
  BY DEF Gapless
<1>2. \A n : n \in NumbersIn(u, k, l) <=> \E i \in EntryIds : Carries(u[i], k, l, n)
  BY CarriedNumbers
<1>3. \A n : n \in NumbersIn(t, k, l) <=> \E i \in EntryIds : Carries(t[i], k, l, n)
  BY CarriedNumbers
<1>4. \A n : \A i \in EntryIds : Carries(u[i], k, l, n) <=> Carries(t[i], k, l, n)
  BY DEF Carries, SameNumber
<1> QED BY <1>2, <1>3, <1>4

\* The lines of a month whose numbered entries stay as they are.
LEMMA FirmKept ==
  ASSUME NEW m \in Periods,
         \A i \in EntryIds :
           LET Firm(x) == Numbered(x) /\ MonthOf[x.date] = m
           IN  /\ Firm(row'[i]) <=> Firm(row[i])
               /\ Firm(row[i]) => row'[i].lines = row[i].lines
  PROVE  FirmLines(m)' = FirmLines(m)
<1> DEFINE Firm(x) == Numbered(x) /\ MonthOf[x.date] = m
<1>1. FirmLines(m) = {<<id, row[id].lines>> : id \in {i \in EntryIds : Firm(row[i])}}
  BY DEF FirmLines, Live, Numbered, Standing
<1>2. FirmLines(m)' = {<<id, row'[id].lines>> : id \in {i \in EntryIds : Firm(row'[i])}}
  BY DEF FirmLines, Live, Numbered, Standing
<1>3. /\ {i \in EntryIds : Firm(row'[i])} = {i \in EntryIds : Firm(row[i])}
      /\ \A i \in EntryIds : Firm(row[i]) => row'[i].lines = row[i].lines
  OBVIOUS
<1> HIDE DEF Firm
<1> QED BY <1>1, <1>2, <1>3

\* getOrCreatePeriodByDate opens and closes no month.
LEMMA PeriodKept ==
  ASSUME TypeOK, NEW m \in Periods, GetOrCreatePeriod(m) \/ UNCHANGED period
  PROVE  \A k \in Periods : Shut(k)' <=> Shut(k)
BY DEF GetOrCreatePeriod, TypeOK, PeriodRow, AbsentPeriod, Shut

\* A request that only reads.
LEMMA ReadIsSound ==
  ASSUME IInv, AloneInv, OneAtATime, NEW p \in Procs, NEW R,
         req' = [req EXCEPT ![p] = R], UNCHANGED <<row, seq, period>>, Relies(R)
  PROVE  StepIsSound
<1>1. \A q \in Procs : req'[q] = R
  BY DEF OneAtATime, IInv, TypeOK
<1>2. \A r : Relies(r)' <=> Relies(r)
  <2> TAKE r
  <2>1. Live' = Live /\ \A m : Shut(m)' <=> Shut(m)
    BY DEF Live, Shut
  <2> QED BY <2>1 DEF Relies, Draft
<1>3. \A q \in Procs : Relies(req[q])'
  <2>1. \A q \in Procs : Relies(R)'
    BY <1>2
  <2> QED BY <1>1, <2>1 DEF Relies, Draft
<1>4. NumbersGapless' /\ DraftsAreUnnumbered' /\ ReversalMirrors'
  BY DEF AloneInv, NumbersGapless, DraftsAreUnnumbered, ReversalMirrors, Live
<1>5. FirmStays
  BY DEF FirmStays, FirmLines, Live
<1> QED BY <1>3, <1>4, <1>5 DEF StepIsSound, AloneInv

\* A request that ends, or goes on with the next entry of a mass reversal.
LEMMA EndRelies ==
  ASSUME IInv, OneAtATime, NEW p \in Procs, NEW R, req' = [req EXCEPT ![p] = R],
         R.stage \in {"idle", "mass"}
  PROVE  \A q \in Procs : Relies(req[q])'
<1>1. \A q \in Procs : req'[q] = R
  BY DEF OneAtATime, IInv, TypeOK
<1> QED BY <1>1 DEF Relies

-----------------------------------------------------------------------------
(* The rows a step leaves as they are, as far as numbers and firm lines go. *)
Alike(i) ==
  /\ Numbered(row'[i]) <=> Numbered(row[i])
  /\ Numbered(row[i]) => /\ SameNumber(row'[i], row[i])
                         /\ row'[i].date = row[i].date /\ row'[i].lines = row[i].lines

LEMMA NoneNumbered ==
  ASSUME NumbersGapless, UNCHANGED seq, \A i \in EntryIds : Alike(i)
  PROVE  NumbersGapless' /\ FirmStays
<1>1. NumbersGapless'
  BY GaplessRows, NumbersKept DEF Alike
<1>2. \A m \in Periods : FirmLines(m)' = FirmLines(m)
  BY FirmKept DEF Alike
<1> QED BY <1>1, <1>2 DEF FirmStays

LEMMA OneNumbered ==
  ASSUME TypeOK, TypeOK', NumbersGapless, NEW id \in EntryIds,
         NEW m \in Periods, NEW j \in Journals, AllocateNumber(m, j),
         ~Numbered(row[id]), Standing(row'[id]), row'[id].period = m, row'[id].journal = j,
         row'[id].number = NextNumber(m, j), ~Shut(MonthOf[row'[id].date]),
         \A i \in EntryIds \ {id} : Alike(i)
  PROVE  NumbersGapless' /\ FirmStays
<1>1. NumbersGapless'
  <2>1. Gapless(row, seq)
    BY GaplessRows
  <2>2. Gapless(row', [seq EXCEPT ![<<m, j>>] = @ + 1])
    BY <2>1, NumberGiven DEF Alike, TypeOK, NextNumber
  <2> QED BY <2>2, GaplessRows DEF AllocateNumber
<1>2. ASSUME NEW k \in Periods, Shut(k) PROVE FirmLines(k)' = FirmLines(k)
  <2>1. MonthOf[row'[id].date] # k
    BY <1>2
  <2> QED BY <2>1, FirmKept DEF Alike
<1> QED BY <1>1, <1>2 DEF FirmStays

\* A row inserted, and one born a draft changed, keep reversals and drafts in order.
LEMMA InsertedAlone ==
  ASSUME IInv, AloneInv, NEW id \in EntryIds, row[id].status = "FREE",
         NEW R \in Row, row' = [row EXCEPT ![id] = R], R.reversal = NoId,
         R.status \in {"DRAFT", "POSTED"}, R.status = "DRAFT" => R.number = 0
  PROVE  DraftsAreUnnumbered' /\ ReversalMirrors' /\ \A i \in EntryIds \ {id} : Alike(i)
<1>1. /\ row'[id] = R /\ \A i \in EntryIds \ {id} : row'[i] = row[i]
      /\ Live' = Live \union {id} /\ id \notin Live
  BY DEF IInv, TypeOK, Live
<1>2. DraftsAreUnnumbered'
  BY <1>1 DEF AloneInv, DraftsAreUnnumbered, Live
<1>3. ReversalMirrors'
  BY <1>1 DEF AloneInv, ReversalMirrors, IInv, RowInv, ReversalsBornPosted, Live
<1> QED BY <1>1, <1>2, <1>3 DEF Alike, SameNumber

LEMMA AmendedAlone ==
  ASSUME IInv, AloneInv, NEW id \in Live, row[id].born = "DRAFT", row[id].reversal = NoId,
         NEW R \in Row, row' = [row EXCEPT ![id] = R], R.reversal = NoId,
         R.status # "FREE", R.status = "DRAFT" => R.number = 0
  PROVE  DraftsAreUnnumbered' /\ ReversalMirrors' /\ \A i \in EntryIds \ {id} : Alike(i)
<1>1. /\ id \in EntryIds /\ row'[id] = R /\ \A i \in EntryIds \ {id} : row'[i] = row[i]
      /\ Live' \subseteq Live
  BY DEF IInv, TypeOK, Live
<1>2. DraftsAreUnnumbered'
  BY <1>1 DEF AloneInv, DraftsAreUnnumbered, Live
<1>3. ReversalMirrors'
  <2> SUFFICES ASSUME NEW i \in Live', row'[i].reversal # NoId
               PROVE  /\ row'[i].status = "REVERSED"
                      /\ row'[row'[i].reversal].lines = Mirror(row'[i].lines)
    BY DEF ReversalMirrors
  <2>1. i # id /\ i \in Live /\ row'[i] = row[i]
    BY <1>1 DEF Live
  <2>2. row[i].reversal \in Live /\ row[i].reversal # id
    BY <2>1 DEF IInv, RowInv, ReversalsBornPosted
  <2> QED BY <1>1, <2>1, <2>2 DEF AloneInv, ReversalMirrors, Live
<1> QED BY <1>1, <1>2, <1>3 DEF Alike, SameNumber

-----------------------------------------------------------------------------
(* The handlers, alone. *)

LEMMA RequestTyped ==
  ASSUME TypeOK, NEW p \in Procs
  PROVE  /\ req[p] \in Request /\ req[p].date \in Dates
         /\ MonthOf[req[p].date] \in Periods /\ req[p].journal \in Journals
BY DEF TypeOK, Request

LEMMA CreateAlone ==
  ASSUME IInv, AloneInv, OneAtATime, NEW p \in Procs, PostDocument(p) \/ CreateDraft(p)
  PROVE  StepIsSound
<1>1. PICK src, d, j, st : StartCreate(p, src, d, j, st)
  <2>1. CASE PostDocument(p)
    BY <2>1 DEF PostDocument
  <2>2. CASE CreateDraft(p)
    BY <2>2 DEF CreateDraft
  <2> QED BY <2>1, <2>2
<1>2. PICK R : R = [Idle EXCEPT !.stage = "insert", !.src = src, !.date = d,
                                !.journal = j, !.status = st]
  OBVIOUS
<1>3. R.stage = "insert" /\ R.date = d
  BY <1>2 DEF Idle
<1>4. Relies(R)
  BY <1>1, <1>3 DEF Relies, StartCreate, AssertOpenPeriod, Shut
<1> QED BY <1>1, <1>2, <1>4, ReadIsSound DEF StartCreate

LEMMA InsertAlone ==
  ASSUME IInv, IInv', AloneInv, OneAtATime, NEW p \in Procs, InsertPosted(p) \/ InsertDraft(p)
  PROVE  StepIsSound
<1> DEFINE r == req[p]
           m == MonthOf[r.date]
           n == NextNumber(m, r.journal)
           New(st, k, b) ==
             [status |-> st, born |-> st, src |-> r.src, date |-> r.date, period |-> m,
              journal |-> r.journal, number |-> k, reversal |-> NoId,
              lines |-> {[batch |-> b, sign |-> 1]}]
<1>1. /\ r \in Request /\ m \in Periods /\ r.journal \in Journals /\ r.date \in Dates
      /\ r.stage = "insert"
  BY RequestTyped DEF IInv, InsertPosted, InsertDraft, At
<1>0. TypeOK /\ TypeOK'
  BY DEF IInv
<1>2. \A q \in Procs : Relies(req[q])'
  <2>1. Idle.stage \in {"idle", "mass"}
    BY DEF Idle
  <2> QED BY <2>1, EndRelies DEF InsertPosted, InsertDraft, Finish
<1>4. CASE InsertPosted(p)
  <2>1. PICK id, b : id \in EntryIds /\ row[id].status = "FREE" /\ row' = [row EXCEPT ![id] = New("POSTED", n, b)]
    BY <1>4 DEF InsertPosted
  <2>2. row'[id] = New("POSTED", n, b) /\ row'[id] \in Row
    BY <1>0, <2>1 DEF TypeOK
  <2>3. PICK R \in Row : R = New("POSTED", n, b)
    BY <2>2
  <2>4. /\ R.status = "POSTED" /\ R.reversal = NoId /\ R.period = m /\ R.journal = r.journal
        /\ R.number = n /\ R.date = r.date
    BY <2>3
  <2>5. ~Shut(m)
    BY <1>1, <1>4 DEF AloneInv, Relies, InsertPosted
  <2>6. row' = [row EXCEPT ![id] = R] /\ row'[id] = R
    BY <2>1, <2>2, <2>3
  <2>7. DraftsAreUnnumbered' /\ ReversalMirrors' /\ \A i \in EntryIds \ {id} : Alike(i)
    BY <2>1, <2>4, <2>6, InsertedAlone
  <2>8. AllocateNumber(m, r.journal)
    BY <1>4 DEF InsertPosted
  <2> HIDE DEF m, n, New
  <2>9. NumbersGapless' /\ FirmStays
    <3>1. ~Numbered(row[id]) /\ Standing(row'[id])
      BY <2>1, <2>4, <2>6 DEF Numbered, Standing
    <3>2. ~Shut(MonthOf[row'[id].date]) /\ row'[id].number = NextNumber(m, r.journal)
      BY <2>4, <2>5, <2>6 DEF m, n
    <3> QED BY <1>0, <1>1, <2>1, <2>4, <2>6, <2>7, <2>8, <3>1, <3>2, OneNumbered DEF AloneInv
  <2> QED BY <1>2, <2>7, <2>9 DEF StepIsSound, AloneInv
<1>5. CASE InsertDraft(p)
  <2>1. PICK id, b : id \in EntryIds /\ row[id].status = "FREE" /\ row' = [row EXCEPT ![id] = New("DRAFT", 0, b)]
    BY <1>5 DEF InsertDraft
  <2>2. row'[id] = New("DRAFT", 0, b) /\ row'[id] \in Row
    BY <1>0, <2>1 DEF TypeOK
  <2>3. PICK R \in Row : R = New("DRAFT", 0, b)
    BY <2>2
  <2>4. R.status = "DRAFT" /\ R.reversal = NoId /\ R.number = 0
    BY <2>3
  <2>5. row' = [row EXCEPT ![id] = R] /\ row'[id] = R
    BY <2>1, <2>2, <2>3
  <2>6. DraftsAreUnnumbered' /\ ReversalMirrors' /\ \A i \in EntryIds \ {id} : Alike(i)
    BY <2>1, <2>4, <2>5, InsertedAlone
  <2>7. Alike(id)
    BY <2>1, <2>4, <2>5 DEF Alike, Numbered, Standing
  <2>8. NumbersGapless' /\ FirmStays
    BY <1>5, <2>6, <2>7, NoneNumbered DEF AloneInv, InsertDraft
  <2> QED BY <1>2, <2>6, <2>8 DEF StepIsSound, AloneInv
<1> QED BY <1>4, <1>5

LEMMA PostAlone ==
  ASSUME IInv, IInv', AloneInv, OneAtATime, NEW p \in Procs,
         ReadForPost(p) \/ CheckPost(p) \/ WritePost(p)
  PROVE  StepIsSound
<1>1. CASE ReadForPost(p)
  <2>1. PICK id \in Live :
          /\ row[id].status = "DRAFT"
          /\ req' = [req EXCEPT ![p] =
               [Idle EXCEPT !.stage = "post", !.id = id, !.date = row[id].date,
                            !.journal = row[id].journal]]
    BY <1>1 DEF ReadForPost
  <2>2. PICK R : R = [Idle EXCEPT !.stage = "post", !.id = id, !.date = row[id].date,
                                  !.journal = row[id].journal]
    OBVIOUS
  <2>3. R.stage = "post" /\ R.id = id /\ R.date = row[id].date
    BY <2>2 DEF Idle
  <2>4. Relies(R)
    BY <2>1, <2>3 DEF Relies, Draft
  <2> QED BY <1>1, <2>1, <2>2, <2>4, ReadIsSound DEF ReadForPost
<1>2. CASE CheckPost(p)
  <2>1. PICK R : R = [req[p] EXCEPT !.stage = "postWrite"]
    OBVIOUS
  <2>2. req' = [req EXCEPT ![p] = R]
    BY <1>2, <2>1 DEF CheckPost, IInv, TypeOK
  <2>3. R.stage = "postWrite" /\ R.id = req[p].id /\ R.date = req[p].date
    BY <2>1 DEF IInv, TypeOK, Request
  <2>4. Relies(R)
    BY <1>2, <2>3 DEF AloneInv, Relies, CheckPost, At, AssertOpenPeriod, Shut
  <2> QED BY <1>2, <2>2, <2>4, ReadIsSound DEF CheckPost
<1>3. CASE WritePost(p)
  <2> DEFINE r == req[p]
             m == MonthOf[r.date]
             n == NextNumber(m, r.journal)
             Posted == [row[r.id] EXCEPT !.status = "POSTED", !.period = m,
                                         !.journal = r.journal, !.number = n]
  <2>1. /\ r \in Request /\ m \in Periods /\ r.journal \in Journals /\ r.id \in EntryIds
        /\ row[r.id] \in Row /\ r.stage = "postWrite" /\ r.id \in Live
    <3>1. r \in Request /\ m \in Periods /\ r.journal \in Journals
      BY RequestTyped DEF IInv
    <3>2. r.id \in Live /\ r.stage = "postWrite"
      BY <1>3 DEF WritePost, At
    <3>3. \A id \in Live : id \in EntryIds /\ row[id] \in Row
      BY DEF Live, IInv, TypeOK
    <3> QED BY <3>1, <3>2, <3>3
  <2>0. TypeOK /\ TypeOK'
    BY DEF IInv
  <2>2. /\ row[r.id].status = "DRAFT" /\ row[r.id].date = r.date /\ ~Shut(m)
        /\ row[r.id].number = 0 /\ row[r.id].reversal = NoId /\ row[r.id].born = "DRAFT"
    BY <2>1 DEF AloneInv, Relies, Draft, DraftsAreUnnumbered, ReversalMirrors, IInv,
       RowInv, RowsKeepBirth, Row
  <2>3. row' = [row EXCEPT ![r.id] = Posted] /\ row'[r.id] = Posted
    BY <1>3, <2>0, <2>1 DEF WritePost, TypeOK
  <2>4. PICK R \in Row : R = Posted
    BY <2>0, <2>1, <2>3 DEF TypeOK
  <2>5. /\ R.status = "POSTED" /\ R.reversal = NoId /\ R.period = m /\ R.journal = r.journal
        /\ R.number = n /\ R.date = r.date
    BY <2>1, <2>2, <2>4 DEF Row
  <2>6. DraftsAreUnnumbered' /\ ReversalMirrors' /\ \A i \in EntryIds \ {r.id} : Alike(i)
    BY <2>1, <2>2, <2>3, <2>4, <2>5, AmendedAlone
  <2>7. AllocateNumber(m, r.journal) /\ GetOrCreatePeriod(m) /\ Finish(p)
    BY <1>3 DEF WritePost
  <2>8. NumbersGapless' /\ FirmStays
    <3> HIDE DEF m, n, Posted
    <3>1. ~Numbered(row[r.id]) /\ Standing(row'[r.id])
      BY <2>2, <2>3, <2>4, <2>5 DEF Numbered, Standing
    <3>2. ~Shut(MonthOf[row'[r.id].date]) /\ row'[r.id].number = NextNumber(m, r.journal)
      BY <2>2, <2>3, <2>4, <2>5 DEF m, n
    <3> QED BY <2>0, <2>1, <2>3, <2>4, <2>5, <2>6, <2>7, <3>1, <3>2, OneNumbered DEF AloneInv
  <2>9. \A q \in Procs : Relies(req[q])'
    <3>1. Idle.stage \in {"idle", "mass"}
      BY DEF Idle
    <3> QED BY <2>7, <3>1, EndRelies DEF Finish
  <2> QED BY <2>6, <2>8, <2>9 DEF StepIsSound, AloneInv
<1> QED BY <1>1, <1>2, <1>3

LEMMA EndsIdle ==
  ASSUME IInv, OneAtATime, NEW p \in Procs, Finish(p)
  PROVE  \A q \in Procs : Relies(req[q])'
<1>1. Idle.stage \in {"idle", "mass"}
  BY DEF Idle
<1> QED BY <1>1, EndRelies DEF Finish

LEMMA EditAlone ==
  ASSUME IInv, IInv', AloneInv, OneAtATime, NEW p \in Procs,
         ReadForEdit(p) \/ CheckEdit(p) \/ WriteEdit(p)
  PROVE  StepIsSound
<1>1. CASE ReadForEdit(p)
  <2>1. PICK id \in Live, d \in Dates, j \in Journals :
          /\ row[id].status = "DRAFT"
          /\ req' = [req EXCEPT ![p] =
               [Idle EXCEPT !.stage = "edit", !.id = id, !.date = d, !.journal = j]]
    BY <1>1 DEF ReadForEdit
  <2>2. PICK R : R = [Idle EXCEPT !.stage = "edit", !.id = id, !.date = d, !.journal = j]
    OBVIOUS
  <2>3. R.stage = "edit" /\ R.id = id
    BY <2>2 DEF Idle
  <2>4. Relies(R)
    BY <2>1, <2>3 DEF Relies, Draft
  <2> QED BY <1>1, <2>1, <2>2, <2>4, ReadIsSound DEF ReadForEdit
<1>2. CASE CheckEdit(p)
  <2>1. PICK R : R = [req[p] EXCEPT !.stage = "editWrite", !.lines = row[req[p].id].lines]
    OBVIOUS
  <2>2. req' = [req EXCEPT ![p] = R]
    BY <1>2, <2>1 DEF CheckEdit, IInv, TypeOK
  <2>3. R.stage = "editWrite" /\ R.id = req[p].id
    BY <2>1 DEF IInv, TypeOK, Request
  <2>4. Relies(R)
    BY <1>2, <2>3 DEF AloneInv, Relies, CheckEdit, At
  <2> QED BY <1>2, <2>2, <2>4, ReadIsSound DEF CheckEdit
<1>3. CASE WriteEdit(p)
  <2> DEFINE r == req[p]
             m == MonthOf[r.date]
             Edited(b) == [row[r.id] EXCEPT !.date = r.date, !.period = m,
                             !.journal = r.journal,
                             !.lines = (row[r.id].lines \ r.lines)
                                         \union {[batch |-> b, sign |-> 1]}]
  <2>0. TypeOK /\ TypeOK' /\ r \in Request /\ m \in Periods
    BY RequestTyped DEF IInv
  <2>1. r.id \in Live /\ r.id \in EntryIds /\ row[r.id] \in Row /\ r.stage = "editWrite"
    BY <1>3, <2>0 DEF TypeOK, WriteEdit, At, Live
  <2>2. /\ row[r.id].status = "DRAFT" /\ row[r.id].number = 0
        /\ row[r.id].reversal = NoId /\ row[r.id].born = "DRAFT"
    BY <2>1 DEF AloneInv, Relies, Draft, DraftsAreUnnumbered, ReversalMirrors, IInv,
       RowInv, RowsKeepBirth, Row
  <2>3. PICK b : row' = [row EXCEPT ![r.id] = Edited(b)]
    BY <1>3, <2>0, <2>1 DEF WriteEdit, TypeOK
  <2>4. row'[r.id] = Edited(b) /\ row'[r.id] \in Row
    BY <2>0, <2>1, <2>3 DEF TypeOK
  <2>5. PICK R \in Row : R = Edited(b)
    BY <2>4
  <2>6. R.status = "DRAFT" /\ R.reversal = NoId /\ R.number = 0
    BY <2>1, <2>2, <2>5 DEF Row
  <2>7. row' = [row EXCEPT ![r.id] = R] /\ row'[r.id] = R
    BY <2>3, <2>4, <2>5
  <2> HIDE DEF Edited
  <2>8. DraftsAreUnnumbered' /\ ReversalMirrors' /\ \A i \in EntryIds \ {r.id} : Alike(i)
    BY <2>1, <2>2, <2>6, <2>7, AmendedAlone
  <2>9. Alike(r.id)
    BY <2>2, <2>6, <2>7 DEF Alike, Numbered, Standing
  <2>10. NumbersGapless' /\ FirmStays
    BY <1>3, <2>8, <2>9, NoneNumbered DEF AloneInv, WriteEdit
  <2>12. \A q \in Procs : Relies(req[q])'
    BY <1>3, EndsIdle DEF WriteEdit
  <2> QED BY <2>8, <2>10, <2>12 DEF StepIsSound, AloneInv
<1> QED BY <1>1, <1>2, <1>3

LEMMA DeleteAndDraftAlone ==
  ASSUME IInv, IInv', AloneInv, OneAtATime, NEW p \in Procs,
         ReadForDelete(p) \/ WriteDelete(p) \/ ReadForDraft(p) \/ WriteDraft(p)
  PROVE  StepIsSound
<1>1. CASE ReadForDelete(p)
  <2>1. PICK id \in Live :
          /\ row[id].status = "DRAFT"
          /\ req' = [req EXCEPT ![p] = [Idle EXCEPT !.stage = "delete", !.id = id]]
    BY <1>1 DEF ReadForDelete
  <2>2. PICK R : R = [Idle EXCEPT !.stage = "delete", !.id = id]
    OBVIOUS
  <2>3. R.stage = "delete" /\ R.id = id
    BY <2>2 DEF Idle
  <2>4. Relies(R)
    BY <2>1, <2>3 DEF Relies, Draft
  <2> QED BY <1>1, <2>1, <2>2, <2>4, ReadIsSound DEF ReadForDelete
<1>2. CASE ReadForDraft(p)
  <2>1. PICK id \in Live :
          /\ row[id].status # "REVERSED" /\ row[id].number = 0
          /\ req' = [req EXCEPT ![p] = [Idle EXCEPT !.stage = "setDraft", !.id = id]]
    BY <1>2 DEF ReadForDraft
  <2>2. PICK R : R = [Idle EXCEPT !.stage = "setDraft", !.id = id]
    OBVIOUS
  <2>3. R.stage = "setDraft" /\ R.id = id
    BY <2>2 DEF Idle
  <2>4. Relies(R)
    BY <2>1, <2>3 DEF Relies
  <2> QED BY <1>2, <2>1, <2>2, <2>4, ReadIsSound DEF ReadForDraft
<1>3. CASE WriteDelete(p) \/ WriteDraft(p)
  <2> DEFINE r == req[p]
             R == IF WriteDelete(p) THEN DeletedRow ELSE [row[r.id] EXCEPT !.status = "DRAFT"]
  <2>0. TypeOK /\ TypeOK'
    BY DEF IInv
  <2>1. r.id \in Live /\ r.id \in EntryIds /\ row[r.id] \in Row /\ r.stage \in {"delete", "setDraft"}
    BY <1>3, <2>0 DEF TypeOK, WriteDelete, WriteDraft, At, Live
  <2>2. /\ row[r.id].number = 0
        /\ row[r.id].reversal = NoId /\ row[r.id].born = "DRAFT"
    BY <2>1 DEF AloneInv, Relies, Draft, DraftsAreUnnumbered, ReversalMirrors, IInv,
       RowInv, RowsKeepBirth, Row
  <2>3. row' = [row EXCEPT ![r.id] = R]
    BY <1>3, <2>0, <2>1 DEF WriteDelete, WriteDraft, TypeOK
  <2>4. row'[r.id] = R /\ row'[r.id] \in Row
    BY <2>0, <2>1, <2>3 DEF TypeOK
  <2>5. R.status # "FREE" /\ R.reversal = NoId /\ R.number = 0
    BY <2>1, <2>2 DEF Row, DeletedRow, FreeRow
  <2> HIDE DEF R
  <2>6. DraftsAreUnnumbered' /\ ReversalMirrors' /\ \A i \in EntryIds \ {r.id} : Alike(i)
    BY <2>1, <2>2, <2>3, <2>4, <2>5, AmendedAlone
  <2>7. Alike(r.id)
    BY <2>2, <2>4, <2>5 DEF Alike, Numbered, Standing
  <2>8. NumbersGapless' /\ FirmStays
    BY <1>3, <2>6, <2>7, NoneNumbered DEF AloneInv, WriteDelete, WriteDraft
  <2>10. \A q \in Procs : Relies(req[q])'
    BY <1>3, EndsIdle DEF WriteDelete, WriteDraft
  <2> QED BY <2>6, <2>8, <2>10 DEF StepIsSound, AloneInv
<1> QED BY <1>1, <1>2, <1>3

LEMMA ReadBaseAlone ==
  ASSUME IInv, AloneInv, OneAtATime, NEW p \in Procs, NEW id \in Live, NEW j, NEW todo,
         ReadBase(p, id, j, todo), UNCHANGED <<row, seq, period>>
  PROVE  StepIsSound
<1>1. PICK R : R = [Idle EXCEPT !.stage = "reverse", !.id = id, !.src = row[id].src,
                                !.journal = j, !.lines = row[id].lines, !.todo = todo]
  OBVIOUS
<1>2. R.stage = "reverse" /\ R.id = id /\ R.lines = row[id].lines
  BY <1>1 DEF Idle
<1>3. Relies(R)
  BY <1>2 DEF Relies
<1> QED BY <1>1, <1>3, ReadIsSound DEF ReadBase

LEMMA ReverseAlone ==
  ASSUME IInv, AloneInv, OneAtATime, NEW p \in Procs,
         \/ ReadForReverse(p) \/ ReadForReverseBySource(p)
         \/ CheckReverse(p) \/ ReadForMass(p) \/ NextOfMass(p)
  PROVE  StepIsSound
<1>1. CASE ReadForReverse(p) \/ ReadForReverseBySource(p)
  <2>1. PICK id, j : id \in Live /\ ReadBase(p, id, j, {})
    <3>1. CASE ReadForReverse(p)
      BY <3>1 DEF ReadForReverse
    <3>2. CASE ReadForReverseBySource(p)
      BY <3>2 DEF ReadForReverseBySource
    <3> QED BY <1>1, <3>1, <3>2
  <2> QED BY <1>1, <2>1, ReadBaseAlone DEF ReadForReverse, ReadForReverseBySource
<1>2. CASE CheckReverse(p)
  <2>1. PICK R : R = [req[p] EXCEPT !.stage = "reverseWrite", !.date = today]
    OBVIOUS
  <2>2. req' = [req EXCEPT ![p] = R]
    BY <1>2, <2>1 DEF CheckReverse, IInv, TypeOK
  <2>3. /\ R.stage = "reverseWrite" /\ R.id = req[p].id /\ R.date = today
        /\ R.lines = req[p].lines
    BY <2>1 DEF IInv, TypeOK, Request
  <2>4. Relies(R)
    BY <1>2, <2>3 DEF AloneInv, Relies, CheckReverse, At, AssertOpenPeriod, Shut
  <2> QED BY <1>2, <2>2, <2>4, ReadIsSound DEF CheckReverse
<1>3. CASE ReadForMass(p)
  <2>1. PICK todo : req' = [req EXCEPT ![p] = [Idle EXCEPT !.stage = "mass", !.todo = todo]]
    BY <1>3 DEF ReadForMass
  <2>2. PICK R : R = [Idle EXCEPT !.stage = "mass", !.todo = todo]
    OBVIOUS
  <2>3. R.stage = "mass"
    BY <2>2 DEF Idle
  <2>4. req' = [req EXCEPT ![p] = R] /\ UNCHANGED <<row, seq, period>>
    BY <1>3, <2>1, <2>2 DEF ReadForMass
  <2>5. Relies(R)
    BY <2>3 DEF Relies
  <2> QED BY <2>4, <2>5, ReadIsSound
<1>4. CASE NextOfMass(p)
  <2>1. PICK id \in req[p].todo \intersect Live :
          IF row[id].reversal = NoId
          THEN ReadBase(p, id, row[id].journal, req[p].todo \ {id})
          ELSE req' = [req EXCEPT ![p] =
                 IF req[p].todo \ {id} = {} THEN Idle
                 ELSE [req[p] EXCEPT !.todo = req[p].todo \ {id}]]
    BY <1>4 DEF NextOfMass
  <2>2. CASE row[id].reversal = NoId
    BY <1>4, <2>1, <2>2, ReadBaseAlone DEF NextOfMass
  <2>3. CASE row[id].reversal # NoId
    <3>1. PICK R : R = IF req[p].todo \ {id} = {} THEN Idle
                       ELSE [req[p] EXCEPT !.todo = req[p].todo \ {id}]
      OBVIOUS
    <3>2. R.stage \in {"idle", "mass"}
      BY <1>4, <3>1 DEF NextOfMass, At, Idle, IInv, TypeOK, Request
    <3>3. req' = [req EXCEPT ![p] = R]
      BY <2>1, <2>3, <3>1
    <3>4. Relies(R)
      BY <3>2 DEF Relies
    <3> QED BY <1>4, <3>3, <3>4, ReadIsSound DEF NextOfMass
  <2> QED BY <2>2, <2>3
<1> QED BY <1>1, <1>2, <1>3, <1>4

LEMMA WriteReverseAlone ==
  ASSUME IInv, IInv', AloneInv, OneAtATime, NEW p \in Procs, WriteReverse(p)
  PROVE  StepIsSound
<1> DEFINE r == req[p]
           m == MonthOf[r.date]
           n == NextNumber(m, r.journal)
           New == [status |-> "POSTED", born |-> "POSTED", src |-> Reversal(r.src),
                   date |-> r.date, period |-> m, journal |-> r.journal, number |-> n,
                   reversal |-> NoId, lines |-> Mirror(r.lines)]
           Base(id) == [row[r.id] EXCEPT !.status = "REVERSED", !.reversal = id]
<1>0. TypeOK /\ TypeOK' /\ r \in Request /\ m \in Periods /\ r.journal \in Journals
  BY RequestTyped DEF IInv
<1>1. r.id \in Live /\ r.id \in EntryIds /\ row[r.id] \in Row /\ r.stage = "reverseWrite"
  BY <1>0 DEF TypeOK, WriteReverse, At, Live
<1>2. r.lines = row[r.id].lines /\ ~Shut(m)
  BY <1>1 DEF AloneInv, Relies
<1>3. PICK id \in EntryIds : /\ row[id].status = "FREE"
                             /\ row' = [row EXCEPT ![r.id] = Base(id), ![id] = New]
  BY <1>0, <1>1 DEF WriteReverse, TypeOK
<1>4. /\ id # r.id /\ id \notin Live /\ row'[id] = New /\ row'[r.id] = Base(id)
      /\ \A i \in EntryIds \ {id, r.id} : row'[i] = row[i]
  BY <1>0, <1>1, <1>3 DEF Live, TypeOK
<1>5. PICK R : R = New
  OBVIOUS
<1>6. /\ R.status = "POSTED" /\ R.reversal = NoId /\ R.period = m /\ R.journal = r.journal
      /\ R.number = n /\ R.date = r.date /\ R.lines = Mirror(row[r.id].lines)
  BY <1>2, <1>5
<1>7. PICK B : B = Base(id)
  OBVIOUS
<1>8. /\ B.status = "REVERSED" /\ B.reversal = id /\ B.lines = row[r.id].lines
      /\ B.number = row[r.id].number /\ B.period = row[r.id].period
      /\ B.journal = row[r.id].journal /\ B.date = row[r.id].date
  BY <1>1, <1>7 DEF Row
<1>9. row'[id] = R /\ row'[r.id] = B
  BY <1>4, <1>5, <1>7
<1>10. Live' = Live \union {id}
  BY <1>1, <1>4, <1>6, <1>8, <1>9 DEF Live
<1>11. AllocateNumber(m, r.journal) /\ GetOrCreatePeriod(m)
  BY DEF WriteReverse
<1> HIDE DEF New, Base, m, n
<1>12. DraftsAreUnnumbered'
  BY <1>4, <1>6, <1>8, <1>9, <1>10 DEF AloneInv, DraftsAreUnnumbered, Live
<1>13. ReversalMirrors'
  <2> SUFFICES ASSUME NEW i \in Live', row'[i].reversal # NoId
               PROVE  /\ row'[i].status = "REVERSED"
                      /\ row'[row'[i].reversal].lines = Mirror(row'[i].lines)
    BY DEF ReversalMirrors
  <2>1. i # id
    BY <1>6, <1>9
  <2>2. CASE i = r.id
    BY <2>2, <1>6, <1>8, <1>9
  <2>3. CASE i # r.id
    <3>1. i \in Live /\ row'[i] = row[i]
      BY <2>1, <2>3, <1>4, <1>10 DEF Live
    <3>2. row[i].reversal \in Live /\ row[i].reversal # id
      BY <3>1, <1>4 DEF IInv, RowInv, ReversalsBornPosted
    <3>3. row'[row[i].reversal].lines = row[row[i].reversal].lines
      BY <3>2, <1>4, <1>8, <1>9 DEF Live
    <3> QED BY <3>1, <3>3 DEF AloneInv, ReversalMirrors
  <2> QED BY <2>2, <2>3
<1>14. \A i \in EntryIds \ {id} : Alike(i)
  <2>1. Alike(r.id)
    BY <1>1, <1>8, <1>9 DEF Alike, Numbered, Standing, SameNumber, Live
  <2> QED BY <2>1, <1>4 DEF Alike, SameNumber
<1>15. NumbersGapless' /\ FirmStays
  <2>1. ~Numbered(row[id]) /\ Standing(row'[id])
    BY <1>3, <1>6, <1>9 DEF Numbered, Standing
  <2>2. ~Shut(MonthOf[row'[id].date]) /\ row'[id].number = NextNumber(m, r.journal)
    BY <1>2, <1>6, <1>9 DEF m, n
  <2> QED BY <1>0, <1>6, <1>9, <1>11, <1>14, <2>1, <2>2, OneNumbered DEF AloneInv
<1>17. \A q \in Procs : Relies(req[q])'
  <2>1. PICK Q : Q = IF r.todo = {} THEN Idle ELSE [Idle EXCEPT !.stage = "mass", !.todo = r.todo]
    OBVIOUS
  <2>2. Q.stage \in {"idle", "mass"} /\ req' = [req EXCEPT ![p] = Q]
    BY <2>1 DEF Idle, WriteReverse
  <2> QED BY <2>2, EndRelies
<1> QED BY <1>12, <1>13, <1>15, <1>17 DEF StepIsSound, AloneInv

\* Steps that change months alone.
LEMMA RowsStay ==
  ASSUME AloneInv, UNCHANGED <<row, seq>>
  PROVE  NumbersGapless' /\ DraftsAreUnnumbered' /\ ReversalMirrors' /\ FirmStays
BY DEF AloneInv, NumbersGapless, DraftsAreUnnumbered, ReversalMirrors, FirmStays, FirmLines, Live

LEMMA PeriodAlone ==
  ASSUME IInv, AloneInv, OneAtATime, NEW p \in Procs,
         CountDrafts(p) \/ WriteClose(p) \/ ReadForLock(p) \/ WriteLock(p) \/ Abort(p)
  PROVE  StepIsSound
<1>1. CASE CountDrafts(p)
  <2>1. PICK m \in Periods, f \in BOOLEAN :
          /\ \A id \in Live : ~(MonthOf[row[id].date] = m /\ row[id].status = "DRAFT")
          /\ req' = [req EXCEPT ![p] = [Idle EXCEPT !.stage = "close", !.period = m, !.flag = f]]
    BY <1>1 DEF CountDrafts
  <2>2. PICK R : R = [Idle EXCEPT !.stage = "close", !.period = m, !.flag = f]
    OBVIOUS
  <2>3. R.stage = "close" /\ R.period = m
    BY <2>2 DEF Idle
  <2>4. Relies(R)
    BY <2>1, <2>3 DEF Relies
  <2> QED BY <1>1, <2>1, <2>2, <2>4, ReadIsSound DEF CountDrafts
<1>2. CASE WriteClose(p)
  <2>1. \A id \in Live : ~(row[id].status = "DRAFT" /\ MonthOf[row[id].date] = req[p].period)
    BY <1>2 DEF AloneInv, Relies, WriteClose, At
  <2>4. \A q \in Procs : Relies(req[q])'
    BY <1>2, EndsIdle DEF WriteClose
  <2> QED BY <1>2, <2>4, RowsStay DEF WriteClose, StepIsSound, AloneInv
<1>3. CASE ReadForLock(p)
  <2>1. PICK m \in Periods, f \in BOOLEAN :
          req' = [req EXCEPT ![p] = [Idle EXCEPT !.stage = "lock", !.period = m,
                                       !.flag = f, !.closed = period[m].closedAt]]
    BY <1>3 DEF ReadForLock
  <2>2. PICK R : R = [Idle EXCEPT !.stage = "lock", !.period = m,
                                  !.flag = f, !.closed = period[m].closedAt]
    OBVIOUS
  <2>3. R.stage = "lock"
    BY <2>2 DEF Idle
  <2>4. Relies(R)
    BY <2>3 DEF Relies
  <2> QED BY <1>3, <2>1, <2>2, <2>4, ReadIsSound DEF ReadForLock
<1>4. CASE WriteLock(p)
  <2>1. \A m \in Periods : /\ period'[m].closedAt = period[m].closedAt
                           /\ period'[m].until = period[m].until
    BY <1>4 DEF WriteLock, IInv, TypeOK, PeriodRow
  <2>3. \A q \in Procs : Relies(req[q])'
    BY <1>4, EndsIdle DEF WriteLock
  <2> QED BY <1>4, <2>3, RowsStay DEF WriteLock, StepIsSound, AloneInv
<1>5. CASE Abort(p)
  <2>2. \A q \in Procs : Relies(req[q])'
    BY <1>5, EndsIdle DEF Abort
  <2> QED BY <1>5, <2>2, RowsStay DEF Abort, StepIsSound, AloneInv
<1> QED BY <1>1, <1>2, <1>3, <1>4, <1>5

\* Months that open, and time, break no promise to a request.
LEMMA OpenAlone ==
  ASSUME IInv, AloneInv, UNCHANGED <<row, seq, req>>,
         \/ \E m \in Periods : OpenPeriod(m)
         \/ UNCHANGED period
  PROVE  StepIsSound
<1>1. \A m \in Periods : Shut(m)' => Shut(m)
  <2>1. CASE UNCHANGED period
    BY <2>1 DEF Shut
  <2>2. ASSUME NEW k \in Periods, OpenPeriod(k) PROVE \A m \in Periods : Shut(m)' => Shut(m)
    <3>1. PICK d \in Dates :
            period' = [period EXCEPT ![k] = [period[k] EXCEPT !.status = "OPEN", !.until = d]]
      BY <2>2 DEF OpenPeriod, IInv, TypeOK
    <3>2. period[k] \in PeriodRow /\ d # 0
      BY DEF IInv, TypeOK
    <3>3. period'[k].status = "OPEN" /\ period'[k].until = d
      BY <3>1, <3>2 DEF PeriodRow, IInv, TypeOK
    <3>4. \A m \in Periods \ {k} : period'[m] = period[m]
      BY <3>1 DEF IInv, TypeOK
    <3> QED BY <3>2, <3>3, <3>4 DEF Shut
  <2> QED BY <2>1, <2>2
<1>2. \A q \in Procs : Relies(req[q])'
  <2> SUFFICES ASSUME NEW q \in Procs PROVE Relies(req[q])'
    OBVIOUS
  <2>1. Relies(req[q]) /\ MonthOf[req[q].date] \in Periods /\ req'[q] = req[q] /\ Live' = Live
    BY RequestTyped DEF AloneInv, IInv, Live
  <2> QED BY <1>1, <2>1 DEF Relies, Draft
<1> QED BY <1>1, <1>2, RowsStay DEF StepIsSound, AloneInv

-----------------------------------------------------------------------------
\* Every step of Journal, taken by a request that runs alone.
LEMMA OneStep ==
  ASSUME IInv, IInv', AloneInv, OneAtATime, [Next]_vars
  PROVE  StepIsSound
<1>1. ASSUME NEW p \in Procs, EntryHandler(p) PROVE StepIsSound
  BY <1>1, CreateAlone, InsertAlone, PostAlone, EditAlone, DeleteAndDraftAlone,
     ReverseAlone, WriteReverseAlone, PeriodAlone DEF EntryHandler
<1>2. ASSUME NEW p \in Procs, PeriodHandler(p) PROVE StepIsSound
  BY <1>2, PeriodAlone DEF PeriodHandler
<1>3. ASSUME NEW m \in Periods, OpenPeriod(m) PROVE StepIsSound
  BY <1>3, OpenAlone DEF OpenPeriod
<1>4. CASE Tick
  BY <1>4, OpenAlone DEF Tick
<1>5. CASE UNCHANGED vars
  BY <1>5, OpenAlone DEF vars
<1> QED BY <1>1, <1>2, <1>3, <1>4, <1>5 DEF Next, Step

-----------------------------------------------------------------------------
(* The close of the year: one entry or two, in rows that were free. *)

LEMMA InsertRows ==
  ASSUME TypeOK, TypeOK', RowInv, NEW New \in SUBSET EntryIds,
         \A i \in EntryIds \ New : row'[i] = row[i],
         \A i \in New :
           /\ row[i].status = "FREE"
           /\ row'[i].status = "POSTED" /\ row'[i].born = "POSTED"
           /\ row'[i].src \in Source /\ row'[i].reversal = NoId /\ row'[i].number # 0
           /\ SourceIsFree(row'[i].src)
           /\ NumberIsFree(i, row'[i].period, row'[i].journal, row'[i].number),
         \A i, k \in New :
           row'[i].src = row'[k].src \/ row'[i].number = row'[k].number => i = k
  PROVE  RowInv' /\ RowsEvolve
<1>1. Live' = Live \union New /\ \A i \in New : i \notin Live
  BY DEF Live
<1>2. UniqueSource'
  BY <1>1 DEF RowInv, UniqueSource, SourceIsFree, HasSource, Live
<1>3. UniqueNumber'
  <2> SUFFICES ASSUME NEW a \in Live', NEW b \in Live', row'[a].number # 0,
                      row'[a].number = row'[b].number, row'[a].period = row'[b].period,
                      row'[a].journal = row'[b].journal
               PROVE  a = b
    BY DEF UniqueNumber
  <2>1. \A i \in Live : i \notin New /\ i \in EntryIds /\ row'[i] = row[i]
    BY <1>1 DEF Live
  <2>2. CASE a \in Live /\ b \in Live
    BY <2>1, <2>2 DEF RowInv, UniqueNumber
  <2>3. CASE a \in New /\ b \in New
    BY <2>3
  <2>4. CASE (a \in New /\ b \in Live) \/ (a \in Live /\ b \in New)
    BY <2>1, <2>4 DEF NumberIsFree
  <2> QED BY <1>1, <2>2, <2>3, <2>4
<1>4. RowsKeepBirth'
  BY <1>1 DEF RowInv, RowsKeepBirth, Live
<1>5. ReversalsBornPosted'
  BY <1>1 DEF RowInv, ReversalsBornPosted, Live
<1>6. PostedReversalMirrors'
  BY <1>1 DEF RowInv, PostedReversalMirrors, RowsKeepBirth, ReversalsBornPosted, Live
<1>7. RowsEvolve
  BY <1>1 DEF RowsEvolve
<1> QED BY <1>2, <1>3, <1>4, <1>5, <1>6, <1>7 DEF RowInv

\* What the transaction writes to the table, with k entries.
YearRows(New, k) ==
  LET m == MonthOf[YearEnd]
      j == JournalOf[YearClose]
      n == NextNumber(m, j)
  IN  /\ \A i \in EntryIds \ New : row'[i] = row[i]
      /\ \A i \in New : /\ row[i].status = "FREE"
                         /\ NumberIsFree(i, m, j, row'[i].number)
      /\ k \in {1, 2}
      /\ \E id1, id2 \in EntryIds, b1, b2 \in Batches :
           /\ id1 # id2
           /\ New = IF k = 1 THEN {id1} ELSE {id1, id2}
           /\ row'[id1] = YearEntry(YearClose, b1, n)
           /\ k = 2 => row'[id2] = YearEntry(YearEquity, b2, n + 1)

LEMMA YearTyped ==
  ASSUME BooksAssumption, TypeOK
  PROVE  /\ YearClose \in PostDocs /\ YearEquity \in PostDocs
         /\ YearEnd \in Dates /\ MonthOf[YearEnd] \in Periods
         /\ JournalOf[YearClose] \in Journals
         /\ JournalOf[YearEquity] = JournalOf[YearClose]
         /\ NextNumber(MonthOf[YearEnd], JournalOf[YearClose]) \in Nat \ {0}
BY DEF BooksAssumption, NextNumber, TypeOK

LEMMA YearEntryTyped ==
  ASSUME BooksAssumption, TypeOK, NEW doc \in {YearClose, YearEquity},
         NEW b \in Batches, NEW n \in Nat, NEW E, E = YearEntry(doc, b, n)
  PROVE  /\ E \in Row
         /\ E.status = "POSTED" /\ E.born = "POSTED" /\ E.reversal = NoId
         /\ E.src = [doc |-> doc, rev |-> 0] /\ E.src \in Source
         /\ E.number = n /\ E.date = YearEnd /\ E.period = MonthOf[YearEnd]
         /\ E.journal = JournalOf[YearClose]
<1>1. [doc |-> doc, rev |-> 0] \in Source
  BY YearTyped DEF Source, Docs
<1>2. {[batch |-> b, sign |-> 1]} \in SUBSET Line
  BY DEF Line
<1> QED BY <1>1, <1>2, YearTyped DEF YearEntry, Row

LEMMA WriteYearRows ==
  ASSUME BooksAssumption, TypeOK, WriteYear
  PROVE  \E New \in SUBSET EntryIds, k \in {1, 2} :
           /\ YearRows(New, k)
           /\ seq' = [seq EXCEPT ![<<MonthOf[YearEnd], JournalOf[YearClose]>>] = @ + k]
           /\ row' \in [EntryIds -> Row]
<1> DEFINE m == MonthOf[YearEnd]
           j == JournalOf[YearClose]
           n == NextNumber(m, j)
           k == IF year.result = 0 THEN 1 ELSE 2
<1>0. \E id1, id2 \in EntryIds, b1, b2 \in FreshBatches : InsertYear(id1, id2, b1, b2, n, k)
  BY DEF WriteYear
<1>1. PICK id1 \in EntryIds, id2 \in EntryIds, b1 \in FreshBatches, b2 \in FreshBatches :
        InsertYear(id1, id2, b1, b2, n, k)
  BY <1>0
<1>2. b1 \in Batches /\ b2 \in Batches /\ n \in Nat /\ n + 1 \in Nat
  BY YearTyped DEF FreshBatches
<1>3. PICK E1, E2 : E1 = YearEntry(YearClose, b1, n) /\ E2 = YearEntry(YearEquity, b2, n + 1)
  OBVIOUS
<1>4. E1 \in Row /\ E2 \in Row /\ E1.number = n /\ E2.number = n + 1
  BY <1>2, <1>3, YearEntryTyped
<1>5. PICK K \in {1, 2} : K = k
  OBVIOUS
<1>6. row' = [row EXCEPT ![id1] = E1, ![id2] = IF K = 2 THEN E2 ELSE row[id2]]
  BY <1>1, <1>3, <1>5 DEF TypeOK, InsertYear
<1>7. /\ row'[id1] = E1 /\ row'[id2] = IF K = 2 THEN E2 ELSE row[id2]
      /\ \A i \in EntryIds \ {id1, id2} : row'[i] = row[i]
      /\ row' \in [EntryIds -> Row]
  BY <1>1, <1>4, <1>6 DEF TypeOK, InsertYear
<1>8. PICK New \in SUBSET EntryIds : New = IF K = 1 THEN {id1} ELSE {id1, id2}
  OBVIOUS
<1>9. YearRows(New, K)
  <2>1. \A i \in EntryIds \ New : row'[i] = row[i]
    BY <1>7, <1>8
  <2>2. \A i \in New : row[i].status = "FREE" /\ NumberIsFree(i, m, j, row'[i].number)
    BY <1>1, <1>4, <1>5, <1>7, <1>8 DEF InsertYear
  <2>3. /\ row'[id1] = YearEntry(YearClose, b1, n)
        /\ K = 2 => row'[id2] = YearEntry(YearEquity, b2, n + 1)
    BY <1>3, <1>7
  <2>4. New = IF K = 1 THEN {id1} ELSE {id1, id2}
    BY <1>8
  <2>5. id1 # id2
    BY <1>1 DEF InsertYear
  <2> HIDE DEF n
  <2>6. \E i1, i2 \in EntryIds, a1, a2 \in Batches :
           /\ i1 # i2
           /\ New = IF K = 1 THEN {i1} ELSE {i1, i2}
           /\ row'[i1] = YearEntry(YearClose, a1, n)
           /\ K = 2 => row'[i2] = YearEntry(YearEquity, a2, n + 1)
    BY <1>2, <2>3, <2>4, <2>5
  <2> USE DEF n
  <2> QED BY <2>1, <2>2, <2>6 DEF YearRows
<1>10. seq' = [seq EXCEPT ![<<m, j>>] = @ + K]
  BY <1>5 DEF WriteYear
<1> QED BY <1>7, <1>9, <1>10

\* A row of the close: an entry with the source and the number of one of the two.
YearRow(x, doc, n) ==
  /\ x \in Row /\ x.status = "POSTED" /\ x.born = "POSTED" /\ x.reversal = NoId
  /\ x.src = [doc |-> doc, rev |-> 0] /\ x.src \in Source /\ x.number = n
  /\ x.date = YearEnd /\ x.period = MonthOf[YearEnd] /\ x.journal = JournalOf[YearClose]

LEMMA NewYearRows ==
  ASSUME BooksAssumption, TypeOK, NEW New \in SUBSET EntryIds, NEW k \in {1, 2}, YearRows(New, k),
         NEW n \in Nat \ {0}, n = NextNumber(MonthOf[YearEnd], JournalOf[YearClose])
  PROVE  \E id1, id2 \in EntryIds :
           /\ id1 # id2 /\ New = IF k = 1 THEN {id1} ELSE {id1, id2}
           /\ YearRow(row'[id1], YearClose, n)
           /\ k = 2 => YearRow(row'[id2], YearEquity, n + 1)
<1> DEFINE N == NextNumber(MonthOf[YearEnd], JournalOf[YearClose])
<1>0. PICK id1 \in EntryIds, id2 \in EntryIds, b1 \in Batches, b2 \in Batches :
        /\ id1 # id2
        /\ New = IF k = 1 THEN {id1} ELSE {id1, id2}
        /\ row'[id1] = YearEntry(YearClose, b1, N)
        /\ k = 2 => row'[id2] = YearEntry(YearEquity, b2, N + 1)
  BY DEF YearRows
<1>1. /\ row'[id1] = YearEntry(YearClose, b1, n)
      /\ k = 2 => row'[id2] = YearEntry(YearEquity, b2, n + 1)
  BY <1>0
<1>2. n \in Nat /\ n + 1 \in Nat
  OBVIOUS
<1>3. YearRow(row'[id1], YearClose, n)
  BY <1>1, <1>2, YearEntryTyped DEF YearRow
<1>4. k = 2 => YearRow(row'[id2], YearEquity, n + 1)
  BY <1>1, <1>2, YearEntryTyped DEF YearRow
<1> QED BY <1>0, <1>3, <1>4

LEMMA WriteYearKeeps ==
  ASSUME BooksAssumption, IInv, WriteYear
  PROVE  IInv'
<1> DEFINE m == MonthOf[YearEnd]
           j == JournalOf[YearClose]
<1>0. TypeOK /\ RowInv /\ RequestsHold
  BY DEF IInv
<1>1. PICK New \in SUBSET EntryIds, k \in {1, 2} :
        /\ YearRows(New, k)
        /\ seq' = [seq EXCEPT ![<<m, j>>] = @ + k]
        /\ row' \in [EntryIds -> Row]
  BY <1>0, WriteYearRows
<1>2. TypeOK'
  <2>1. period' \in [Periods -> PeriodRow]
    BY <1>0, YearTyped, PeriodStep DEF WriteYear
  <2>2. seq' \in [Periods \X Journals -> Nat]
    BY <1>0, <1>1, YearTyped DEF TypeOK
  <2> QED BY <1>0, <1>1, <2>1, <2>2 DEF WriteYear, TypeOK
<1>3. SourceIsFree([doc |-> YearClose, rev |-> 0]) /\ SourceIsFree([doc |-> YearEquity, rev |-> 0])
  BY DEF WriteYear
<1>4. RowInv' /\ RowsEvolve
  <2>1. PICK n \in Nat \ {0} : n = NextNumber(m, j)
    BY <1>0, YearTyped
  <2>2. PICK id1 \in EntryIds, id2 \in EntryIds :
          /\ id1 # id2 /\ New = IF k = 1 THEN {id1} ELSE {id1, id2}
          /\ YearRow(row'[id1], YearClose, n)
          /\ k = 2 => YearRow(row'[id2], YearEquity, n + 1)
    BY <1>0, <1>1, <2>1, NewYearRows
  <2>3. n # 0 /\ n + 1 # 0 /\ n # n + 1
    OBVIOUS
  <2>4. [doc |-> YearClose, rev |-> 0] # [doc |-> YearEquity, rev |-> 0]
    BY DEF BooksAssumption
  <2>5. \A i \in New : \/ i = id1 /\ YearRow(row'[i], YearClose, n)
                       \/ i = id2 /\ YearRow(row'[i], YearEquity, n + 1)
    BY <2>2
  <2>6. \A i \in New :
           /\ row[i].status = "FREE"
           /\ row'[i].status = "POSTED" /\ row'[i].born = "POSTED"
           /\ row'[i].src \in Source /\ row'[i].reversal = NoId /\ row'[i].number # 0
           /\ SourceIsFree(row'[i].src)
           /\ NumberIsFree(i, row'[i].period, row'[i].journal, row'[i].number)
    BY <1>1, <1>3, <2>3, <2>5 DEF YearRows, YearRow
  <2>7. \A i, h \in New :
           row'[i].src = row'[h].src \/ row'[i].number = row'[h].number => i = h
    BY <2>3, <2>4, <2>5 DEF YearRow
  <2>8. \A i \in EntryIds \ New : row'[i] = row[i]
    BY <1>1 DEF YearRows
  <2> QED BY <1>0, <1>2, <2>6, <2>7, <2>8, InsertRows
<1>5. RequestsHold'
  BY <1>0, <1>4, OthersHold DEF WriteYear, RequestsHold
<1> QED BY <1>2, <1>4, <1>5 DEF IInv

LEMMA RowGiven ==
  ASSUME NEW t \in [EntryIds -> Row], NEW s \in [Periods \X Journals -> Nat], Gapless(t, s),
         NEW u \in [EntryIds -> Row], NEW id \in EntryIds,
         NEW m \in Periods, NEW j \in Journals,
         Standing(u[id]), u[id].period = m, u[id].journal = j,
         u[id].number = s[<<m, j>>] + 1, ~Numbered(t[id]),
         \A i \in EntryIds \ {id} : u[i] = t[i]
  PROVE  Gapless(u, [s EXCEPT ![<<m, j>>] = @ + 1])
<1>1. \A i \in EntryIds \ {id} : /\ Numbered(u[i]) <=> Numbered(t[i])
                                 /\ Numbered(t[i]) => SameNumber(u[i], t[i])
  BY DEF SameNumber
<1> QED BY <1>1, NumberGiven

LEMMA TwoNumbered ==
  ASSUME TypeOK, TypeOK', NumbersGapless, NEW id1 \in EntryIds, NEW id2 \in EntryIds, id1 # id2,
         NEW m \in Periods, NEW j \in Journals, seq' = [seq EXCEPT ![<<m, j>>] = @ + 2],
         ~Numbered(row[id1]), ~Numbered(row[id2]),
         Standing(row'[id1]), row'[id1].period = m, row'[id1].journal = j,
         row'[id1].number = NextNumber(m, j),
         Standing(row'[id2]), row'[id2].period = m, row'[id2].journal = j,
         row'[id2].number = NextNumber(m, j) + 1,
         \A i \in EntryIds \ {id1, id2} : row'[i] = row[i]
  PROVE  NumbersGapless'
<1> DEFINE t == [row EXCEPT ![id1] = row'[id1]]
           s == [seq EXCEPT ![<<m, j>>] = @ + 1]
<1>1. /\ t \in [EntryIds -> Row] /\ s \in [Periods \X Journals -> Nat]
      /\ t[id1] = row'[id1] /\ \A i \in EntryIds \ {id1} : t[i] = row[i]
      /\ s[<<m, j>>] = seq[<<m, j>>] + 1
      /\ seq' = [s EXCEPT ![<<m, j>>] = @ + 1]
  BY DEF TypeOK
<1> HIDE DEF t, s
<1>2. Gapless(row, seq)
  BY GaplessRows
<1>3. Gapless(t, [seq EXCEPT ![<<m, j>>] = @ + 1])
  <2>1. t[id1].number = seq[<<m, j>>] + 1 /\ Standing(t[id1]) /\ t[id1].period = m /\ t[id1].journal = j
    BY <1>1 DEF NextNumber
  <2>2. row \in [EntryIds -> Row] /\ seq \in [Periods \X Journals -> Nat]
    BY DEF TypeOK
  <2> QED BY <1>1, <1>2, <2>1, <2>2, RowGiven
<1>4. Gapless(t, s)
  BY <1>3 DEF s
<1>5. Gapless(row', [s EXCEPT ![<<m, j>>] = @ + 1])
  <2>1. row'[id2].number = s[<<m, j>>] + 1
    BY <1>1 DEF NextNumber, TypeOK
  <2>2. ~Numbered(t[id2])
    BY <1>1
  <2>3. \A i \in EntryIds \ {id2} : row'[i] = t[i]
    BY <1>1
  <2>4. row' \in [EntryIds -> Row]
    BY DEF TypeOK
  <2> QED BY <1>1, <1>4, <2>1, <2>2, <2>3, <2>4, RowGiven
<1> QED BY <1>1, <1>5, GaplessRows

LEMMA WriteYearAlone ==
  ASSUME BooksAssumption, IInv, IInv', AloneInv, OneAtATime, WriteYear
  PROVE  StepIsSound
<1> DEFINE m == MonthOf[YearEnd]
           j == JournalOf[YearClose]
<1>0. TypeOK /\ TypeOK' /\ m \in Periods /\ j \in Journals /\ YearEnd \in Dates
  BY YearTyped DEF IInv
<1>1. PICK New \in SUBSET EntryIds, k \in {1, 2} :
        /\ YearRows(New, k)
        /\ seq' = [seq EXCEPT ![<<m, j>>] = @ + k]
  BY <1>0, WriteYearRows
<1>2. PICK n \in Nat \ {0} : n = NextNumber(m, j)
  BY <1>0, YearTyped
<1>3. PICK id1 \in EntryIds, id2 \in EntryIds :
        /\ id1 # id2 /\ New = IF k = 1 THEN {id1} ELSE {id1, id2}
        /\ YearRow(row'[id1], YearClose, n)
        /\ k = 2 => YearRow(row'[id2], YearEquity, n + 1)
  BY <1>0, <1>1, <1>2, NewYearRows
<1>4. /\ \A i \in EntryIds \ New : row'[i] = row[i]
      /\ \A i \in New : row[i].status = "FREE"
  BY <1>1 DEF YearRows
<1>5. \A i \in New : /\ row'[i].status = "POSTED" /\ row'[i].reversal = NoId
                     /\ row'[i].date = YearEnd
  BY <1>3 DEF YearRow
<1>6. Live' = Live \union New /\ \A i \in New : i \notin Live
  BY <1>4, <1>5 DEF Live
<1>7. ~Shut(m) /\ \A l \in Periods : (Shut(l)' <=> Shut(l))
  BY <1>0, PeriodKept DEF WriteYear, AssertOpenPeriod, Shut
<1> HIDE DEF m, j
<1>8. DraftsAreUnnumbered'
  BY <1>4, <1>5, <1>6 DEF AloneInv, DraftsAreUnnumbered, Live
<1>9. ReversalMirrors'
  BY <1>4, <1>5, <1>6 DEF AloneInv, ReversalMirrors, IInv, RowInv, ReversalsBornPosted, Live
<1>10. NumbersGapless'
  <2>1. \A i \in New : ~Numbered(row[i]) /\ Standing(row'[i])
    BY <1>4, <1>5 DEF Numbered, Standing
  <2>2. row'[id1].number = n /\ row'[id1].period = m /\ row'[id1].journal = j
    BY <1>3 DEF YearRow, m, j
  <2>3. CASE k = 1
    <3>1. New = {id1} /\ seq' = [seq EXCEPT ![<<m, j>>] = @ + 1]
      BY <1>1, <1>3, <2>3
    <3>2. Gapless(row, seq)
      BY GaplessRows DEF AloneInv
    <3>3. Gapless(row', [seq EXCEPT ![<<m, j>>] = @ + 1])
      <4>1. row \in [EntryIds -> Row] /\ row' \in [EntryIds -> Row] /\ seq \in [Periods \X Journals -> Nat]
        BY <1>0 DEF TypeOK
      <4>2. row'[id1].number = seq[<<m, j>>] + 1
        BY <1>2, <2>2 DEF NextNumber
      <4> QED BY <1>0, <1>4, <2>1, <2>2, <3>1, <3>2, <4>1, <4>2, RowGiven
    <3> QED BY <3>1, <3>3, GaplessRows
  <2>4. CASE k = 2
    <3>1. New = {id1, id2} /\ seq' = [seq EXCEPT ![<<m, j>>] = @ + 2]
      BY <1>1, <1>3, <2>4
    <3>2. row'[id2].number = n + 1 /\ row'[id2].period = m /\ row'[id2].journal = j
      BY <1>3, <2>4 DEF YearRow, m, j
    <3>3. id1 # id2 /\ ~Numbered(row[id1]) /\ ~Numbered(row[id2])
          /\ Standing(row'[id1]) /\ Standing(row'[id2])
          /\ \A i \in EntryIds \ {id1, id2} : row'[i] = row[i]
      BY <1>3, <1>4, <2>1, <3>1
    <3>4. NumbersGapless
      BY DEF AloneInv
    <3>5. row'[id1].number = NextNumber(m, j) /\ row'[id2].number = NextNumber(m, j) + 1
      BY <1>2, <2>2, <3>2
    <3> QED BY <1>0, <2>2, <3>1, <3>2, <3>3, <3>4, <3>5, TwoNumbered
  <2> QED BY <2>3, <2>4
<1>11. FirmStays
  <2> SUFFICES ASSUME NEW l \in Periods, Shut(l) PROVE FirmLines(l)' = FirmLines(l)
    BY DEF FirmStays
  <2>1. \A i \in New : MonthOf[row'[i].date] # l /\ ~Numbered(row[i])
    BY <1>4, <1>5, <1>7 DEF m, Numbered, Standing
  <2> QED BY <1>4, <2>1, FirmKept
<1>13. \A q \in Procs : Relies(req[q])'
  <2> SUFFICES ASSUME NEW q \in Procs PROVE Relies(req[q])'
    OBVIOUS
  <2>1. Relies(req[q]) /\ MonthOf[req[q].date] \in Periods /\ req'[q] = req[q]
    BY <1>0, RequestTyped DEF AloneInv, WriteYear
  <2>2. \A i \in Live : i \in Live' /\ row'[i] = row[i]
    BY <1>4, <1>6 DEF Live
  <2>3. \A i \in Live' : row'[i].status = "DRAFT" => i \in Live /\ row[i].status = "DRAFT"
    BY <1>5, <1>6, <2>2
  <2> QED BY <1>7, <2>1, <2>2, <2>3 DEF Relies, Draft
<1> QED BY <1>8, <1>9, <1>10, <1>11, <1>13 DEF StepIsSound, AloneInv

-----------------------------------------------------------------------------
(* The specification of Books. *)

\* Sums of amounts are over finite sets, and integers.
LEMMA LinesFinite ==
  ASSUME BooksAssumption, NEW ls \in SUBSET Line
  PROVE  IsFiniteSet(ls)
<1> DEFINE f == [l \in Line |-> <<l.batch, l.sign>>]
<1>1. IsFiniteSet(Batches \X {1, -1})
  <2>1. IsFiniteSet({1, -1})
    <3>1. \A x : IsFiniteSet({1} \union {x})
      BY FS_Singleton, FS_AddElement
    <3>2. IsFiniteSet({1} \union {-1}) /\ {1} \union {-1} = {1, -1}
      BY <3>1
    <3> QED BY <3>2
  <2> QED BY <2>1, FS_Product DEF BooksAssumption
<1>2. f \in Injection(Line, Batches \X {1, -1})
  BY DEF Line, Injection, IsInjective
<1>3. IsFiniteSet(Line)
  BY <1>1, <1>2, FS_Injection
<1> QED BY <1>3, FS_Subset

LEMMA LineAmountTyped ==
  ASSUME BooksAssumption, BooksTyped, NEW l \in Line, NEW a \in Accounts
  PROVE  LineAmount(l, a) \in Int
<1>1. (IF l.batch \in DOMAIN amount THEN amount[l.batch] ELSE Content) \in [Accounts -> Int]
  BY DEF BooksAssumption, BooksTyped
<1>2. l.sign \in {1, -1}
  BY DEF Line
<1> QED BY <1>1, <1>2 DEF LineAmount

LEMMA EntryAmountTyped ==
  ASSUME BooksAssumption, TypeOK, BooksTyped, NEW id \in EntryIds, NEW a \in Accounts
  PROVE  EntryAmount(id, a) \in Int
<1> DEFINE ls == row[id].lines
           f == [l \in ls |-> LineAmount(l, a)]
<1>1. ls \in SUBSET Line
  BY DEF TypeOK, Row
<1>2. \A l \in ls : f[l] \in Int
  BY <1>1, LineAmountTyped
<1>3. IsFiniteSet(ls) /\ DOMAIN f = ls
  BY <1>1, LinesFinite
<1> HIDE DEF f
<1>4. SumFunctionOnSet(f, ls) \in Int
  BY <1>2, <1>3, SumType
<1> QED BY <1>3, <1>4 DEF EntryAmount, SumFunction, f

LEMMA SumsTyped ==
  ASSUME BooksAssumption, TypeOK, BooksTyped, NEW ids \in SUBSET EntryIds, NEW a \in Accounts
  PROVE  Sums(ids, a) \in Int
<1> DEFINE f == [id \in ids |-> EntryAmount(id, a)]
<1>1. \A id \in ids : f[id] \in Int
  BY EntryAmountTyped
<1>2. IsFiniteSet(ids) /\ DOMAIN f = ids
  BY FS_Subset DEF BooksAssumption
<1> HIDE DEF f
<1>3. SumFunctionOnSet(f, ids) \in Int
  BY <1>1, <1>2, SumType
<1> QED BY <1>2, <1>3 DEF Sums, SumFunction, f

LEMMA YearIdle == NoYear \in YearRequest
BY DEF NoYear, YearRequest

LEMMA ReadYearTyped ==
  ASSUME BooksAssumption, TypeOK, BooksTyped, ReadYear
  PROVE  BooksTyped'
<1> DEFINE posted == PostedIn(0, YearEnd)
           sums == [a \in ResultAccounts |-> Sums(posted, a)]
           f == [a \in ResultAccounts |-> AccountBalance(a, sums[a])]
           result == SumFunction(f)
           closing == [a \in Accounts |->
                         IF a \in ResultAccounts THEN ClosingLine(a, sums[a])
                         ELSE IF a = YearResult THEN result ELSE 0]
<1>1. year' = [stage |-> "write", closing |-> closing, result |-> result] /\ amount' = amount
  BY DEF ReadYear
<1>2. \A a \in ResultAccounts : a \in Accounts /\ sums[a] \in Int
  <2>1. posted \in SUBSET EntryIds
    BY DEF PostedIn, Live
  <2>2. ResultAccounts \subseteq Accounts
    BY DEF BooksAssumption
  <2> QED BY <2>1, <2>2, SumsTyped
<1>3. \A a \in ResultAccounts : AccountBalance(a, sums[a]) \in Int
  BY <1>2 DEF AccountBalance
<1> HIDE DEF sums
<1>4. result \in Int
  <2>1. IsFiniteSet(ResultAccounts) /\ DOMAIN f = ResultAccounts
    BY FS_Subset DEF BooksAssumption
  <2>2. \A a \in ResultAccounts : f[a] \in Int
    BY <1>3
  <2> HIDE DEF f
  <2>3. SumFunctionOnSet(f, ResultAccounts) \in Int
    BY <2>1, <2>2, SumType
  <2> QED BY <2>1, <2>3 DEF SumFunction
<1> HIDE DEF result
<1>5. closing \in [Accounts -> Int]
  BY <1>3, <1>4 DEF ClosingLine
<1> HIDE DEF closing
<1>6. year' \in YearRequest
  BY <1>1, <1>4, <1>5 DEF YearRequest
<1> QED BY <1>1, <1>6 DEF BooksTyped

LEMMA WriteYearTyped ==
  ASSUME BooksAssumption, TypeOK, BooksTyped, WriteYear
  PROVE  BooksTyped'
<1>1. /\ year.closing \in [Accounts -> Int] /\ year.result \in Int
      /\ \A b \in DOMAIN amount : amount[b] \in [Accounts -> Int]
  BY DEF BooksTyped, YearRequest
<1>2. EquityLines(year.result) \in [Accounts -> Int]
  BY <1>1 DEF EquityLines
<1>3. PICK b1, b2, new :
        amount' = [b \in DOMAIN amount \union new |->
                     IF b = b1 THEN year.closing
                     ELSE IF b = b2 THEN EquityLines(year.result)
                     ELSE amount[b]]
              /\ new \subseteq {b1, b2}
  <2> DEFINE Fills(b1, b2, new) ==
        amount' = [b \in DOMAIN amount \union new |->
                     IF b = b1 THEN year.closing
                     ELSE IF b = b2 THEN EquityLines(year.result)
                     ELSE amount[b]]
  <2>1. PICK b1, b2, id1, id2, n, k : InsertYear(id1, id2, b1, b2, n, k)
    BY DEF WriteYear
  <2>2. Fills(b1, b2, IF k = 2 THEN {b1, b2} ELSE {b1})
    BY <2>1 DEF InsertYear
  <2> HIDE DEF Fills
  <2>3. \E new : Fills(b1, b2, new) /\ new \subseteq {b1, b2}
    BY <2>2
  <2> QED BY <2>3 DEF Fills
<1>5. \A b \in DOMAIN amount' : amount'[b] \in [Accounts -> Int]
  <2> SUFFICES ASSUME NEW b \in DOMAIN amount' PROVE amount'[b] \in [Accounts -> Int]
    OBVIOUS
  <2>1. CASE b \in {b1, b2}
    BY <1>1, <1>2, <1>3, <2>1
  <2>2. CASE b \notin {b1, b2}
    BY <1>1, <1>3, <2>2
  <2> QED BY <2>1, <2>2
<1>6. year' \in YearRequest
  BY YearIdle DEF WriteYear
<1> QED BY <1>5, <1>6 DEF BooksTyped

LEMMA BooksSteps ==
  ASSUME [BooksNext]_booksVars
  PROVE  \/ [Next]_vars /\ UNCHANGED <<amount, year>>
         \/ ReadYear \/ WriteYear \/ AbortYear
BY DEF BooksNext, booksVars, Posts, Next, Step, PeriodHandler, vars

LEMMA BooksStep ==
  ASSUME BooksAssumption, IInv, BooksTyped, [BooksNext]_booksVars
  PROVE  IInv' /\ BooksTyped'
<1>1. CASE [Next]_vars /\ UNCHANGED <<amount, year>>
  BY <1>1, StepKeeps DEF BooksTyped
<1>2. CASE ReadYear
  <2>1. UNCHANGED vars
    BY <1>2 DEF ReadYear, vars
  <2> QED BY <1>2, <2>1, StepKeeps, ReadYearTyped DEF IInv
<1>3. CASE WriteYear
  BY <1>3, WriteYearKeeps, WriteYearTyped DEF IInv
<1>4. CASE AbortYear
  <2>1. UNCHANGED vars
    BY <1>4 DEF AbortYear, vars
  <2> QED BY <1>4, <2>1, StepKeeps, YearIdle DEF AbortYear, BooksTyped
<1> QED BY <1>1, <1>2, <1>3, <1>4, BooksSteps

LEMMA BooksAlone ==
  ASSUME BooksAssumption, IInv, IInv', AloneInv, OneAtATime, [BooksNext]_booksVars
  PROVE  StepIsSound
<1>1. CASE [Next]_vars
  BY <1>1, OneStep
<1>2. CASE ReadYear
  <2>1. UNCHANGED vars
    BY <1>2 DEF ReadYear, vars
  <2> QED BY <2>1, OneStep
<1>3. CASE WriteYear
  BY <1>3, WriteYearAlone
<1>4. CASE AbortYear
  <2>1. UNCHANGED vars
    BY <1>4 DEF AbortYear, vars
  <2> QED BY <2>1, OneStep
<1> QED BY <1>1, <1>2, <1>3, <1>4, BooksSteps

LEMMA BooksBegin == BooksInit => IInv /\ BooksTyped /\ AloneInv
<1> SUFFICES ASSUME BooksInit PROVE IInv /\ BooksTyped /\ AloneInv
  OBVIOUS
<1>1. IInv
  BY InitHolds DEF BooksInit
<1>2. BooksTyped
  BY YearIdle DEF BooksInit, BooksTyped
<1>3. Live = {}
  BY DEF BooksInit, Init, Live, FreeRow
<1>4. NumbersGapless
  BY <1>3 DEF NumbersGapless, BooksInit, Init
<1>5. \A p \in Procs : Relies(req[p])
  BY DEF BooksInit, Init, Relies, Idle
<1> QED BY <1>1, <1>2, <1>3, <1>4, <1>5 DEF AloneInv, DraftsAreUnnumbered, ReversalMirrors

\* Journal's invariant, and the types of what Books adds, also when the year is
\* closed among the requests.
THEOREM BooksInductive == BooksSpec => [](IInv /\ BooksTyped)
BY BooksAssumption, BooksBegin, BooksStep, PTL DEF BooksSpec

LEMMA BooksBehave ==
  ASSUME OneAtATime
  PROVE  BooksSpec => /\ [](IInv /\ BooksTyped /\ AloneInv)
                      /\ [][FirmStays]_vars
<1>1. BooksInit => IInv /\ BooksTyped /\ AloneInv
  BY BooksBegin
<1>2. IInv /\ BooksTyped /\ AloneInv /\ [BooksNext]_booksVars
        => (IInv /\ BooksTyped /\ AloneInv)' /\ FirmStays
  BY BooksAssumption, BooksStep, BooksAlone DEF StepIsSound
<1> QED BY <1>1, <1>2, PTL DEF BooksSpec

\* One request at a time, allocateNumber leaves no gap: crashes, refusals, edits
\* and the entries of the year's close included.
THEOREM NumbersStayGapless ==
  ASSUME OneAtATime PROVE BooksSpec => []NumbersGapless
<1>1. AloneInv => NumbersGapless
  BY DEF AloneInv
<1> QED BY <1>1, BooksBehave, PTL

\* One request at a time, reverseEntry swaps the lines its base has, drafts that
\* were posted by hand included.
THEOREM EveryReversalMirrors ==
  ASSUME OneAtATime PROVE BooksSpec => []ReversalMirrors
<1>1. AloneInv => ReversalMirrors
  BY DEF AloneInv
<1> QED BY <1>1, BooksBehave, PTL

\* One request at a time, no posting, edit, deletion, reversal or close of the
\* year changes the numbered entries of a month that is closed or locked.
THEOREM ShutMonthsKeepTheirEntries ==
  ASSUME OneAtATime PROVE BooksSpec => ShutMonthsStand
<1>1. [FirmStays]_vars
        => [\A m \in Periods : Shut(m) => FirmLines(m)' = FirmLines(m)]_row
  BY DEF FirmStays, vars
<1> QED BY <1>1, BooksBehave, PTL DEF ShutMonthsStand

-----------------------------------------------------------------------------
(* A month that closePeriod closed.  Beyond AloneInv it takes that a POSTED *)
(* entry has a number, so that only a draft can be taken back to DRAFT, and *)
(* that lockPeriod still knows when it unlocks that the month was closed.   *)

SealRelies(r) ==
  /\ r.stage \in {"insert", "editWrite"} => ~Sealed(MonthOf[r.date])
  /\ r.stage = "lock" => /\ r.closed = period[r.period].closedAt
                         /\ period[r.period].status # "ABSENT"

SealInv ==
  /\ ClosedHasNoDraft
  /\ \A id \in Live : row[id].status = "POSTED" => row[id].number # 0
  /\ \A m \in Periods : Sealed(m) => Shut(m)
  /\ \A p \in Procs : SealRelies(req[p])

\* What a step that closes no month does to the months, and to the entries.
MonthsStay == \A m \in Periods : Sealed(m)' => Sealed(m) /\ Shut(m)'

SameDraft(id) ==
  id \in Live /\ row[id].status = "DRAFT" /\ row'[id].date = row[id].date

Clean(id) ==
  /\ row'[id].status = "POSTED" => row'[id].number # 0
  /\ row'[id].status = "DRAFT" => SameDraft(id) \/ ~Sealed(MonthOf[row'[id].date])

LEMMA SealKept ==
  ASSUME TypeOK', SealInv, MonthsStay, \A id \in Live' : Clean(id),
         \A p \in Procs : SealRelies(req[p])'
  PROVE  SealInv'
<1>1. ASSUME NEW m \in Periods, Sealed(m)', NEW id \in Live',
             row'[id].status = "DRAFT", MonthOf[row'[id].date] = m
      PROVE  FALSE
  <2>1. Sealed(m)
    BY <1>1 DEF MonthsStay
  <2>2. SameDraft(id)
    BY <1>1, <2>1 DEF Clean
  <2> QED BY <1>1, <2>1, <2>2 DEF SealInv, ClosedHasNoDraft, SameDraft
<1>2. ClosedHasNoDraft'
  BY <1>1 DEF ClosedHasNoDraft
<1>3. \A id \in Live' : row'[id].status = "POSTED" => row'[id].number # 0
  BY DEF Clean
<1>4. \A m \in Periods : Sealed(m)' => Shut(m)'
  BY DEF MonthsStay
<1> QED BY <1>2, <1>3, <1>4 DEF SealInv

LEMMA RowStaysClean ==
  ASSUME SealInv, NEW id \in Live, row'[id] = row[id]
  PROVE  Clean(id)
BY DEF SealInv, Clean, SameDraft

LEMMA RowsStayClean ==
  ASSUME SealInv, UNCHANGED row
  PROVE  \A id \in Live' : Clean(id)
BY RowStaysClean DEF Live

\* Every row but one stays.
LEMMA OneRowClean ==
  ASSUME SealInv, NEW id \in EntryIds, \A i \in EntryIds \ {id} : row'[i] = row[i],
         id \in Live' => Clean(id)
  PROVE  \A i \in Live' : Clean(i)
<1>1. ASSUME NEW i \in Live', i # id PROVE Clean(i)
  <2>1. i \in EntryIds /\ row'[i] = row[i]
    BY <1>1 DEF Live
  <2>2. i \in Live
    BY <1>1, <2>1 DEF Live
  <2> QED BY <2>1, <2>2, RowStaysClean
<1> QED BY <1>1

LEMMA MonthsKept ==
  ASSUME TypeOK, SealInv, NEW m \in Periods, GetOrCreatePeriod(m) \/ UNCHANGED period
  PROVE  MonthsStay
<1>1. \A k \in Periods : Sealed(k)' <=> Sealed(k)
  <2>1. CASE period[m].status = "ABSENT"
    <3>1. ~Sealed(m)
      BY <2>1 DEF SealInv, Shut
    <3> QED BY <2>1, <3>1 DEF GetOrCreatePeriod, TypeOK, AbsentPeriod, Sealed
  <2>2. CASE period[m].status # "ABSENT"
    BY <2>2 DEF GetOrCreatePeriod, Sealed
  <2> QED BY <2>1, <2>2
<1> QED BY <1>1, PeriodKept DEF SealInv, MonthsStay

\* The next step of the request inserts, edits and unlocks nothing.
Quiet(p) == req'[p].stage \notin {"insert", "editWrite", "lock"}

LEMMA QuietRequest ==
  ASSUME OneAtATime, NEW p \in Procs, Quiet(p)
  PROVE  \A q \in Procs : SealRelies(req[q])'
<1>1. \A q \in Procs : q = p
  BY DEF OneAtATime
<1> QED BY <1>1 DEF SealRelies, Quiet

LEMMA FinishedRequest ==
  ASSUME IInv, OneAtATime, NEW p \in Procs, Finish(p)
  PROVE  \A q \in Procs : SealRelies(req[q])'
<1>1. Quiet(p)
  BY DEF Quiet, Finish, Idle, IInv, TypeOK
<1> QED BY <1>1, QuietRequest

LEMMA QuietRead ==
  ASSUME IInv, IInv', SealInv, OneAtATime, NEW p \in Procs, Quiet(p), UNCHANGED <<row, period>>
  PROVE  SealInv'
<1>1. MonthsStay
  BY DEF MonthsStay, Sealed, Shut, SealInv
<1>2. \A q \in Procs : SealRelies(req[q])'
  BY QuietRequest
<1> QED BY <1>1, <1>2, RowsStayClean, SealKept DEF IInv

\* A read that checked that the month it will write to is open, or that a month
\* was closed.
LEMMA CheckedRead ==
  ASSUME IInv, IInv', SealInv, OneAtATime, NEW p \in Procs, NEW R,
         req' = [req EXCEPT ![p] = R], UNCHANGED <<row, period>>, SealRelies(R)
  PROVE  SealInv'
<1>1. MonthsStay
  BY DEF MonthsStay, Sealed, Shut, SealInv
<1>2. \A q \in Procs : req'[q] = R
  BY DEF OneAtATime, IInv, TypeOK
<1>3. \A q \in Procs : SealRelies(req[q])'
  BY <1>2 DEF SealRelies, Sealed
<1> QED BY <1>1, <1>3, RowsStayClean, SealKept DEF IInv

LEMMA OpenIsUnsealed ==
  ASSUME SealInv, NEW d \in Dates, MonthOf[d] \in Periods, AssertOpenPeriod(d)
  PROVE  ~Sealed(MonthOf[d])
BY DEF SealInv, AssertOpenPeriod, Shut

LEMMA SealReads ==
  ASSUME IInv, IInv', SealInv, OneAtATime, NEW p \in Procs,
         \/ PostDocument(p) \/ CreateDraft(p) \/ ReadForPost(p) \/ CheckPost(p)
         \/ ReadForEdit(p) \/ CheckEdit(p) \/ ReadForDelete(p) \/ ReadForDraft(p)
         \/ ReadForReverse(p) \/ ReadForReverseBySource(p) \/ CheckReverse(p)
         \/ ReadForMass(p) \/ NextOfMass(p) \/ CountDrafts(p) \/ ReadForLock(p)
  PROVE  SealInv'
<1>0. req[p].date \in Dates /\ MonthOf[req[p].date] \in Periods
  BY RequestTyped DEF IInv
<1>1. CASE PostDocument(p) \/ CreateDraft(p)
  <2>1. PICK src, d, j, st : d \in Dates /\ StartCreate(p, src, d, j, st)
    BY <1>1 DEF PostDocument, CreateDraft
  <2>2. PICK R : R = [Idle EXCEPT !.stage = "insert", !.src = src, !.date = d,
                                  !.journal = j, !.status = st]
    OBVIOUS
  <2>3. R.stage = "insert" /\ R.date = d
    BY <2>2 DEF Idle
  <2>4. MonthOf[d] \in Periods
    BY <2>1, ConstantsAssumption
  <2>5. SealRelies(R)
    BY <2>1, <2>3, <2>4, OpenIsUnsealed DEF SealRelies, StartCreate
  <2> QED BY <2>1, <2>2, <2>5, CheckedRead DEF StartCreate
<1>2. CASE CheckEdit(p)
  <2>1. PICK R : R = [req[p] EXCEPT !.stage = "editWrite", !.lines = row[req[p].id].lines]
    OBVIOUS
  <2>2. req' = [req EXCEPT ![p] = R] /\ UNCHANGED <<row, period>>
    BY <1>2, <2>1 DEF CheckEdit
  <2>3. R.stage = "editWrite" /\ R.date = req[p].date
    BY <2>1, RequestTyped DEF IInv, Request
  <2>4. SealRelies(R)
    BY <1>0, <1>2, <2>3, OpenIsUnsealed DEF SealRelies, CheckEdit
  <2> QED BY <2>2, <2>4, CheckedRead
<1>3. CASE ReadForLock(p)
  <2>1. PICK m \in Periods, f \in BOOLEAN :
          /\ period[m].status # "ABSENT"
          /\ req' = [req EXCEPT ![p] = [Idle EXCEPT !.stage = "lock", !.period = m,
                                          !.flag = f, !.closed = period[m].closedAt]]
    BY <1>3 DEF ReadForLock
  <2>2. PICK R : R = [Idle EXCEPT !.stage = "lock", !.period = m,
                                  !.flag = f, !.closed = period[m].closedAt]
    OBVIOUS
  <2>3. R.stage = "lock" /\ R.period = m /\ R.closed = period[m].closedAt
    BY <2>2 DEF Idle
  <2>4. SealRelies(R)
    BY <2>1, <2>3 DEF SealRelies
  <2> QED BY <1>3, <2>1, <2>2, <2>4, CheckedRead DEF ReadForLock
<1>4. ASSUME \/ ReadForPost(p) \/ ReadForEdit(p) \/ ReadForDelete(p) \/ ReadForDraft(p)
             \/ ReadForReverse(p) \/ ReadForReverseBySource(p) \/ ReadForMass(p)
             \/ CountDrafts(p) \/ CheckPost(p) \/ CheckReverse(p) \/ NextOfMass(p)
      PROVE  Quiet(p)
  <2>0. req \in [Procs -> Request] /\ Idle \in Request
    BY IdleTyped DEF IInv, TypeOK
  <2>1. CASE ReadForPost(p)
    <3>1. PICK id \in Live : req' = [req EXCEPT ![p] =
            [Idle EXCEPT !.stage = "post", !.id = id, !.date = row[id].date,
                         !.journal = row[id].journal]]
      BY <2>1 DEF ReadForPost
    <3> QED BY <2>0, <3>1 DEF Request, Quiet
  <2>2. CASE ReadForEdit(p)
    <3>1. PICK id \in Live, d \in Dates, j \in Journals : req' = [req EXCEPT ![p] =
            [Idle EXCEPT !.stage = "edit", !.id = id, !.date = d, !.journal = j]]
      BY <2>2 DEF ReadForEdit
    <3> QED BY <2>0, <3>1 DEF Request, Quiet
  <2>3. CASE ReadForDelete(p)
    <3>1. PICK id \in Live : req' = [req EXCEPT ![p] =
            [Idle EXCEPT !.stage = "delete", !.id = id]]
      BY <2>3 DEF ReadForDelete
    <3> QED BY <2>0, <3>1 DEF Request, Quiet
  <2>4. CASE ReadForDraft(p)
    <3>1. PICK id \in Live : req' = [req EXCEPT ![p] =
            [Idle EXCEPT !.stage = "setDraft", !.id = id]]
      BY <2>4 DEF ReadForDraft
    <3> QED BY <2>0, <3>1 DEF Request, Quiet
  <2>5. CASE ReadForReverse(p)
    <3>1. PICK id \in Live : req' = [req EXCEPT ![p] =
            [Idle EXCEPT !.stage = "reverse", !.id = id, !.src = row[id].src,
                         !.journal = row[id].journal, !.lines = row[id].lines, !.todo = {}]]
      BY <2>5 DEF ReadForReverse, ReadBase
    <3> QED BY <2>0, <3>1 DEF Request, Quiet
  <2>6. CASE ReadForReverseBySource(p)
    <3>1. PICK id \in Live, doc \in PostDocs : req' = [req EXCEPT ![p] =
            [Idle EXCEPT !.stage = "reverse", !.id = id, !.src = row[id].src,
                         !.journal = JournalOf[doc], !.lines = row[id].lines, !.todo = {}]]
      BY <2>6 DEF ReadForReverseBySource, ReadBase
    <3> QED BY <2>0, <3>1 DEF Request, Quiet
  <2>7. CASE ReadForMass(p)
    <3>1. PICK entries \in SUBSET Live : req' = [req EXCEPT ![p] =
            [Idle EXCEPT !.stage = "mass", !.todo = entries]]
      BY <2>7 DEF ReadForMass
    <3> QED BY <2>0, <3>1 DEF Request, Quiet
  <2>8. CASE CountDrafts(p)
    <3>1. PICK m \in Periods, f \in BOOLEAN : req' = [req EXCEPT ![p] =
            [Idle EXCEPT !.stage = "close", !.period = m, !.flag = f]]
      BY <2>8 DEF CountDrafts
    <3> QED BY <2>0, <3>1 DEF Request, Quiet
  <2>9. CASE CheckPost(p)
    BY <2>0, <2>9 DEF CheckPost, Request, Quiet
  <2>10. CASE CheckReverse(p)
    BY <2>0, <2>10 DEF CheckReverse, Request, Quiet
  <2>11. CASE NextOfMass(p)
    <3>1. PICK id \in req[p].todo \intersect Live :
            IF row[id].reversal = NoId
            THEN ReadBase(p, id, row[id].journal, req[p].todo \ {id})
            ELSE req' = [req EXCEPT ![p] = IF req[p].todo \ {id} = {} THEN Idle
                           ELSE [req[p] EXCEPT !.todo = req[p].todo \ {id}]]
      BY <2>11 DEF NextOfMass
    <3>2. CASE row[id].reversal = NoId
      <4>1. req' = [req EXCEPT ![p] =
              [Idle EXCEPT !.stage = "reverse", !.id = id, !.src = row[id].src,
                           !.journal = row[id].journal, !.lines = row[id].lines,
                           !.todo = req[p].todo \ {id}]]
        BY <3>1, <3>2 DEF ReadBase
      <4> QED BY <2>0, <4>1 DEF Request, Quiet
    <3>3. CASE row[id].reversal # NoId
      <4>1. Idle.stage = "idle"
        BY DEF Idle
      <4>2. CASE req[p].todo \ {id} = {}
        BY <2>0, <3>1, <3>3, <4>1, <4>2 DEF Quiet
      <4>3. CASE req[p].todo \ {id} # {}
        BY <2>0, <2>11, <3>1, <3>3, <4>3 DEF NextOfMass, At, Request, Quiet
      <4> QED BY <4>2, <4>3
    <3> QED BY <3>2, <3>3
  <2> QED BY <1>4, <2>1, <2>2, <2>3, <2>4, <2>5, <2>6, <2>7, <2>8, <2>9, <2>10, <2>11
<1>5. CASE \/ ReadForPost(p) \/ ReadForEdit(p) \/ ReadForDelete(p) \/ ReadForDraft(p)
           \/ ReadForReverse(p) \/ ReadForReverseBySource(p) \/ ReadForMass(p)
           \/ CountDrafts(p) \/ CheckPost(p) \/ CheckReverse(p) \/ NextOfMass(p)
  <2>1. UNCHANGED <<row, period>>
    BY <1>5 DEF ReadForPost, ReadForEdit, ReadForDelete, ReadForDraft, ReadForReverse,
                ReadForReverseBySource, ReadForMass, CountDrafts, CheckPost, CheckReverse,
                NextOfMass
  <2> QED BY <1>4, <1>5, <2>1, QuietRead
<1> QED BY <1>1, <1>2, <1>3, <1>5

LEMMA SealInserts ==
  ASSUME IInv, IInv', SealInv, OneAtATime, NEW p \in Procs,
         InsertPosted(p) \/ InsertDraft(p) \/ WriteReverse(p)
  PROVE  SealInv'
<1>0. /\ MonthOf[req[p].date] \in Periods /\ req[p].journal \in Journals
      /\ NextNumber(MonthOf[req[p].date], req[p].journal) \in Nat \ {0}
  BY RequestTyped DEF IInv, TypeOK, NextNumber
<1>1. MonthsStay
  BY <1>0, MonthsKept DEF IInv, InsertPosted, InsertDraft, WriteReverse
<1>2. CASE InsertPosted(p) \/ InsertDraft(p)
  <2>1. PICK id \in EntryIds : /\ \A i \in EntryIds \ {id} : row'[i] = row[i]
                               /\ row'[id].status = "POSTED" => row'[id].number # 0
                               /\ row'[id].date = req[p].date
    BY <1>0, <1>2 DEF InsertPosted, InsertDraft, IInv, TypeOK
  <2>2. ~Sealed(MonthOf[req[p].date])
    BY <1>2 DEF SealInv, SealRelies, InsertPosted, InsertDraft, At
  <2>3. \A i \in Live' : Clean(i)
    BY <2>1, <2>2, OneRowClean DEF Clean
  <2>4. \A q \in Procs : SealRelies(req[q])'
    BY <1>2, FinishedRequest DEF InsertPosted, InsertDraft
  <2> QED BY <1>1, <2>3, <2>4, SealKept DEF IInv
<1>3. CASE WriteReverse(p)
  <2>1. PICK id \in EntryIds :
          /\ row[id].status = "FREE"
          /\ \A i \in EntryIds \ {id, req[p].id} : row'[i] = row[i]
          /\ row'[id].status = "POSTED"
          /\ row'[id].number = NextNumber(MonthOf[req[p].date], req[p].journal)
          /\ row'[req[p].id].status = "REVERSED"
    <3>1. req[p].id \in Live /\ row[req[p].id] \in Row
      BY <1>3 DEF WriteReverse, IInv, TypeOK, Live
    <3>2. PICK id \in EntryIds :
            /\ row[id].status = "FREE"
            /\ row' = [row EXCEPT
                 ![req[p].id] = [row[req[p].id] EXCEPT !.status = "REVERSED", !.reversal = id],
                 ![id] = [status |-> "POSTED", born |-> "POSTED",
                          src |-> Reversal(req[p].src), date |-> req[p].date,
                          period |-> MonthOf[req[p].date], journal |-> req[p].journal,
                          number |-> NextNumber(MonthOf[req[p].date], req[p].journal),
                          reversal |-> NoId, lines |-> Mirror(req[p].lines)]]
      BY <1>3 DEF WriteReverse
    <3>3. id # req[p].id
      BY <3>1, <3>2 DEF Live
    <3>4. /\ \A i \in EntryIds \ {id, req[p].id} : row'[i] = row[i]
          /\ row'[id].status = "POSTED"
          /\ row'[id].number = NextNumber(MonthOf[req[p].date], req[p].journal)
      BY <3>1, <3>2, <3>3 DEF IInv, TypeOK
    <3>5. row'[req[p].id].status = "REVERSED"
      BY <3>1, <3>2, <3>3 DEF IInv, TypeOK, Row, Live
    <3> QED BY <3>2, <3>4, <3>5
  <2>2. ASSUME NEW i \in Live' PROVE Clean(i)
    <3>1. CASE i \in {id, req[p].id}
      BY <1>0, <2>1, <3>1 DEF Clean
    <3>2. CASE i \notin {id, req[p].id}
      <4>1. i \in Live /\ row'[i] = row[i]
        BY <2>1, <2>2, <3>2 DEF Live
      <4> QED BY <4>1, RowStaysClean
    <3> QED BY <3>1, <3>2
  <2>3. Quiet(p)
    <3>1. req \in [Procs -> Request]
      BY DEF IInv, TypeOK
    <3> QED BY <1>3, <3>1 DEF WriteReverse, Idle, Quiet
  <2>4. \A q \in Procs : SealRelies(req[q])'
    BY <2>3, QuietRequest
  <2> QED BY <1>1, <2>2, <2>4, SealKept DEF IInv
<1> QED BY <1>2, <1>3

LEMMA SealWrites ==
  ASSUME IInv, IInv', AloneInv, SealInv, OneAtATime, NEW p \in Procs,
         WritePost(p) \/ WriteEdit(p) \/ WriteDelete(p) \/ WriteDraft(p)
  PROVE  SealInv'
<1>0. /\ MonthOf[req[p].date] \in Periods /\ req[p].journal \in Journals
      /\ NextNumber(MonthOf[req[p].date], req[p].journal) \in Nat \ {0}
      /\ req[p].id \in Live /\ req[p].id \in EntryIds /\ row[req[p].id] \in Row
  <2>1. MonthOf[req[p].date] \in Periods /\ req[p].journal \in Journals
    BY RequestTyped DEF IInv
  <2>2. NextNumber(MonthOf[req[p].date], req[p].journal) \in Nat \ {0}
    BY <2>1 DEF IInv, TypeOK, NextNumber
  <2>3. req[p].id \in Live
    BY DEF WritePost, WriteEdit, WriteDelete, WriteDraft
  <2> QED BY <2>1, <2>2, <2>3 DEF IInv, TypeOK, Live
<1>1. MonthsStay
  BY <1>0, MonthsKept DEF IInv, WritePost, WriteEdit, WriteDelete, WriteDraft
<1>2. \A q \in Procs : SealRelies(req[q])'
  BY FinishedRequest DEF WritePost, WriteEdit, WriteDelete, WriteDraft
<1>3. \A i \in EntryIds \ {req[p].id} : row'[i] = row[i]
  BY DEF WritePost, WriteEdit, WriteDelete, WriteDraft, IInv, TypeOK
<1>4. req[p].id \in Live' => Clean(req[p].id)
  <2>1. CASE WritePost(p)
    <3>1. /\ row'[req[p].id].status = "POSTED"
          /\ row'[req[p].id].number = NextNumber(MonthOf[req[p].date], req[p].journal)
      BY <1>0, <2>1 DEF WritePost, IInv, TypeOK, Row
    <3> QED BY <1>0, <3>1 DEF Clean
  <2>2. CASE WriteEdit(p)
    <3>1. ~Sealed(MonthOf[req[p].date]) /\ row[req[p].id].status = "DRAFT"
      BY <2>2 DEF SealInv, SealRelies, AloneInv, Relies, Draft, WriteEdit, At
    <3>2. row'[req[p].id].date = req[p].date /\ row'[req[p].id].status = row[req[p].id].status
      <4>1. PICK b \in FreshBatches :
              row' = [row EXCEPT ![req[p].id] =
                [row[req[p].id] EXCEPT
                   !.date = req[p].date, !.period = MonthOf[req[p].date],
                   !.journal = req[p].journal,
                   !.lines = (row[req[p].id].lines \ req[p].lines)
                               \union {[batch |-> b, sign |-> 1]}]]
        BY <2>2 DEF WriteEdit
      <4> QED BY <1>0, <4>1 DEF IInv, TypeOK, Row
    <3> QED BY <3>1, <3>2 DEF Clean
  <2>3. CASE WriteDelete(p)
    BY <1>0, <2>3 DEF WriteDelete, IInv, TypeOK, Live, DeletedRow, FreeRow
  <2>4. CASE WriteDraft(p)
    <3>1. row[req[p].id].status = "DRAFT"
      <4>1. row[req[p].id].status # "REVERSED" /\ row[req[p].id].number = 0
        BY <2>4 DEF AloneInv, Relies, WriteDraft, At
      <4>2. row[req[p].id].status # "POSTED"
        BY <1>0, <4>1 DEF SealInv
      <4> QED BY <1>0, <4>1, <4>2 DEF Row, Live
    <3>2. row'[req[p].id].date = row[req[p].id].date /\ row'[req[p].id].status = "DRAFT"
      BY <1>0, <2>4 DEF WriteDraft, IInv, TypeOK, Row
    <3> QED BY <1>0, <3>1, <3>2 DEF Clean, SameDraft
  <2> QED BY <2>1, <2>2, <2>3, <2>4
<1> QED BY <1>0, <1>1, <1>2, <1>3, <1>4, OneRowClean, SealKept DEF IInv

LEMMA SealMonths ==
  ASSUME IInv, IInv', AloneInv, SealInv, OneAtATime, NEW p \in Procs,
         WriteClose(p) \/ WriteLock(p) \/ Abort(p)
  PROVE  SealInv'
<1>1. \A q \in Procs : SealRelies(req[q])'
  BY FinishedRequest DEF WriteClose, WriteLock, Abort
<1>2. CASE WriteClose(p)
  <2>1. \A id \in Live : ~(row[id].status = "DRAFT" /\ MonthOf[row[id].date] = req[p].period)
    BY <1>2 DEF AloneInv, Relies, WriteClose, At
  <2>2. /\ \A m \in Periods \ {req[p].period} : period'[m] = period[m]
        /\ req[p].period \in Periods => period'[req[p].period].status \in {"CLOSED", "LOCKED"}
    BY <1>2 DEF WriteClose, IInv, TypeOK
  <2>3. UNCHANGED row /\ Live' = Live
    BY <1>2 DEF WriteClose, Live
  <2>4. ClosedHasNoDraft'
    BY <2>1, <2>2, <2>3 DEF SealInv, ClosedHasNoDraft, Sealed
  <2>5. \A m \in Periods : Sealed(m)' => Shut(m)'
    BY <2>2 DEF SealInv, Sealed, Shut
  <2> QED BY <1>1, <2>3, <2>4, <2>5 DEF SealInv
<1>3. CASE WriteLock(p)
  <2>1. \A m \in Periods : /\ period'[m].closedAt = period[m].closedAt
                           /\ period'[m].until = period[m].until
    BY <1>3 DEF WriteLock, IInv, TypeOK, PeriodRow
  <2>2. \A m \in Periods : period[m].closedAt /\ Shut(m) => Shut(m)'
    <3>1. req[p].closed = period[req[p].period].closedAt
      BY <1>3 DEF SealInv, SealRelies, WriteLock, At
    <3> QED BY <1>3, <3>1 DEF WriteLock, Shut, IInv, TypeOK, PeriodRow
  <2>3. MonthsStay
    BY <2>1, <2>2 DEF MonthsStay, Sealed, SealInv
  <2> QED BY <1>1, <1>3, <2>3, RowsStayClean, SealKept DEF WriteLock, IInv
<1>4. CASE Abort(p)
  <2>1. MonthsStay
    BY <1>4 DEF Abort, MonthsStay, Sealed, Shut, SealInv
  <2> QED BY <1>1, <1>4, <2>1, RowsStayClean, SealKept DEF Abort, IInv
<1> QED BY <1>2, <1>3, <1>4

\* Months that open, and time, pass between the steps of a request.
LEMMA SealOpens ==
  ASSUME IInv, IInv', SealInv, UNCHANGED <<row, req>>,
         (\E m \in Periods : OpenPeriod(m)) \/ UNCHANGED period
  PROVE  SealInv'
<1>1. \A m \in Periods : /\ Sealed(m)' => Sealed(m) /\ Shut(m)'
                         /\ period'[m].closedAt = period[m].closedAt
                         /\ period[m].status # "ABSENT" => period'[m].status # "ABSENT"
  <2>1. CASE UNCHANGED period
    BY <2>1 DEF Sealed, Shut, SealInv
  <2>2. ASSUME NEW k \in Periods, OpenPeriod(k)
        PROVE  \A m \in Periods : /\ Sealed(m)' => Sealed(m) /\ Shut(m)'
                                  /\ period'[m].closedAt = period[m].closedAt
                                  /\ period[m].status # "ABSENT" => period'[m].status # "ABSENT"
    <3>1. PICK d \in Dates :
            period' = [period EXCEPT ![k] = [period[k] EXCEPT !.status = "OPEN", !.until = d]]
      BY <2>2 DEF OpenPeriod, IInv, TypeOK
    <3>2. period[k] \in PeriodRow /\ d # 0
      BY <2>2, ConstantsAssumption DEF IInv, TypeOK
    <3>3. period'[k].until = d /\ period'[k].status = "OPEN" /\ period'[k].closedAt = period[k].closedAt
      BY <2>2, <3>1, <3>2 DEF PeriodRow, IInv, TypeOK
    <3>4. \A m \in Periods \ {k} : period'[m] = period[m]
      BY <3>1 DEF IInv, TypeOK
    <3> QED BY <3>2, <3>3, <3>4 DEF Sealed, Shut, SealInv
  <2> QED BY <2>1, <2>2
<1>2. MonthsStay
  BY <1>1 DEF MonthsStay
<1>3. ASSUME NEW q \in Procs PROVE SealRelies(req[q])'
  <2>1. /\ req'[q] = req[q] /\ SealRelies(req[q])
        /\ MonthOf[req[q].date] \in Periods /\ req[q].period \in Periods
    BY <1>3, RequestTyped DEF SealInv, IInv, Request
  <2> QED BY <1>1, <2>1 DEF SealRelies
<1> QED BY <1>2, <1>3, RowsStayClean, SealKept DEF IInv

LEMMA SealYear ==
  ASSUME BooksAssumption, IInv, IInv', SealInv, WriteYear
  PROVE  SealInv'
<1>0. TypeOK /\ MonthOf[YearEnd] \in Periods
  BY YearTyped DEF IInv
<1>1. PICK New \in SUBSET EntryIds, k \in {1, 2} : YearRows(New, k)
  BY <1>0, WriteYearRows DEF IInv
<1>2. \A i \in EntryIds \ New : row'[i] = row[i]
  BY <1>1 DEF YearRows
<1>3. PICK n \in Nat \ {0} : n = NextNumber(MonthOf[YearEnd], JournalOf[YearClose])
  BY <1>0, YearTyped
<1>4. PICK id1 \in EntryIds, id2 \in EntryIds :
        /\ New = IF k = 1 THEN {id1} ELSE {id1, id2}
        /\ YearRow(row'[id1], YearClose, n)
        /\ k = 2 => YearRow(row'[id2], YearEquity, n + 1)
  BY <1>0, <1>1, <1>3, NewYearRows
<1>5. \A i \in New : row'[i].status = "POSTED" /\ row'[i].number # 0
  BY <1>3, <1>4 DEF YearRow
<1>6. ASSUME NEW i \in Live' PROVE Clean(i)
  <2>1. CASE i \in New
    BY <1>5, <2>1 DEF Clean
  <2>2. CASE i \notin New
    <3>1. i \in Live /\ row'[i] = row[i]
      BY <1>2, <1>6, <2>2 DEF Live
    <3> QED BY <3>1, RowStaysClean
  <2> QED BY <2>1, <2>2
<1>7. MonthsStay
  BY <1>0, MonthsKept DEF WriteYear
<1>8. \A q \in Procs : SealRelies(req[q])'
  <2> SUFFICES ASSUME NEW q \in Procs PROVE SealRelies(req[q])'
    OBVIOUS
  <2>1. /\ req'[q] = req[q] /\ SealRelies(req[q]) /\ MonthOf[req[q].date] \in Periods
        /\ req[q].stage \in Stages /\ req[q].period \in Periods
    BY RequestTyped DEF SealInv, IInv, Request, WriteYear
  <2>2. req[q].stage = "lock" => period'[req[q].period] = period[req[q].period]
    BY <1>0, <2>1 DEF SealRelies, WriteYear, GetOrCreatePeriod, TypeOK
  <2> QED BY <1>7, <2>1, <2>2 DEF SealRelies, MonthsStay
<1> QED BY <1>6, <1>7, <1>8, SealKept DEF IInv

LEMMA SealStep ==
  ASSUME BooksAssumption, IInv, IInv', AloneInv, SealInv, OneAtATime, [BooksNext]_booksVars
  PROVE  SealInv'
<1>1. ASSUME [Next]_vars PROVE SealInv'
  <2>1. ASSUME NEW p \in Procs, EntryHandler(p) PROVE SealInv'
    BY <2>1, SealReads, SealInserts, SealWrites, SealMonths DEF EntryHandler
  <2>2. ASSUME NEW p \in Procs, PeriodHandler(p) PROVE SealInv'
    BY <2>2, SealReads, SealMonths DEF PeriodHandler
  <2>3. ASSUME NEW m \in Periods, OpenPeriod(m) PROVE SealInv'
    BY <2>3, SealOpens DEF OpenPeriod
  <2>4. CASE Tick
    BY <2>4, SealOpens DEF Tick
  <2>5. CASE UNCHANGED vars
    BY <2>5, SealOpens DEF vars
  <2> QED BY <1>1, <2>1, <2>2, <2>3, <2>4, <2>5 DEF Next, Step
<1>2. CASE ReadYear \/ AbortYear
  <2>1. UNCHANGED vars
    BY <1>2 DEF ReadYear, AbortYear, vars
  <2> QED BY <1>1, <2>1
<1> QED BY <1>1, <1>2, SealYear, BooksSteps

LEMMA SealBegins == BooksInit => SealInv
<1> SUFFICES ASSUME BooksInit PROVE SealInv
  OBVIOUS
<1>1. Live = {} /\ \A m \in Periods : ~Sealed(m)
  BY DEF BooksInit, Init, Live, FreeRow, Sealed, AbsentPeriod
<1>2. \A p \in Procs : SealRelies(req[p])
  BY DEF BooksInit, Init, SealRelies, Idle
<1> QED BY <1>1, <1>2 DEF SealInv, ClosedHasNoDraft

\* One request at a time, a month that closePeriod closed has no draft until
\* openPeriod reopens it: creation, edit, setting to DRAFT, locking, unlocking
\* and the close of the year put none there.
THEOREM NoDraftInClosedMonth ==
  ASSUME OneAtATime PROVE BooksSpec => []ClosedHasNoDraft
<1>1. BooksInit => SealInv
  BY SealBegins
<1>2. /\ IInv /\ BooksTyped /\ AloneInv
      /\ (IInv /\ BooksTyped /\ AloneInv)'
      /\ SealInv /\ [BooksNext]_booksVars
      => SealInv'
  BY BooksAssumption, SealStep
<1>3. SealInv => ClosedHasNoDraft
  BY DEF SealInv
<1> QED BY <1>1, <1>2, <1>3, BooksBehave, PTL DEF BooksSpec

-----------------------------------------------------------------------------
(* What was reversed and its reversals cancel in the reports. *)

\* Mirrored lines add up to the opposite of the lines.
LEMMA MirrorCancels ==
  ASSUME BooksAssumption, BooksTyped, TypeOK, NEW ls \in SUBSET Line, NEW a \in Accounts
  PROVE  SumFunctionOnSet([l \in Mirror(ls) |-> LineAmount(l, a)], Mirror(ls))
           = -SumFunctionOnSet([l \in ls |-> LineAmount(l, a)], ls)
<1> DEFINE h == [l \in ls |-> [batch |-> l.batch, sign |-> -l.sign]]
           f == [l \in ls |-> LineAmount(l, a)]
           e == [l \in Mirror(ls) |-> LineAmount(l, a)]
           g == [l \in ls |-> -LineAmount(l, a)]
<1>1. Mirror(ls) = {h[l] : l \in ls}
  BY DEF Mirror
<1>2. \A l, k \in ls : h[l] = h[k] => l = k
  BY DEF Line
<1>3. \A l \in ls : LineAmount(l, a) \in Int
  BY LineAmountTyped
<1>4. \A l \in ls : LineAmount(h[l], a) = -LineAmount(l, a)
  <2> SUFFICES ASSUME NEW l \in ls PROVE LineAmount(h[l], a) = -LineAmount(l, a)
    OBVIOUS
  <2> DEFINE c == (IF l.batch \in DOMAIN amount THEN amount[l.batch] ELSE Content)[a]
  <2>1. c \in Int
    <3>1. (IF l.batch \in DOMAIN amount THEN amount[l.batch] ELSE Content) \in [Accounts -> Int]
      BY DEF BooksAssumption, BooksTyped
    <3> QED BY <3>1
  <2>2. LineAmount(l, a) = l.sign * c /\ LineAmount(h[l], a) = (-l.sign) * c
    BY DEF LineAmount
  <2>3. l.sign \in {1, -1}
    BY DEF Line
  <2> HIDE DEF c
  <2> QED BY <2>1, <2>2, <2>3
<1>5. IsFiniteSet(ls)
  BY LinesFinite
<1>6. \A l \in ls : g[l] \in Int /\ e[h[l]] = g[l]
  <2> HIDE DEF h
  <2>1. \A l \in ls : h[l] \in Mirror(ls)
    BY <1>1
  <2> QED BY <2>1, <1>3, <1>4
<1>7. \A l \in ls : f[l] \in Int /\ g[l] = -f[l]
  BY <1>3
<1>8. /\ \A l \in ls : h[l] \in Mirror(ls)
      /\ \A k \in Mirror(ls) : \E l \in ls : h[l] = k
  <2> HIDE DEF h
  <2> QED BY <1>1
<1> HIDE DEF h, f, e, g
<1>9. SumFunctionOnSet(e, Mirror(ls)) = SumFunctionOnSet(g, ls)
  BY <1>2, <1>5, <1>6, <1>8, SumImage, SMTT(60)
<1>10. SumFunctionOnSet(g, ls) = -SumFunctionOnSet(f, ls)
  BY <1>5, <1>7, SumOpposite
<1> QED BY <1>9, <1>10 DEF e, f

LEMMA EntriesCancel ==
  ASSUME BooksAssumption, BooksTyped, TypeOK, NEW a \in Accounts,
         NEW id \in EntryIds, NEW rev \in EntryIds, row[rev].lines = Mirror(row[id].lines)
  PROVE  EntryAmount(rev, a) = -EntryAmount(id, a)
<1>1. row[id].lines \in SUBSET Line
  BY DEF TypeOK, Row
<1>2. \A ls : SumFunction([l \in ls |-> LineAmount(l, a)])
              = SumFunctionOnSet([l \in ls |-> LineAmount(l, a)], ls)
  BY DEF SumFunction
<1> QED BY <1>1, <1>2, MirrorCancels DEF EntryAmount

LEMMA ReversedSum ==
  ASSUME BooksAssumption, BooksTyped, IInv, ReversalMirrors
  PROVE  ReversedCancel
<1> SUFFICES ASSUME NEW a \in Accounts
             PROVE  Sums(Reversed, a) + Sums({row[id].reversal : id \in Reversed}, a) = 0
  BY DEF ReversedCancel
<1> DEFINE S == Reversed
           h == [id \in S |-> row[id].reversal]
           T == {h[id] : id \in S}
           f == [id \in S |-> EntryAmount(id, a)]
           e == [id \in T |-> EntryAmount(id, a)]
           g == [id \in S |-> -EntryAmount(id, a)]
<1>0. TypeOK
  BY DEF IInv
<1>1. \A id \in S : id \in EntryIds /\ id \in Live /\ h[id] \in Live /\ h[id] \in EntryIds
                   /\ row[h[id]].lines = Mirror(row[id].lines)
  BY DEF Reversed, Live, IInv, RowInv, ReversalsBornPosted, ReversalMirrors
<1>2. \A i, k \in S : h[i] = h[k] => i = k
  BY <1>1, IInvImplies DEF ReversalPaired, Reversed
<1>3. \A id \in S : EntryAmount(id, a) \in Int /\ EntryAmount(h[id], a) = -EntryAmount(id, a)
  BY <1>0, <1>1, EntryAmountTyped, EntriesCancel
<1>4. IsFiniteSet(S)
  <2>1. S \subseteq EntryIds
    BY DEF Reversed, Live
  <2> QED BY <2>1, FS_Subset DEF BooksAssumption
<1>5. \A id \in S : g[id] \in Int /\ e[h[id]] = g[id]
  BY <1>3
<1>6. \A id \in S : f[id] \in Int /\ g[id] = -f[id]
  BY <1>3
<1>7. Sums(S, a) = SumFunctionOnSet(f, S) /\ Sums(T, a) = SumFunctionOnSet(e, T)
  BY DEF Sums, SumFunction
<1>8. T = {row[id].reversal : id \in Reversed}
  OBVIOUS
<1>9. /\ \A id \in S : h[id] \in T
      /\ \A k \in T : \E id \in S : h[id] = k
  OBVIOUS
<1> HIDE DEF S, h, f, e, g, T
<1>10. SumFunctionOnSet(e, T) = SumFunctionOnSet(g, S)
  BY <1>2, <1>4, <1>5, <1>9, SumImage
<1>11. SumFunctionOnSet(g, S) = -SumFunctionOnSet(f, S) /\ SumFunctionOnSet(f, S) \in Int
  BY <1>4, <1>6, SumOpposite, SumType
<1>12. Sums(S, a) + Sums(T, a) = 0
  BY <1>7, <1>10, <1>11
<1> QED BY <1>8, <1>12 DEF S

\* One request at a time, the reversed entries and their reversals cancel in the
\* reports, account by account, whatever the amounts and the length of a chain.
THEOREM ReversalsCancel ==
  ASSUME OneAtATime PROVE BooksSpec => []ReversedCancel
<1>1. IInv /\ BooksTyped /\ AloneInv => ReversedCancel
  BY BooksAssumption, ReversedSum DEF AloneInv
<1> QED BY <1>1, BooksBehave, PTL
=============================================================================
