------------------------------ MODULE Journal ------------------------------
(***************************************************************************)
(* The journal of AccountingService: entries, their numbering, and the     *)
(* accounting periods that open and close under them.                      *)
(*                                                                         *)
(* A request handler is a process.  Every handler is a sequence of reads   *)
(* of committed data followed by one commit (PostgreSQL's READ COMMITTED,  *)
(* the isolation every prisma.$transaction of the service runs under), so  *)
(* what a handler read may be stale when it writes.  The writes of a       *)
(* transaction are invisible until it commits and hold row locks until     *)
(* then: they are one action, at the commit.                               *)
(***************************************************************************)
EXTENDS Integers, FiniteSets

CONSTANTS
  Procs,        \* concurrent requests
  EntryIds,     \* ids the JournalEntry sequence can hand out
  NoId,         \* a null reversalId, or the id of a request about no entry
  PostDocs,     \* (sourceType, sourceId) of documents posted by the services
  DraftDocs,    \* (sourceType, sourceId) a manual draft may be given
  NoDoc,
  Batches,      \* line sets a handler inserts with one createMany
  Periods,      \* the REGULAR periods (year, month)
  Journals,
  JournalOf,    \* journalCodeFor: the journal of a document's source type
  Dates,
  MonthOf,      \* the period a date falls in
  MaxRev,       \* bound: longest chain of _REV suffixes
  MaxNumber     \* bound: numbers handed out in one journal and period

ASSUME ConstantsAssumption ==
  /\ NoId \notin EntryIds
  /\ NoDoc \notin PostDocs \union DraftDocs
  /\ Dates \subseteq Nat \ {0} /\ Dates # {}
  /\ Journals # {}
  /\ MonthOf \in [Dates -> Periods]
  /\ JournalOf \in [PostDocs -> Journals]
  /\ MaxRev \in Nat
  /\ MaxNumber \in Nat

VARIABLES
  row,      \* the JournalEntry table with the lines of each entry
  seq,      \* JournalSequence.current
  period,   \* the AccountingPeriod table
  today,    \* the server's date
  req       \* what each request has read so far

vars == <<row, seq, period, today, req>>

-----------------------------------------------------------------------------
(* Data.  Lines are abstracted to the insertion they came from: a batch is *)
(* one balanced list of lines, its sign -1 when debits and credits swapped. *)

Docs == PostDocs \union DraftDocs

Source == [doc : Docs, rev : 0..MaxRev]
NoSource == [doc |-> NoDoc, rev |-> 0]
Reversal(src) == [src EXCEPT !.rev = @ + 1]

Line == [batch : Batches, sign : {1, -1}]
MutMirror(lines) == lines     \* mutant: the reversal repeats its base
Mirror(lines) == {[batch |-> l.batch, sign |-> -l.sign] : l \in lines}

SomeDate == CHOOSE d \in Dates : TRUE
SomeJournal == CHOOSE j \in Journals : TRUE

Row == [status   : {"FREE", "DRAFT", "POSTED", "REVERSED", "DELETED"},
        born     : {"DRAFT", "POSTED"},
        src      : Source \union {NoSource},
        date     : Dates,
        period   : Periods,
        journal  : Journals,
        number   : Nat,                       \* 0 is null
        reversal : EntryIds \union {NoId},
        lines    : SUBSET Line]

FreeRow == [status |-> "FREE", born |-> "DRAFT", src |-> NoSource,
            date |-> SomeDate, period |-> MonthOf[SomeDate],
            journal |-> SomeJournal, number |-> 0, reversal |-> NoId,
            lines |-> {}]
DeletedRow == [FreeRow EXCEPT !.status = "DELETED"]

PeriodRow == [status   : {"ABSENT", "OPEN", "CLOSED", "LOCKED"},
              closedAt : BOOLEAN,
              until    : Dates \union {0}]    \* allowBackPostUntil, 0 is null
AbsentPeriod == [status |-> "ABSENT", closedAt |-> FALSE, until |-> 0]

Stages == {"idle", "insert", "post", "postWrite", "edit", "editWrite",
           "delete", "setDraft", "reverse", "reverseWrite", "mass",
           "close", "lock"}

Request == [stage   : Stages,
            id      : EntryIds \union {NoId},
            status  : {"DRAFT", "POSTED"},
            src     : Source \union {NoSource},
            date    : Dates,
            period  : Periods,
            journal : Journals,
            lines   : SUBSET Line,
            todo    : SUBSET EntryIds,
            flag    : BOOLEAN,
            closed  : BOOLEAN]

Idle == [stage |-> "idle", id |-> NoId, status |-> "DRAFT",
         src |-> NoSource, date |-> SomeDate, period |-> MonthOf[SomeDate],
         journal |-> SomeJournal, lines |-> {}, todo |-> {}, flag |-> FALSE,
         closed |-> FALSE]

TypeOK ==
  /\ row \in [EntryIds -> Row]
  /\ seq \in [Periods \X Journals -> Nat]
  /\ period \in [Periods -> PeriodRow]
  /\ today \in Dates
  /\ req \in [Procs -> Request]

Init ==
  /\ row = [id \in EntryIds |-> FreeRow]
  /\ seq = [k \in Periods \X Journals |-> 0]
  /\ period = [m \in Periods |-> AbsentPeriod]
  /\ today \in Dates
  /\ req = [p \in Procs |-> Idle]

-----------------------------------------------------------------------------
(* Helpers of the service. *)

Live == {id \in EntryIds : row[id].status \notin {"FREE", "DELETED"}}
HasSource(src) == \E id \in Live : row[id].src = src

\* assertOpenPeriod, on the committed period row; a missing row is open.
AssertOpenPeriod(d) ==
  LET pr == period[MonthOf[d]]
  IN  /\ pr.status \notin {"CLOSED", "LOCKED"}
      /\ pr.until # 0 => d <= pr.until

MutGetOrCreatePeriod(m) ==    \* mutant: the new row has no status
  period' = IF period[m].status = "ABSENT"
            THEN [period EXCEPT ![m].status = "NULL"] ELSE period

\* getOrCreatePeriodByDate: upsert that leaves the status of a row alone.
GetOrCreatePeriod(m) ==
  period' = IF period[m].status = "ABSENT"
            THEN [period EXCEPT ![m] = [AbsentPeriod EXCEPT !.status = "OPEN"]]
            ELSE period

\* allocateNumber: the upsert increments under the row lock of the sequence.
NextNumber(m, j) == seq[<<m, j>>] + 1
AllocateNumber(m, j) ==
  /\ seq[<<m, j>>] < MaxNumber
  /\ seq' = [seq EXCEPT ![<<m, j>>] = @ + 1]

\* The index @@unique([periodId, journalId, number]) accepts these values.
NumberIsFree(id, m, j, n) ==
  n # 0 => \A other \in Live \ {id} :
             ~(row[other].period = m /\ row[other].journal = j /\ row[other].number = n)

MutSourceIsFree(src) == TRUE            \* mutant: no check and no unique index

\* The index @@unique([sourceType, sourceId]) accepts this source.
SourceIsFree(src) == ~HasSource(src)

FreshBatches ==
  {b \in Batches :
     /\ \A id \in EntryIds : \A l \in row[id].lines : l.batch # b
     /\ \A p \in Procs : \A l \in req[p].lines : l.batch # b}

At(p, stage) == req[p].stage = stage
Finish(p) == req' = [req EXCEPT ![p] = Idle]

-----------------------------------------------------------------------------
(* createEntry, called by the posting of a document (status POSTED) and by *)
(* createManualEntry and createJournalEntry (status DRAFT).  Its two reads,*)
(* assertOpenPeriod and ensureIdempotency, are one step: what the second   *)
(* sees is checked again by the unique index at the commit.                *)

StartCreate(p, src, d, j, status) ==
  /\ At(p, "idle")
  /\ AssertOpenPeriod(d)
  /\ SourceIsFree(src)
  /\ req' = [req EXCEPT ![p] = [Idle EXCEPT !.stage = "insert", !.src = src,
                                  !.date = d, !.journal = j, !.status = status]]
  /\ UNCHANGED <<row, seq, period, today>>

PostDocument(p) ==
  \E doc \in PostDocs, d \in Dates :
    StartCreate(p, [doc |-> doc, rev |-> 0], d, JournalOf[doc], "POSTED")

CreateDraft(p) ==
  \E doc \in DraftDocs, d \in Dates, j \in Journals :
    StartCreate(p, [doc |-> doc, rev |-> 0], d, j, "DRAFT")

InsertPosted(p) ==
  LET r == req[p]  m == MonthOf[r.date]  n == NextNumber(m, r.journal)
  IN  /\ At(p, "insert") /\ r.status = "POSTED"
      /\ SourceIsFree(r.src)
      /\ \E id \in EntryIds, b \in FreshBatches :
           /\ row[id].status = "FREE"
           /\ NumberIsFree(id, m, r.journal, n)
           /\ row' = [row EXCEPT ![id] =
                [status |-> "POSTED", born |-> "POSTED", src |-> r.src,
                 date |-> r.date, period |-> m, journal |-> r.journal,
                 number |-> n, reversal |-> NoId,
                 lines |-> {[batch |-> b, sign |-> 1]}]]
      /\ AllocateNumber(m, r.journal)
      /\ GetOrCreatePeriod(m)
      /\ Finish(p)
      /\ UNCHANGED today

InsertDraft(p) ==
  LET r == req[p]  m == MonthOf[r.date]
  IN  /\ At(p, "insert") /\ r.status = "DRAFT"
      /\ SourceIsFree(r.src)
      /\ \E id \in EntryIds, b \in FreshBatches :
           /\ row[id].status = "FREE"
           /\ row' = [row EXCEPT ![id] =
                [status |-> "DRAFT", born |-> "DRAFT", src |-> r.src,
                 date |-> r.date, period |-> m, journal |-> r.journal,
                 number |-> 0, reversal |-> NoId,
                 lines |-> {[batch |-> b, sign |-> 1]}]]
      /\ GetOrCreatePeriod(m)
      /\ Finish(p)
      /\ UNCHANGED <<seq, today>>

-----------------------------------------------------------------------------
(* postManualEntry *)

ReadForPost(p) ==
  /\ At(p, "idle")
  /\ \E id \in Live :
       /\ row[id].status = "DRAFT"
       /\ req' = [req EXCEPT ![p] =
            [Idle EXCEPT !.stage = "post", !.id = id, !.date = row[id].date,
                         !.journal = row[id].journal]]
  /\ UNCHANGED <<row, seq, period, today>>

MutCheckPost(p) ==      \* mutant: posts into any period
  /\ At(p, "post")
  /\ req' = [req EXCEPT ![p].stage = "postWrite"]
  /\ UNCHANGED <<row, seq, period, today>>

CheckPost(p) ==
  /\ At(p, "post")
  /\ AssertOpenPeriod(req[p].date)
  /\ req' = [req EXCEPT ![p].stage = "postWrite"]
  /\ UNCHANGED <<row, seq, period, today>>

WritePost(p) ==
  LET r == req[p]  m == MonthOf[r.date]  n == NextNumber(m, r.journal)
  IN  /\ At(p, "postWrite")
      /\ r.id \in Live
      /\ NumberIsFree(r.id, m, r.journal, n)
      /\ row' = [row EXCEPT ![r.id] =
                   [@ EXCEPT !.status = "POSTED", !.period = m,
                             !.journal = r.journal, !.number = n]]
      /\ AllocateNumber(m, r.journal)
      /\ GetOrCreatePeriod(m)
      /\ Finish(p)
      /\ UNCHANGED today

-----------------------------------------------------------------------------
(* updateJournalEntry.  The period check and the snapshot deleteMany takes *)
(* of the lines are one step: a close between them may as well come after. *)

MutReadForEdit(p) ==    \* mutant: edits entries of any status
  /\ At(p, "idle")
  /\ \E id \in Live, d \in Dates, j \in Journals :
       req' = [req EXCEPT ![p] =
         [Idle EXCEPT !.stage = "edit", !.id = id, !.date = d, !.journal = j]]
  /\ UNCHANGED <<row, seq, period, today>>

ReadForEdit(p) ==
  /\ At(p, "idle")
  /\ \E id \in Live, d \in Dates, j \in Journals :
       /\ row[id].status = "DRAFT"
       /\ req' = [req EXCEPT ![p] =
            [Idle EXCEPT !.stage = "edit", !.id = id, !.date = d, !.journal = j]]
  /\ UNCHANGED <<row, seq, period, today>>

CheckEdit(p) ==
  /\ At(p, "edit")
  /\ req[p].id \in Live      \* the lines of a deleted entry have no parent
  /\ AssertOpenPeriod(req[p].date)
  /\ req' = [req EXCEPT ![p].stage = "editWrite", ![p].lines = row[req[p].id].lines]
  /\ UNCHANGED <<row, seq, period, today>>

MutWriteEdit(p) ==      \* mutant: periodId keeps the period of the old date
  LET r == req[p]
  IN  /\ At(p, "editWrite") /\ r.id \in Live
      /\ \E b \in FreshBatches :
           row' = [row EXCEPT ![r.id].date = r.date, ![r.id].journal = r.journal,
                              ![r.id].lines = {[batch |-> b, sign |-> 1]}]
      /\ GetOrCreatePeriod(MonthOf[r.date])
      /\ Finish(p)
      /\ UNCHANGED <<seq, today>>

WriteEdit(p) ==
  LET r == req[p]  m == MonthOf[r.date]
  IN  /\ At(p, "editWrite")
      /\ r.id \in Live
      /\ NumberIsFree(r.id, m, r.journal, row[r.id].number)
      /\ \E b \in FreshBatches :
           row' = [row EXCEPT ![r.id] =
                     [row[r.id] EXCEPT !.date = r.date, !.period = m,
                                       !.journal = r.journal,
                                       !.lines = (@ \ r.lines)
                                           \union {[batch |-> b, sign |-> 1]}]]
      /\ GetOrCreatePeriod(m)
      /\ Finish(p)
      /\ UNCHANGED <<seq, today>>

-----------------------------------------------------------------------------
(* deleteJournalEntry, and updateEntryStatus to DRAFT *)

MutReadForDelete(p) ==  \* mutant: deletes entries of any status
  /\ At(p, "idle")
  /\ \E id \in Live :
       req' = [req EXCEPT ![p] = [Idle EXCEPT !.stage = "delete", !.id = id]]
  /\ UNCHANGED <<row, seq, period, today>>

ReadForDelete(p) ==
  /\ At(p, "idle")
  /\ \E id \in Live :
       /\ row[id].status = "DRAFT"
       /\ req' = [req EXCEPT ![p] = [Idle EXCEPT !.stage = "delete", !.id = id]]
  /\ UNCHANGED <<row, seq, period, today>>

WriteDelete(p) ==
  /\ At(p, "delete")
  /\ req[p].id \in Live
  /\ row' = [row EXCEPT ![req[p].id] = DeletedRow]
  /\ Finish(p)
  /\ UNCHANGED <<seq, period, today>>

MutReadForDraft(p) ==   \* mutant: takes a numbered entry back to DRAFT
  /\ At(p, "idle")
  /\ \E id \in Live :
       /\ row[id].status # "REVERSED"
       /\ req' = [req EXCEPT ![p] = [Idle EXCEPT !.stage = "setDraft", !.id = id]]
  /\ UNCHANGED <<row, seq, period, today>>

ReadForDraft(p) ==
  /\ At(p, "idle")
  /\ \E id \in Live :
       /\ row[id].status # "REVERSED"
       /\ row[id].number = 0
       /\ req' = [req EXCEPT ![p] = [Idle EXCEPT !.stage = "setDraft", !.id = id]]
  /\ UNCHANGED <<row, seq, period, today>>

WriteDraft(p) ==
  /\ At(p, "setDraft")
  /\ req[p].id \in Live
  /\ row' = [row EXCEPT ![req[p].id].status = "DRAFT"]
  /\ Finish(p)
  /\ UNCHANGED <<seq, period, today>>

-----------------------------------------------------------------------------
(* reverseEntry, reverseBySource and massReversePeriodEntries.  The two    *)
(* period checks of reverseEntry are one step: only the later one decides. *)

MutReadBase(p, id, j, todo) ==    \* mutant: the base is read without its lines
  req' = [req EXCEPT ![p] =
    [Idle EXCEPT !.stage = "reverse", !.id = id, !.src = row[id].src,
                 !.journal = j, !.todo = todo]]

ReadBase(p, id, j, todo) ==
  req' = [req EXCEPT ![p] =
    [Idle EXCEPT !.stage = "reverse", !.id = id, !.src = row[id].src,
                 !.journal = j, !.lines = row[id].lines, !.todo = todo]]

ReadForReverse(p) ==
  /\ At(p, "idle")
  /\ \E id \in Live :
       /\ row[id].reversal = NoId
       /\ row[id].src.rev < MaxRev
       /\ ReadBase(p, id, row[id].journal, {})
  /\ UNCHANGED <<row, seq, period, today>>

ReadForReverseBySource(p) ==
  /\ At(p, "idle") /\ MaxRev > 0
  /\ \E id \in Live, doc \in PostDocs :
       /\ row[id].src = [doc |-> doc, rev |-> 0]
       /\ ~HasSource([doc |-> doc, rev |-> 1])
       /\ ReadBase(p, id, JournalOf[doc], {})
  /\ UNCHANGED <<row, seq, period, today>>

CheckReverse(p) ==
  /\ At(p, "reverse")
  /\ AssertOpenPeriod(today)
  /\ SourceIsFree(Reversal(req[p].src))
  /\ req' = [req EXCEPT ![p].stage = "reverseWrite", ![p].date = today]
  /\ UNCHANGED <<row, seq, period, today>>

WriteReverse(p) ==
  LET r == req[p]  m == MonthOf[r.date]  n == NextNumber(m, r.journal)
  IN  /\ At(p, "reverseWrite")
      /\ r.id \in Live
      /\ SourceIsFree(Reversal(r.src))
      /\ \E id \in EntryIds :
           /\ row[id].status = "FREE"
           /\ NumberIsFree(id, m, r.journal, n)
           /\ row' = [row EXCEPT
                ![r.id] = [@ EXCEPT !.status = "REVERSED", !.reversal = id],
                ![id] = [status |-> "POSTED", born |-> "POSTED",
                         src |-> Reversal(r.src), date |-> r.date, period |-> m,
                         journal |-> r.journal, number |-> n,
                         reversal |-> NoId, lines |-> Mirror(r.lines)]]
      /\ AllocateNumber(m, r.journal)
      /\ GetOrCreatePeriod(m)
      /\ req' = [req EXCEPT ![p] =
           IF r.todo = {} THEN Idle ELSE [Idle EXCEPT !.stage = "mass", !.todo = r.todo]]
      /\ UNCHANGED today

ReadForMass(p) ==
  /\ At(p, "idle")
  /\ \E m \in Periods :
       LET entries == {id \in Live : MonthOf[row[id].date] = m /\ row[id].status = "POSTED"}
       IN  /\ period[m].status # "ABSENT"
           /\ entries # {}
           /\ \A id \in entries : row[id].src.rev < MaxRev
           /\ req' = [req EXCEPT ![p] = [Idle EXCEPT !.stage = "mass", !.todo = entries]]
  /\ UNCHANGED <<row, seq, period, today>>

\* The next entry of the list: an entry already reversed is left alone.
NextOfMass(p) ==
  /\ At(p, "mass")
  /\ \E id \in req[p].todo \intersect Live :
       LET rest == req[p].todo \ {id}
       IN  IF row[id].reversal = NoId
           THEN ReadBase(p, id, row[id].journal, rest)
           ELSE req' = [req EXCEPT ![p] =
                  IF rest = {} THEN Idle ELSE [@ EXCEPT !.todo = rest]]
  /\ UNCHANGED <<row, seq, period, today>>

-----------------------------------------------------------------------------
(* closePeriod, openPeriod and lockPeriod: none of them in a transaction.  *)

CountDrafts(p) ==
  /\ At(p, "idle")
  /\ \E m \in Periods, lockAfterClose \in BOOLEAN :
       /\ \A id \in Live : ~(MonthOf[row[id].date] = m /\ row[id].status = "DRAFT")
       /\ req' = [req EXCEPT ![p] = [Idle EXCEPT !.stage = "close", !.period = m,
                                                 !.flag = lockAfterClose]]
  /\ UNCHANGED <<row, seq, period, today>>

WriteClose(p) ==
  /\ At(p, "close")
  /\ period' = [period EXCEPT ![req[p].period] =
       [status |-> IF req[p].flag THEN "LOCKED" ELSE "CLOSED",
        closedAt |-> TRUE, until |-> 0]]
  /\ Finish(p)
  /\ UNCHANGED <<row, seq, today>>

\* One upsert; closedAt keeps the time of the last close.
OpenPeriod(m) ==
  /\ \E d \in Dates :
       period' = [period EXCEPT ![m] = [@ EXCEPT !.status = "OPEN", !.until = d]]
  /\ UNCHANGED <<row, seq, today, req>>

ReadForLock(p) ==
  /\ At(p, "idle")
  /\ \E m \in Periods, lock \in BOOLEAN :
       /\ period[m].status # "ABSENT"
       /\ req' = [req EXCEPT ![p] = [Idle EXCEPT !.stage = "lock", !.period = m,
                                       !.flag = lock, !.closed = period[m].closedAt]]
  /\ UNCHANGED <<row, seq, period, today>>

MutWriteLock(p) ==      \* mutant: an unlock opens a closed month
  LET r == req[p]
  IN  /\ At(p, "lock")
      /\ period' = [period EXCEPT ![r.period].status =
           IF r.flag THEN "LOCKED" ELSE "OPEN"]
      /\ Finish(p)
      /\ UNCHANGED <<row, seq, today>>

WriteLock(p) ==
  LET r == req[p]
  IN  /\ At(p, "lock")
      /\ period' = [period EXCEPT ![r.period].status =
           IF r.flag THEN "LOCKED" ELSE IF r.closed THEN "CLOSED" ELSE "OPEN"]
      /\ Finish(p)
      /\ UNCHANGED <<row, seq, today>>

-----------------------------------------------------------------------------
\* A check or a constraint fails, a deadlock is broken, or the server dies.
Abort(p) ==
  /\ ~At(p, "idle")
  /\ Finish(p)
  /\ UNCHANGED <<row, seq, period, today>>

Tick ==
  /\ \E d \in Dates : d > today /\ today' = d
  /\ UNCHANGED <<row, seq, period, req>>

EntryHandler(p) ==
  \/ PostDocument(p) \/ CreateDraft(p) \/ InsertPosted(p) \/ InsertDraft(p)
  \/ ReadForPost(p) \/ CheckPost(p) \/ WritePost(p)
  \/ ReadForEdit(p) \/ CheckEdit(p) \/ WriteEdit(p)
  \/ ReadForDelete(p) \/ WriteDelete(p)
  \/ ReadForDraft(p) \/ WriteDraft(p)
  \/ ReadForReverse(p) \/ ReadForReverseBySource(p)
  \/ CheckReverse(p) \/ WriteReverse(p)
  \/ ReadForMass(p) \/ NextOfMass(p)
  \/ Abort(p)

PeriodHandler(p) ==
  \/ CountDrafts(p) \/ WriteClose(p)
  \/ ReadForLock(p) \/ WriteLock(p)

Step(p) == EntryHandler(p) \/ PeriodHandler(p)

Next ==
  \/ \E p \in Procs : Step(p)
  \/ \E m \in Periods : OpenPeriod(m)
  \/ Tick

Spec == Init /\ [][Next]_vars

-----------------------------------------------------------------------------
(* Properties that hold whatever requests run side by side. *)

\* Idempotency of postings ("Origen (idempotencia)"): a document, or a
\* reversal of it, has at most one entry, however often and however
\* concurrently its posting is attempted.
UniqueSource ==
  \A a, b \in Live : row[a].src = row[b].src => a = b

\* allocateNumber and the unique index: no two entries carry the same number
\* of a journal and period, though a stale edit may move a numbered entry.
UniqueNumber ==
  \A a, b \in Live :
    /\ row[a].number # 0
    /\ row[a].number = row[b].number
    /\ row[a].period = row[b].period
    /\ row[a].journal = row[b].journal
    => a = b

\* reversalId of reverseEntry and reverseBySource: it leads to a numbered entry
\* that carries the _REV source of its base, and to no other base.
ReversalPaired ==
  \A id \in Live :
    LET rev == row[id].reversal
    IN  rev # NoId =>
          /\ rev \in Live
          /\ row[rev].src = Reversal(row[id].src)
          /\ row[rev].number # 0
          /\ \A other \in Live \ {id} : row[other].reversal # rev

\* An entry posted by createEntry and reversed since is cancelled line by line
\* by its reversal, and only such an entry is REVERSED.
PostedReversalMirrors ==
  \A id \in Live :
    row[id].born = "POSTED" =>
      /\ row[id].status = "REVERSED" <=> row[id].reversal # NoId
      /\ row[id].status = "REVERSED" =>
           row[row[id].reversal].lines = Mirror(row[id].lines)

\* What createEntry posts is never edited, deleted, renumbered or taken back to
\* DRAFT: the one change it can see is its reversal.
Reverses(id) ==
  /\ row[id].status = "POSTED"
  /\ row'[id] = [row[id] EXCEPT !.status = "REVERSED", !.reversal = row'[id].reversal]

FreezesPosted ==
  \A id \in Live : row[id].born = "POSTED" => row'[id] = row[id] \/ Reverses(id)

PostedIsFrozen == [][FreezesPosted]_row

-----------------------------------------------------------------------------
(* The abstract ledger, for the documents no manual draft can be given the *)
(* source of: the services post them with their own sourceType.            *)

SystemDocs == PostDocs \ DraftDocs
SystemSource == [doc : SystemDocs, rev : 0..MaxRev]

EntryOf(src) == CHOOSE id \in Live : row[id].src = src

LedgerState(src) ==
  IF ~HasSource(src) THEN "none"
  ELSE IF row[EntryOf(src)].status = "REVERSED" THEN "reversed" ELSE "posted"

LedgerContent(src) == IF HasSource(src) THEN row[EntryOf(src)].lines ELSE {}

Ledger == INSTANCE DocumentLedger WITH
  Docs <- SystemDocs, Lines <- Line,
  state <- [src \in SystemSource |-> LedgerState(src)],
  content <- [src \in SystemSource |-> LedgerContent(src)]

\* createEntry and the two reversal handlers, raced by every other handler,
\* post and cancel each document of the services exactly once.
ImplementsLedger == Ledger!Spec

-----------------------------------------------------------------------------
(* The inductive strengthening of the properties above. *)

\* What a row keeps from its insertion: a row born POSTED stays so, numbered,
\* until it is reversed; a row born DRAFT has a source open to drafts.
RowsKeepBirth ==
  \A id \in Live :
    /\ row[id].src \in Source
    /\ row[id].born = "DRAFT" => row[id].src.doc \in DraftDocs
    /\ row[id].born = "POSTED" =>
         /\ row[id].status \in {"POSTED", "REVERSED"}
         /\ row[id].number # 0
         /\ row[id].status = "REVERSED" <=> row[id].reversal # NoId

ReversalsBornPosted ==
  \A id \in Live :
    row[id].reversal # NoId =>
      /\ row[id].reversal \in Live
      /\ row[row[id].reversal].born = "POSTED"
      /\ row[row[id].reversal].src = Reversal(row[id].src)

\* A handler that read a DRAFT holds a row born DRAFT, and one that read a
\* base holds its source, and its lines too if they can no longer change.
HoldsDraft(r) ==
  /\ r.id \in EntryIds
  /\ row[r.id].status # "FREE"
  /\ row[r.id].born = "DRAFT"

HoldsBase(r) ==
  /\ r.id \in EntryIds
  /\ row[r.id].status # "FREE"
  /\ r.src \in Source
  /\ r.src.rev < MaxRev
  /\ r.id \in Live => /\ r.src = row[r.id].src
                      /\ row[r.id].born = "POSTED" => r.lines = row[r.id].lines

RequestHolds(r) ==
  /\ r.stage \in {"post", "postWrite", "edit", "editWrite", "delete", "setDraft"}
       => HoldsDraft(r)
  /\ r.stage \in {"reverse", "reverseWrite"} => HoldsBase(r)
  /\ r.stage = "insert" =>
       /\ r.src \in Source
       /\ r.status = "POSTED" => r.src.rev = 0
       /\ r.status = "DRAFT" => r.src.doc \in DraftDocs
  /\ \A id \in r.todo :
       /\ row[id].status # "FREE"
       /\ id \in Live => row[id].src.rev < MaxRev

RequestsHold == \A p \in Procs : RequestHolds(req[p])

RowInv ==
  /\ UniqueSource
  /\ UniqueNumber
  /\ RowsKeepBirth
  /\ ReversalsBornPosted
  /\ PostedReversalMirrors

IInv == TypeOK /\ RowInv /\ RequestsHold

-----------------------------------------------------------------------------
(* Properties of the handlers one at a time (a single process). *)

\* Numbers of a journal and period run without gaps and only an entry that
\* was posted has one: neither a crash nor a refusal loses a number.
NumbersGapless ==
  \A m \in Periods, j \in Journals :
    {row[id].number : id \in {i \in Live : row[i].period = m /\ row[i].journal = j}} \ {0}
      = 1..seq[<<m, j>>]

\* periodId is the period of the entry's own date.
PeriodMatchesDate ==
  \A id \in Live : row[id].period = MonthOf[row[id].date]

\* A reversal swaps the lines its base has now, manual entries included.
ReversalMirrors ==
  \A id \in Live :
    row[id].reversal # NoId =>
      /\ row[id].status = "REVERSED"
      /\ row[row[id].reversal].lines = Mirror(row[id].lines)

\* "Solo los asientos en DRAFT se pueden editar": an entry that left DRAFT
\* keeps date, lines, number and journal, and is never deleted.
OnlyDraftsChange ==
  [][\A id \in Live : row[id].status # "DRAFT" => row'[id] = row[id] \/ Reverses(id)]_row

\* "El periodo esta CLOSED": no entry becomes POSTED in a closed or locked period.
NothingPostedIntoClosed ==
  [][\A id \in EntryIds :
       row'[id].status = "POSTED" /\ row[id].status # "POSTED" =>
         period[row'[id].period].status \notin {"CLOSED", "LOCKED"}]_row

\* Closed by closePeriod, and not reopened by openPeriod since.
Sealed(m) == period[m].closedAt /\ period[m].until = 0

\* "No se puede cerrar: hay asientos en DRAFT": a month that closePeriod closed
\* has no draft until openPeriod reopens it.  None is created in it, moved into
\* it or taken back to DRAFT, and lockPeriod unlocks it without opening it.
ClosedHasNoDraft ==
  \A m \in Periods : Sealed(m) =>
    \A id \in Live : ~(row[id].status = "DRAFT" /\ MonthOf[row[id].date] = m)

\* "DRAFT, sin numero": an entry has a number exactly when it is posted.
DraftsAreUnnumbered ==
  \A id \in Live : row[id].status = "DRAFT" => row[id].number = 0

=============================================================================
