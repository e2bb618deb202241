------------------------------- MODULE Books -------------------------------
(***************************************************************************)
(* What the accounting reports read from the journal, and the close of the *)
(* fiscal year (closeFiscalYear), which writes to it from such a report.   *)
(*                                                                         *)
(* Journal keeps the lines of an entry as the insertion they came from;    *)
(* here each insertion has amounts, signed: debit above zero, credit below.*)
(* Accounts stand for the prefixes that the reports select by.             *)
(***************************************************************************)
EXTENDS Journal, Functions

CONSTANTS
  Accounts,     \* accounts of the chart that appear in the instance
  Nature,       \* CoaAccount.nature: "D" or "C"
  ResultAccounts, \* the accounts of 41 and 51
  YearResult,   \* ACCOUNTS.yearResult
  Profit, Loss, \* ACCOUNTS.retainedEarningsProfit and retainedEarningsLoss
  Content,      \* amounts of the lines a document or a draft has
  YearClose,    \* the source of YEAR_CLOSE of the year
  YearEquity,   \* the source of YEAR_CLOSE_EQUITY
  YearEnd       \* December 31st

ASSUME BooksAssumption ==
  /\ {YearResult, Profit, Loss} \subseteq Accounts
  /\ Nature \in [Accounts -> {"D", "C"}]
  /\ ResultAccounts \subseteq Accounts \ {YearResult, Profit, Loss}
  /\ Content \in [Accounts -> Int]
  /\ {YearClose, YearEquity} \subseteq PostDocs \ DraftDocs
  /\ YearClose # YearEquity
  /\ JournalOf[YearEquity] = JournalOf[YearClose]             \* GENERAL
  /\ IsFiniteSet(EntryIds) /\ IsFiniteSet(Batches)      \* 32-bit ids
  /\ IsFiniteSet(Accounts)
  /\ YearEnd \in Dates

VARIABLES
  amount,   \* insertion of the year's close -> account -> its amount
  year      \* the request that closes the year: what it has read

booksVars == <<row, seq, period, today, req, amount, year>>

-----------------------------------------------------------------------------
(* Reports.  A report adds the lines of the entries with a date in a range;*)
(* trialBalance, ledger, incomeStatement and balanceSheet take every entry,*)
(* drafts and reversed ones too, the others the POSTED ones.               *)

LineAmount(l, a) ==
  l.sign * (IF l.batch \in DOMAIN amount THEN amount[l.batch] ELSE Content)[a]

EntryAmount(id, a) == SumFunction([l \in row[id].lines |-> LineAmount(l, a)])

Sums(ids, a) == SumFunction([id \in ids |-> EntryAmount(id, a)])

\* accountBalance: the balance on the side of the account's nature.
AccountBalance(a, debitLessCredit) ==
  IF Nature[a] = "C" THEN -debitLessCredit ELSE debitLessCredit

\* collectAccountAggregates and buildJournalLineWhere, with no status given.
PostedIn(from, to) ==
  {id \in Live : row[id].date \in from..to /\ row[id].status = "POSTED"}

-----------------------------------------------------------------------------
(* closeFiscalYear.  The periods are those of the year.                    *)

NoYear == [stage |-> "idle", closing |-> [a \in Accounts |-> 0], result |-> 0]

\* The line that closes an account: a credit of its balance, or a debit.
ClosingLine(a, debitLessCredit) == -AccountBalance(a, debitLessCredit)

ReadYear ==
  LET posted == PostedIn(0, YearEnd)
      sums   == [a \in ResultAccounts |-> Sums(posted, a)]
      result == SumFunction([a \in ResultAccounts |-> AccountBalance(a, sums[a])])
  IN  /\ year.stage = "idle"
      /\ \A m \in Periods : period[m].status = "CLOSED"
      /\ \E a \in ResultAccounts : sums[a] # 0
      /\ year' = [stage   |-> "write",
                  closing |-> [a \in Accounts |->
                                 IF a \in ResultAccounts THEN ClosingLine(a, sums[a])
                                 ELSE IF a = YearResult THEN result ELSE 0],
                  result  |-> result]
      /\ UNCHANGED <<row, seq, period, today, req, amount>>

\* 36 -> Patrimonio: the profit, or the loss.
EquityLines(result) ==
  [a \in Accounts |->
     IF a = YearResult THEN result
     ELSE IF a = Profit /\ result > 0 THEN -result
     ELSE IF a = Loss /\ result < 0 THEN -result
     ELSE 0]

YearEntry(doc, b, n) ==
  [status |-> "POSTED", born |-> "POSTED", src |-> [doc |-> doc, rev |-> 0],
   date |-> YearEnd, period |-> MonthOf[YearEnd], journal |-> JournalOf[doc],
   number |-> n, reversal |-> NoId, lines |-> {[batch |-> b, sign |-> 1]}]

InsertYear(id1, id2, b1, b2, n, k) ==
  LET m == MonthOf[YearEnd]
      j == JournalOf[YearClose]
  IN  /\ id1 # id2 /\ row[id1].status = "FREE" /\ row[id2].status = "FREE"
      /\ b1 # b2
      /\ NumberIsFree(id1, m, j, n)
      /\ k = 2 => NumberIsFree(id2, m, j, n + 1)
      /\ row' = [row EXCEPT ![id1] = YearEntry(YearClose, b1, n),
                            ![id2] = IF k = 2 THEN YearEntry(YearEquity, b2, n + 1) ELSE row[id2]]
      /\ amount' = [b \in DOMAIN amount \union (IF k = 2 THEN {b1, b2} ELSE {b1}) |->
                      IF b = b1 THEN year.closing
                      ELSE IF b = b2 THEN EquityLines(year.result)
                      ELSE amount[b]]

\* The transaction: both entries, or the first alone when the result is zero.
WriteYear ==
  LET m == MonthOf[YearEnd]
      j == JournalOf[YearClose]
      k == IF year.result = 0 THEN 1 ELSE 2
  IN  /\ year.stage = "write"
      /\ AssertOpenPeriod(YearEnd)
      /\ SourceIsFree([doc |-> YearClose, rev |-> 0])
      /\ SourceIsFree([doc |-> YearEquity, rev |-> 0])
      /\ seq[<<m, j>>] + k <= MaxNumber
      /\ \E id1, id2 \in EntryIds, b1, b2 \in FreshBatches :
           InsertYear(id1, id2, b1, b2, NextNumber(m, j), k)
      /\ seq' = [seq EXCEPT ![<<m, j>>] = @ + k]
      /\ GetOrCreatePeriod(m)
      /\ year' = NoYear
      /\ UNCHANGED <<today, req>>

AbortYear ==
  /\ year.stage = "write"
  /\ year' = NoYear
  /\ UNCHANGED <<row, seq, period, today, req, amount>>

-----------------------------------------------------------------------------
BooksInit ==
  /\ Init
  /\ amount = <<>>
  /\ year = NoYear

\* No service posts a document with the sources of the year.
Posts(p) ==
  /\ EntryHandler(p)
  /\ At(p, "insert")' => req[p]'.src.doc \notin {YearClose, YearEquity}

BooksNext ==
  \/ \E p \in Procs :
       \/ Posts(p) /\ UNCHANGED <<amount, year>>
       \/ CountDrafts(p) /\ UNCHANGED <<amount, year>>
       \/ WriteClose(p) /\ UNCHANGED <<amount, year>>
       \/ ReadForLock(p) /\ UNCHANGED <<amount, year>>
       \/ WriteLock(p) /\ UNCHANGED <<amount, year>>
  \/ \E m \in Periods : OpenPeriod(m) /\ UNCHANGED <<amount, year>>
  \/ Tick /\ UNCHANGED <<amount, year>>
  \/ ReadYear
  \/ WriteYear
  \/ AbortYear

BooksSpec == BooksInit /\ [][BooksNext]_booksVars

-----------------------------------------------------------------------------
(* The entries that were reversed and their reversals cancel, account by   *)
(* account, in the reports that take every entry, whatever happened to     *)
(* either before and after.  A reversal that was reversed is in both sums. *)
Reversed == {id \in Live : row[id].reversal # NoId}

ReversedCancel ==
  \A a \in Accounts :
    Sums(Reversed, a) + Sums({row[id].reversal : id \in Reversed}, a) = 0

(* A month that is CLOSED or LOCKED keeps the numbered entries it has, and *)
(* their lines: no posting, edit, deletion, reversal or close of the year  *)
(* reaches back into it.                                                   *)
Shut(m) == period[m].status \in {"CLOSED", "LOCKED"}

FirmLines(m) ==
  {<<id, row[id].lines>> : id \in {i \in Live : row[i].number # 0 /\ MonthOf[row[i].date] = m}}

ShutMonthsStand ==
  [][\A m \in Periods : Shut(m) => FirmLines(m)' = FirmLines(m)]_row

(* "Cierre anual: 41/51 -> 36 (Resultado del ejercicio), luego 36 ->       *)
(* Patrimonio": when the year has been closed and nothing else was posted  *)
(* since, result and 36 are left without a balance.                        *)
YearCloseEmpties ==
  LET closed == {id \in Live : row[id].src = [doc |-> YearClose, rev |-> 0]}
  IN  \A id \in closed :
        (row[id].status = "POSTED" /\ \A other \in Live : row[other].number <= row[id].number + 1) =>
          \A a \in ResultAccounts \cup {YearResult} : Sums(PostedIn(0, YearEnd), a) = 0
=============================================================================
