SPECIFICATION BooksSpec
CONSTANTS
  Procs = {p1}
  EntryIds = {e1, e2, e3}
  NoId = NoId
  PostDocs = {inv, yclose, yequity}
  DraftDocs = {man}
  NoDoc = NoDoc
  Batches = {b1, b2, b3}
  Periods = {1, 2}
  Journals = {gj}
  JournalOf <- AllInOneJournal
  Dates = {1, 2}
  MonthOf <- MonthIsDate
  MaxRev = 1
  MaxNumber = 3
  cash = cash
  income = income
  expense = expense
  outcome = outcome
  profit = profit
  loss = loss
  Accounts <- Chart
  Nature <- NatureOf
  ResultAccounts <- IncomeAndExpense
  YearResult = outcome
  Profit = profit
  Loss = loss
  Content <- SaleAndExpense
  YearClose = yclose
  YearEquity = yequity
  YearEnd = 2
SYMMETRY Interchangeable
INVARIANTS
  YearCloseEmpties
