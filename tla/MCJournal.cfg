SPECIFICATION EntriesSpec
CONSTANTS
  Procs = {p1, p2}
  EntryIds = {e1, e2, e3}
  NoId = NoId
  PostDocs = {inv}
  DraftDocs = {man}
  NoDoc = NoDoc
  Batches = {b1, b2, b3}
  Periods = {1, 2}
  Journals = {gj}
  JournalOf <- AllInOneJournal
  Dates = {1, 2}
  MonthOf <- MonthIsDate
  MaxRev = 1
  MaxNumber = 2
SYMMETRY Interchangeable
INVARIANTS
  ReversalPaired
  PostedReversalMirrors
PROPERTIES
  PostedIsFrozen
  ImplementsLedger
