----------------------------- MODULE MCJournal -----------------------------
(* Two requests at once on one document and one draft, in two months. *)
EXTENDS Journal, TLC

MonthIsDate == [d \in Dates |-> d]            \* one date in each period
AllInOneJournal == [doc \in PostDocs |-> CHOOSE j \in Journals : TRUE]

\* Every handler of entries; closing, opening and locking a period are
\* checked in MCBooks.
EntriesNext == (\E p \in Procs : EntryHandler(p)) \/ Tick

EntriesSpec == Init /\ [][EntriesNext]_vars

Interchangeable ==
  Permutations(EntryIds) \union Permutations(Batches) \union Permutations(Procs)
=============================================================================
