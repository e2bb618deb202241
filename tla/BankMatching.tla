---------------------------- MODULE BankMatching ----------------------------
(***************************************************************************)
(* Bank statements: ImportService stores a file with its lines once,       *)
(* MatchingService suggests a journal line for each of them, marks the     *)
(* suggested journal lines as reconciled and takes the marks back.         *)
(*                                                                         *)
(* Suggesting reads the open journal lines once and then writes one line   *)
(* of the statement after another; applying and undoing read the           *)
(* suggestions before their transaction.  Amounts are whole units.         *)
(***************************************************************************)
EXTENDS Integers, FiniteSetsExt

CONSTANTS
  Calls,      \* concurrent requests
  Files,      \* files to import
  BankLines,  \* lines of the files, numbered by date
  FileOf,     \* the file of each
  JLines,     \* lines of bank accounts in the journal, numbered by date
  Amount,     \* of a statement line; of a journal line, credit less debit
  Day,
  RefSim,     \* similarity of two references, in percent
  Tolerance,  \* of days; that of the amount is zero
  MinScore,
  NoLine

ASSUME BankAssumption ==
  /\ BankLines \subseteq Nat /\ JLines \subseteq Nat
  /\ FileOf \in [BankLines -> Files]
  /\ Amount.bank \in [BankLines -> Int] /\ Amount.journal \in [JLines -> Int]
  /\ Day.bank \in [BankLines -> Nat] /\ Day.journal \in [JLines -> Nat]
  /\ RefSim \in [BankLines \X JLines -> 0..100]
  /\ Tolerance \in Nat /\ MinScore \in 0..100 /\ Files # {}
  /\ NoLine \notin Nat

VARIABLES
  statement,  \* status of the statement of each file
  stored,     \* how often the lines of the file were inserted
  link,       \* the journal line suggested for a statement line
  mark,       \* the statement line a journal line is reconciled with
  crossed,    \* history: journal lines two applications found open at once
  call        \* what each request has yet to do

bankVars == <<statement, stored, link, mark, crossed, call>>

-----------------------------------------------------------------------------
(* Scores. *)

Abs(x) == IF x < 0 THEN -x ELSE x
Sign(x) == IF x < 0 THEN -1 ELSE IF x > 0 THEN 1 ELSE 0
RoundHalfUp(n, d) == (2 * n + d) \div (2 * d)

AmountDiff(b, j) == Abs(Amount.journal[j] - Amount.bank[b])

\* Days beyond the tolerance, at most 14: there the date scores nothing.
LateBy(b, j) ==
  LET diff == Abs(Day.bank[b] - Day.journal[j])
  IN  IF diff <= Tolerance THEN 0 ELSE Min({14, diff - Tolerance})

\* 50 for the amount, falling with the difference; 30 for the date; 20 for the
\* reference.
Score(b, j) ==
  LET a == 1 + AmountDiff(b, j)
  IN  RoundHalfUp(50 * 1400 + 3000 * (14 - LateBy(b, j)) * a + 280 * RefSim[<<b, j>>] * a,
                  1400 * a)

MutComparable(b, j) == TRUE      \* mutant: the sign is not looked at
Comparable(b, j) ==
  /\ Sign(Amount.bank[b]) = Sign(Amount.journal[j])
  /\ AmountDiff(b, j) <= 5 * Abs(Amount.bank[b]) + 1

LinesOf(f) == {b \in BankLines : FileOf[b] = f}

\* Open lines not too far from the dates of the statement.
Candidates(f) ==
  LET days == {Day.bank[b] : b \in LinesOf(f)}
  IN  {j \in JLines : /\ mark[j] = NoLine
                      /\ Day.journal[j] >= Min(days) - (Tolerance + 7)
                      /\ Day.journal[j] <= Max(days) + (Tolerance + 7)}

\* The first of the best, if it is good enough.
Best(b, cands) ==
  LET pre == {j \in cands : Comparable(b, j)}
      top == {j \in pre : \A k \in pre : Score(b, k) <= Score(b, j)}
  IN  IF pre = {} \/ Score(b, Min(top)) < MinScore THEN NoLine ELSE Min(top)

-----------------------------------------------------------------------------
SomeFile == CHOOSE f \in Files : TRUE
NoMarks == [j \in JLines |-> NoLine]

NoCall == [stage |-> "idle", file |-> SomeFile, lines |-> {}, seen |-> {},
           links |-> [b \in BankLines |-> NoLine], clear |-> FALSE]

BankInit ==
  /\ statement = [f \in Files |-> "none"]
  /\ stored = [f \in Files |-> 0]
  /\ link = [b \in BankLines |-> NoLine]
  /\ mark = NoMarks
  /\ crossed = {}
  /\ call = [p \in Calls |-> NoCall]

CallAt(p, stage) == call[p].stage = stage
Proceed(p, r) == call' = [call EXCEPT ![p] = r]

\* Statements whose lines are there.
Ready(f) == statement[f] # "none" /\ stored[f] > 0

-----------------------------------------------------------------------------
(* Import. *)

ReadHash(p) ==
  /\ CallAt(p, "idle")
  /\ \E f \in Files : /\ statement[f] = "none"
                      /\ Proceed(p, [NoCall EXCEPT !.stage = "create", !.file = f])
  /\ UNCHANGED <<statement, stored, link, mark, crossed>>

\* The hash is unique: a file imported meanwhile is refused here.
MutHashIsFree(f) == TRUE         \* mutant: no unique index on the hash
HashIsFree(f) == statement[f] = "none"

CreateStatement(p) ==
  /\ CallAt(p, "create")
  /\ HashIsFree(call[p].file)
  /\ statement' = [statement EXCEPT ![call[p].file] = "parsed"]
  /\ Proceed(p, [call[p] EXCEPT !.stage = "lines"])
  /\ UNCHANGED <<stored, link, mark, crossed>>

StoreLines(p) ==
  /\ CallAt(p, "lines")
  /\ stored' = [stored EXCEPT ![call[p].file] = @ + 1]
  /\ Proceed(p, NoCall)
  /\ UNCHANGED <<statement, link, mark, crossed>>

\* The lines and their suggestions go with it, the marks stay.  Whoever works on
\* the statement fails at its next write: another import of the file has new ids.
DeleteStatement ==
  /\ \E f \in Files :
       /\ statement[f] # "none"
       /\ statement' = [statement EXCEPT ![f] = "none"]
       /\ stored' = [stored EXCEPT ![f] = 0]
       /\ link' = [b \in BankLines |-> IF FileOf[b] = f THEN NoLine ELSE link[b]]
       /\ call' = [p \in Calls |-> IF call[p].file = f /\ ~CallAt(p, "create") THEN NoCall ELSE call[p]]
  /\ UNCHANGED <<mark, crossed>>

-----------------------------------------------------------------------------
(* Suggestions. *)

StartSuggest(p) ==
  /\ CallAt(p, "idle")
  /\ \E f \in Files :
       /\ Ready(f)
       /\ Proceed(p, [NoCall EXCEPT !.stage = "suggest", !.file = f, !.lines = LinesOf(f),
                                    !.seen = Candidates(f)])
  /\ UNCHANGED <<statement, stored, link, mark, crossed>>

\* The lines one by one, in order; the candidates are those of the start.
SuggestLine(p) ==
  /\ CallAt(p, "suggest")
  /\ call[p].lines # {}
  /\ LET b == Min(call[p].lines) IN
       /\ link' = [link EXCEPT ![b] = Best(b, call[p].seen)]
       /\ Proceed(p, [call[p] EXCEPT !.lines = @ \ {b},
                                    !.clear = @ \/ Best(b, call[p].seen) # NoLine])
  /\ UNCHANGED <<statement, stored, mark, crossed>>

EndSuggest(p) ==
  /\ CallAt(p, "suggest")
  /\ call[p].lines = {}
  /\ statement' = [statement EXCEPT ![call[p].file] = IF call[p].clear THEN "matched" ELSE "parsed"]
  /\ Proceed(p, NoCall)
  /\ UNCHANGED <<stored, link, mark, crossed>>

-----------------------------------------------------------------------------
(* Applying and undoing. *)

Linked(f) == {b \in LinesOf(f) : link[b] # NoLine}

ReadLinks(p, stage, f, lines, clear) ==
  /\ CallAt(p, "idle")
  /\ Ready(f) /\ lines # {}
  /\ Proceed(p, [NoCall EXCEPT !.stage = stage, !.file = f, !.lines = lines, !.clear = clear,
                    !.links = [b \in BankLines |-> IF FileOf[b] = f THEN link[b] ELSE NoLine]])
  /\ UNCHANGED <<statement, stored, link, mark, crossed>>

StartApply(p) == \E f \in Files : ReadLinks(p, "apply", f, Linked(f), FALSE)

\* All of them or the lines asked for, with or without clearing the suggestions.
StartUndo(p) ==
  \E f \in Files, clear \in BOOLEAN :
    \E lines \in SUBSET Linked(f) : ReadLinks(p, "undo", f, lines, clear)

Targets(p) == {call[p].links[b] : b \in call[p].lines}

\* In its transaction: the journal lines that are still open.
MutOpen(S) == S                         \* mutant: marks what is marked already
Open(S) == {j \in S : mark[j] = NoLine}

CheckOpen(p) ==
  /\ CallAt(p, "apply")
  /\ Proceed(p, [call[p] EXCEPT !.stage = "marking", !.seen = Open(Targets(p))])
  /\ crossed' = crossed \union
       UNION {call[q].seen \intersect Open(Targets(p)) : q \in {q \in Calls : CallAt(q, "marking")}}
  /\ UNCHANGED <<statement, stored, link, mark>>

\* Each open line is marked by the first that points at it.
CommitMarks(p) ==
  /\ CallAt(p, "marking")
  /\ mark' = [j \in JLines |->
                IF j \in call[p].seen THEN Min({b \in call[p].lines : call[p].links[b] = j})
                ELSE mark[j]]
  /\ statement' = [statement EXCEPT ![call[p].file] =
                     IF call[p].seen = {} THEN "matched" ELSE "posted"]
  /\ Proceed(p, NoCall)
  /\ UNCHANGED <<stored, link, crossed>>

\* Whoever marked them.
CommitUndo(p) ==
  /\ CallAt(p, "undo")
  /\ mark' = [j \in JLines |-> IF j \in Targets(p) THEN NoLine ELSE mark[j]]
  /\ link' = [b \in BankLines |->
                IF call[p].clear /\ b \in call[p].lines THEN NoLine ELSE link[b]]
  /\ statement' = [statement EXCEPT ![call[p].file] = "matched"]
  /\ Proceed(p, NoCall)
  /\ UNCHANGED <<stored, crossed>>

\* A refusal, a row that is gone or a crash.
LoseCall(p) ==
  /\ ~CallAt(p, "idle")
  /\ Proceed(p, NoCall)
  /\ UNCHANGED <<statement, stored, link, mark, crossed>>

BankNext ==
  \/ DeleteStatement
  \/ \E p \in Calls :
       \/ ReadHash(p) \/ CreateStatement(p) \/ StoreLines(p)
       \/ StartSuggest(p) \/ SuggestLine(p) \/ EndSuggest(p)
       \/ StartApply(p) \/ CheckOpen(p) \/ CommitMarks(p)
       \/ StartUndo(p) \/ CommitUndo(p)
       \/ LoseCall(p)

BankSpec == BankInit /\ [][BankNext]_bankVars

-----------------------------------------------------------------------------
(* Properties. *)

BankTypeOK ==
  /\ statement \in [Files -> {"none", "parsed", "matched", "posted"}]
  /\ stored \in [Files -> Nat]
  /\ link \in [BankLines -> JLines \union {NoLine}]
  /\ mark \in [JLines -> BankLines \union {NoLine}]
  /\ crossed \subseteq JLines

\* Two imports of one file, a crash between header and lines, a deletion and
\* an import again: the lines of a file are never there twice, and lines without
\* a statement are never suggested anything.
LinesImportedOnce ==
  \A f \in Files :
    /\ stored[f] <= 1
    /\ ~Ready(f) => \A b \in LinesOf(f) : link[b] = NoLine

Good(b, j) == Sign(Amount.bank[b]) = Sign(Amount.journal[j]) /\ Score(b, j) >= MinScore

\* However suggestions, applications and undos cross, a journal line is only
\* reconciled with, and a statement line only linked to, one of its own sign with
\* the score asked for.
MatchesAreGood ==
  /\ \A j \in JLines : mark[j] # NoLine => Good(mark[j], j)
  /\ \A b \in BankLines : link[b] # NoLine => Good(b, link[b])

\* "ya conciliada; evitar dobles marcas": a reconciled line changes the line it is
\* reconciled with only through an undo, unless two applications had both found
\* it open in their transactions.
MarkStays ==
  [][\A j \in JLines \ crossed :
       mark[j] # NoLine => mark'[j] \in {mark[j], NoLine}]_<<mark>>
=============================================================================
