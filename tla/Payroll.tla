------------------------------ MODULE Payroll ------------------------------
(***************************************************************************)
(* Payroll: PayrollService books the recognition of a month, its payment,  *)
(* contributions and advances as entries whose source is the employee, and *)
(* keeps one run per employee and month that points at the recognition and *)
(* at the payment and repeats the figures of the first.                    *)
(*                                                                         *)
(* Entry, run and the lines of the run are separate commits: a request may *)
(* be overtaken, or end, between any two.  Amounts are whole units.        *)
(***************************************************************************)
EXTENDS Integers, Sequences, FiniteSetsExt

CONSTANTS
  Procs,       \* concurrent requests
  Employees,   \* third parties that are paid
  Profiled,    \* those with an employee profile: the others get no runs
  Months,
  Slips,       \* amounts of a recognition
  Amounts      \* of a payment, a contribution or an advance

Slip == [earned : Nat, deducted : Nat, employer : Nat, provided : Nat, payable : Nat]

ASSUME ConstantsAssumption ==
  /\ Profiled \subseteq Employees
  /\ Slips # {} /\ Slips \subseteq Slip
  /\ Amounts \subseteq Nat \ {0}
  /\ Employees # {} /\ Months # {}

Kinds == {"RECOGNITION", "PAYMENT", "CONTRIBUTION", "ADVANCE"}

VARIABLES
  entry,     \* journal entry of each kind and employee: the source is unique
  run,       \* payroll run of each employee and month
  runLines,  \* its lines
  orphaned,  \* history: entries whose request ended before it reached the run
  req        \* what each request has yet to do

vars == <<entry, run, runLines, orphaned, req>>

-----------------------------------------------------------------------------
(* Lines of an entry, by class of account. *)

Line(class, debit, credit) == [class |-> class, debit |-> debit, credit |-> credit]

Debit(class, amount) == IF amount > 0 THEN <<Line(class, amount, 0)>> ELSE <<>>
Credit(class, amount) == IF amount > 0 THEN <<Line(class, 0, amount)>> ELSE <<>>

Balance(ls) == MapThenSumSet(LAMBDA k : ls[k].debit - ls[k].credit, DOMAIN ls)

Withheld(s) ==
  Debit("earning", s.earned) \o Credit("deduction", s.deducted)
  \o Debit("employer", s.employer) \o Credit("deduction", s.employer)
  \o Debit("provision", s.provided) \o Credit("provision", s.provided)

\* buildSimpleLines: what is not said to be payable is what balances the lines.
SlipLines(s) ==
  Withheld(s) \o
  Credit("payable", IF s.payable > 0 THEN s.payable ELSE Balance(Withheld(s)))

Balanced(ls) == ls # <<>> /\ Balance(ls) = 0

\* determineComponentKind: salaries payable (250505) are among the deductions.
ComponentKind(l) ==
  IF l.class = "payable" THEN "deduction" ELSE l.class

SumOf(ls, kind) ==
  MapThenSumSet(LAMBDA k : IF ComponentKind(ls[k]) = kind THEN ls[k].debit + ls[k].credit ELSE 0,
                DOMAIN ls)

Positive(x) == IF x > 0 THEN x ELSE 0

Metrics(ls) ==
  [gross |-> SumOf(ls, "earning"), deductions |-> SumOf(ls, "deduction"),
   employer |-> SumOf(ls, "employer"), provisions |-> SumOf(ls, "provision"),
   net |-> Positive(SumOf(ls, "earning") - SumOf(ls, "deduction"))]

-----------------------------------------------------------------------------
NoEntry == [month |-> CHOOSE m \in Months : TRUE, lines |-> <<>>]
Zero == Metrics(<<>>)
NoRun == [exists |-> FALSE, recognized |-> FALSE, paid |-> FALSE, figures |-> Zero]

SomeEmployee == CHOOSE e \in Employees : TRUE
Idle == [stage |-> "idle", kind |-> "PAYMENT", employee |-> SomeEmployee,
         month |-> NoEntry.month, lines |-> <<>>]

Init ==
  /\ entry = [x \in Kinds \X Employees |-> NoEntry]
  /\ run = [x \in Employees \X Months |-> NoRun]
  /\ runLines = [x \in Employees \X Months |-> <<>>]
  /\ orphaned = {}
  /\ req = [p \in Procs |-> Idle]

At(p, stage) == req[p].stage = stage
Go(p, stage) == req' = [req EXCEPT ![p].stage = stage]
Finish(p) == req' = [req EXCEPT ![p] = Idle]
Booked(k, e) == entry[<<k, e>>].lines # <<>>
RunOf(p) == <<req[p].employee, req[p].month>>

-----------------------------------------------------------------------------
(* Requests. *)

\* Only a recognition of the same employee in the same month is looked for.
Recognize(p) ==
  /\ At(p, "idle")
  /\ \E e \in Employees, m \in Months, s \in Slips :
       /\ Balanced(SlipLines(s))
       /\ ~(Booked("RECOGNITION", e) /\ entry[<<"RECOGNITION", e>>].month = m)
       /\ req' = [req EXCEPT ![p] = [stage |-> "insert", kind |-> "RECOGNITION",
                                     employee |-> e, month |-> m, lines |-> SlipLines(s)]]
  /\ UNCHANGED <<entry, run, runLines, orphaned>>

MoneyClass == [PAYMENT |-> "payable", CONTRIBUTION |-> "deduction", ADVANCE |-> "advance"]

Disburse(p) ==
  /\ At(p, "idle")
  /\ \E k \in Kinds \ {"RECOGNITION"}, e \in Employees, m \in Months, a \in Amounts :
       req' = [req EXCEPT ![p] =
                 [stage |-> "insert", kind |-> k, employee |-> e, month |-> m,
                  lines |-> <<Line(MoneyClass[k], a, 0), Line("bank", 0, a)>>]]
  /\ UNCHANGED <<entry, run, runLines, orphaned>>

\* A second entry of the kind for the employee is refused, whatever its month.
MutSourceIsFree(k, e) == TRUE       \* mutant: no unique index on the source
SourceIsFree(k, e) == ~Booked(k, e)

NextStage(k, e) ==
  IF e \notin Profiled \/ k \notin {"RECOGNITION", "PAYMENT"} THEN "idle"
  ELSE IF k = "RECOGNITION" THEN "run" ELSE "link"

InsertEntry(p) ==
  /\ At(p, "insert")
  /\ LET k == req[p].kind
         e == req[p].employee
     IN  /\ SourceIsFree(k, e)
         /\ entry' = [entry EXCEPT ![<<k, e>>] = [month |-> req[p].month, lines |-> req[p].lines]]
         /\ IF NextStage(k, e) = "idle" THEN Finish(p) ELSE Go(p, NextStage(k, e))
  /\ UNCHANGED <<run, runLines, orphaned>>

MutRecognized(r, f) ==      \* mutant: the row is written whole
  [exists |-> TRUE, recognized |-> TRUE, paid |-> FALSE, figures |-> f]
\* An update leaves the payment as it is.
Recognized(r, f) ==
  [exists |-> TRUE, recognized |-> TRUE, paid |-> r.paid, figures |-> f]

UpsertRun(p) ==
  /\ At(p, "run")
  /\ run' = [run EXCEPT ![RunOf(p)] = Recognized(@, Metrics(req[p].lines))]
  /\ Go(p, "clear")
  /\ UNCHANGED <<entry, runLines, orphaned>>

ClearLines(p) ==
  /\ At(p, "clear")
  /\ runLines' = [runLines EXCEPT ![RunOf(p)] = <<>>]
  /\ Go(p, "fill")
  /\ UNCHANGED <<entry, run, orphaned>>

FillLines(p) ==
  /\ At(p, "fill")
  /\ runLines' = [runLines EXCEPT ![RunOf(p)] = @ \o req[p].lines]
  /\ Finish(p)
  /\ UNCHANGED <<entry, run, orphaned>>

\* Updates the run of the month, and makes one if there was none.
LinkPayment(p) ==
  /\ At(p, "link")
  /\ IF run[RunOf(p)].exists
     THEN /\ run' = [run EXCEPT ![RunOf(p)].paid = TRUE]
          /\ Finish(p)
     ELSE /\ Go(p, "make")
          /\ UNCHANGED run
  /\ UNCHANGED <<entry, runLines, orphaned>>

\* One made meanwhile makes this fail: the employee and the month are unique.
MakeRun(p) ==
  /\ At(p, "make")
  /\ ~run[RunOf(p)].exists
  /\ run' = [run EXCEPT ![RunOf(p)] = [NoRun EXCEPT !.exists = TRUE, !.paid = TRUE]]
  /\ Finish(p)
  /\ UNCHANGED <<entry, runLines, orphaned>>

\* A refusal of the database, a closed period or a crash.
Lose(p) ==
  /\ ~At(p, "idle")
  /\ orphaned' = IF At(p, "insert") THEN orphaned
                 ELSE orphaned \union {<<req[p].kind, req[p].employee>>}
  /\ Finish(p)
  /\ UNCHANGED <<entry, run, runLines>>

Next ==
  \E p \in Procs :
    \/ Recognize(p) \/ Disburse(p) \/ InsertEntry(p)
    \/ UpsertRun(p) \/ ClearLines(p) \/ FillLines(p)
    \/ LinkPayment(p) \/ MakeRun(p)
    \/ Lose(p)

Spec == Init /\ [][Next]_vars

-----------------------------------------------------------------------------
(* Properties. *)

Figures == [gross : Nat, deductions : Nat, employer : Nat, provisions : Nat, net : Nat]

TypeOK ==
  /\ \A k \in Kinds, e \in Employees :
       entry[<<k, e>>].month \in Months /\ Balance(entry[<<k, e>>].lines) = 0
  /\ run \in [Employees \X Months ->
                [exists : BOOLEAN, recognized : BOOLEAN, paid : BOOLEAN, figures : Figures]]
  /\ orphaned \subseteq Kinds \X Employees

Busy(k, e) ==
  \E p \in Procs : /\ req[p].kind = k /\ req[p].employee = e
                   /\ req[p].stage \in {"run", "clear", "fill", "link", "make"}

\* What a run says is what is in the journal: a recognized run has the figures of
\* the recognition of its employee, of its month, and its lines are no others;
\* a paid one has the payment of the month; and a run without a recognition is
\* all zeros.
RunsFollowEntries ==
  \A e \in Employees, m \in Months :
    LET r == run[<<e, m>>] IN
    /\ r.recognized =>
         /\ Booked("RECOGNITION", e)
         /\ entry[<<"RECOGNITION", e>>].month = m
         /\ r.figures = Metrics(entry[<<"RECOGNITION", e>>].lines)
         /\ runLines[<<e, m>>] \in {<<>>, entry[<<"RECOGNITION", e>>].lines}
    /\ r.paid => Booked("PAYMENT", e) /\ entry[<<"PAYMENT", e>>].month = m
    /\ ~r.recognized => r.figures = Zero /\ runLines[<<e, m>>] = <<>>

\* An employee with a profile whose recognition or payment is in the journal has
\* it in the run of the month, lines included, unless its request was cut short:
\* the two requests may cross in any order, and neither loses the other's link.
EntriesReachRuns ==
  \A e \in Profiled :
    /\ Booked("RECOGNITION", e) /\ ~Busy("RECOGNITION", e)
         /\ <<"RECOGNITION", e>> \notin orphaned =>
         LET m == entry[<<"RECOGNITION", e>>].month IN
         run[<<e, m>>].recognized /\ runLines[<<e, m>>] = entry[<<"RECOGNITION", e>>].lines
    /\ Booked("PAYMENT", e) /\ ~Busy("PAYMENT", e) /\ <<"PAYMENT", e>> \notin orphaned =>
         run[<<e, entry[<<"PAYMENT", e>>].month>>].paid
=============================================================================
