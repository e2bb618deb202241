------------------------- MODULE BackOfficeProofs -------------------------
(***************************************************************************)
(* Theorems about Payroll, then about BankMatching: entries and runs,      *)
(* imports, suggestions and marks, for any number of requests, employees,  *)
(* months, slips, files, lines, amounts and dates; and last about          *)
(* InvoiceForm: the stock its lines show, for any lines and requests.  The *)
(* three components share no state, and no theorem is about two of them.   *)
(***************************************************************************)
EXTENDS Payroll, BankMatching, InvoiceForm, SequenceTheorems, FiniteSetTheorems,
        WellFoundedInduction, TLAPS

-----------------------------------------------------------------------------
(* Payroll. *)

\* The lines of every entry that a request may ask for, or of none.
LineLists ==
  {<<>>} \union {SlipLines(s) : s \in Slips}
  \union {<<Line(MoneyClass[x[1]], x[2], 0), Line("bank", 0, x[2])>> :
            x \in (Kinds \ {"RECOGNITION"}) \X Amounts}

Stages == {"idle", "insert", "run", "clear", "fill", "link", "make"}
Request == [stage : Stages, kind : Kinds, employee : Employees, month : Months,
            lines : LineLists]
Run == [exists : BOOLEAN, recognized : BOOLEAN, paid : BOOLEAN,
        figures : {Metrics(ls) : ls \in LineLists}]

Typed ==
  /\ entry \in [Kinds \X Employees -> [month : Months, lines : LineLists]]
  /\ run \in [Employees \X Months -> Run]
  /\ runLines \in [Employees \X Months -> LineLists]
  /\ req \in [Procs -> Request]

After(p) ==
  CASE req[p].kind = "RECOGNITION" -> req[p].stage \in {"run", "clear", "fill"}
    [] req[p].kind = "PAYMENT" -> req[p].stage \in {"link", "make"}
    [] OTHER -> FALSE

InFlight(p) == req[p].stage \in {"run", "clear", "fill", "link", "make"}

\* A request that has booked its entry is on its way to the run of an employee
\* with a profile, with the lines of the entry in hand.
Carried ==
  \A p \in Procs :
    /\ req[p].stage = "insert" => req[p].lines # <<>>
    /\ InFlight(p) =>
         /\ After(p)
         /\ req[p].employee \in Profiled
         /\ req[p].lines # <<>>
         /\ entry[<<req[p].kind, req[p].employee>>] =
              [month |-> req[p].month, lines |-> req[p].lines]

\* It is the only one with an entry of the kind for the employee.
Alone ==
  \A p, q \in Procs :
    InFlight(p) /\ InFlight(q) /\ req[p].kind = req[q].kind
      /\ req[p].employee = req[q].employee => p = q

\* Until it fills them, the lines of its run are empty.
Waiting ==
  \A p \in Procs :
    /\ req[p].stage \in {"run", "clear", "fill"} => runLines[RunOf(p)] = <<>>
    /\ req[p].stage \in {"clear", "fill"} => run[RunOf(p)].recognized

\* A run that was never made says nothing.
Fresh ==
  \A x \in Employees \X Months :
    ~run[x].exists => ~run[x].recognized /\ ~run[x].paid /\ run[x].figures = Zero

IInv == Typed /\ Carried /\ Alone /\ Waiting /\ Fresh /\ RunsFollowEntries /\ EntriesReachRuns

-----------------------------------------------------------------------------
(* Lines. *)

LEMMA SideType ==
  ASSUME NEW S, NEW c, NEW a, Line(c, a, 0) \in S, Line(c, 0, a) \in S
  PROVE  Debit(c, a) \in Seq(S) /\ Credit(c, a) \in Seq(S)
BY DEF Debit, Credit

LEMMA ListsAreSequences ==
  ASSUME NEW ls \in LineLists
  PROVE  <<>> \o ls = ls
<1>1. CASE ls = <<>>
  <2>1. <<>> \in Seq({})
    OBVIOUS
  <2>. QED
    BY <1>1, <2>1, ConcatEmptySeq
<1>2. ASSUME NEW s \in Slips, ls = SlipLines(s) PROVE <<>> \o ls = ls
  <2>1. PICK w : w = IF s.payable > 0 THEN s.payable ELSE Balance(Withheld(s))
    OBVIOUS
  <2>2. PICK C, A, S :
          /\ C = {"earning", "employer", "provision", "payable", "deduction"}
          /\ A = {s.earned, s.deducted, s.employer, s.provided, w}
          /\ S = {Line(x[1], x[2], 0) : x \in C \X A} \union {Line(x[1], 0, x[2]) : x \in C \X A}
    OBVIOUS
  <2>3. \A c \in C, a \in A : Debit(c, a) \in Seq(S) /\ Credit(c, a) \in Seq(S)
    <3>1. SUFFICES ASSUME NEW c \in C, NEW a \in A
                   PROVE  Debit(c, a) \in Seq(S) /\ Credit(c, a) \in Seq(S)
      OBVIOUS
    <3>2. <<c, a>> \in C \X A /\ <<c, a>>[1] = c /\ <<c, a>>[2] = a
      OBVIOUS
    <3>3. Line(c, a, 0) \in S /\ Line(c, 0, a) \in S
      BY <2>2, <3>2
    <3>. QED
      BY <3>3, SideType
  <2>4. Withheld(s) \in Seq(S)
    BY <2>2, <2>3, ConcatProperties DEF Withheld
  <2>5. ls \in Seq(S)
    BY <1>2, <2>1, <2>2, <2>3, <2>4, ConcatProperties DEF SlipLines
  <2>. QED
    BY <2>5, ConcatEmptySeq
<1>3. ASSUME NEW c, NEW d, ls = <<c, d>> PROVE <<>> \o ls = ls
  <2>1. ls \in Seq({c, d})
    BY <1>3
  <2>. QED
    BY <2>1, ConcatEmptySeq
<1>. QED
  BY <1>1, <1>2, <1>3 DEF LineLists

LEMMA Empties ==
  /\ <<>> \in LineLists
  /\ Zero \in {Metrics(ls) : ls \in LineLists}
  /\ NoEntry \in [month : Months, lines : LineLists] /\ NoEntry.lines = <<>>
  /\ NoRun \in Run /\ ~NoRun.exists /\ ~NoRun.recognized /\ ~NoRun.paid /\ NoRun.figures = Zero
  /\ Idle \in Request /\ Idle.stage = "idle"
<1>1. <<>> \in LineLists /\ Zero \in {Metrics(ls) : ls \in LineLists}
  BY DEF LineLists, Zero
<1>2. SomeEmployee \in Employees /\ NoEntry.month \in Months /\ NoEntry.lines = <<>>
  BY ConstantsAssumption DEF SomeEmployee, NoEntry
<1>3. NoEntry \in [month : Months, lines : LineLists]
  BY <1>1, <1>2 DEF NoEntry
<1>4. NoRun \in Run /\ ~NoRun.exists /\ ~NoRun.recognized /\ ~NoRun.paid /\ NoRun.figures = Zero
  BY <1>1 DEF NoRun, Run
<1>5. Idle \in Request /\ Idle.stage = "idle"
  BY <1>1, <1>2 DEF Idle, Request, Stages, Kinds
<1>. QED
  BY <1>1, <1>2, <1>3, <1>4, <1>5

LEMMA Initial == Init => IInv
<1>1. SUFFICES ASSUME Init PROVE IInv
  OBVIOUS
<1>2. Typed
  BY <1>1, Empties DEF Init, Typed
<1>3. Carried /\ Alone /\ Waiting
  BY <1>1, Empties DEF Init, Carried, Alone, Waiting, InFlight
<1>4. Fresh
  BY <1>1, Empties DEF Init, Fresh
<1>5. \A k \in Kinds, e \in Employees : ~Booked(k, e)
  BY <1>1, Empties DEF Init, Booked
<1>6. RunsFollowEntries
  BY <1>1, Empties DEF Init, RunsFollowEntries
<1>7. EntriesReachRuns
  BY <1>5, ConstantsAssumption DEF EntriesReachRuns, Kinds
<1>. QED
  BY <1>2, <1>3, <1>4, <1>6, <1>7 DEF IInv

-----------------------------------------------------------------------------
(* The steps. *)

LEMMA Kind ==
  ASSUME IInv, NEW p \in Procs, InFlight(p)
  PROVE  /\ req[p].kind = IF req[p].stage \in {"run", "clear", "fill"} THEN "RECOGNITION" ELSE "PAYMENT"
         /\ req[p].employee \in Profiled /\ req[p].lines # <<>>
         /\ entry[<<req[p].kind, req[p].employee>>] =
              [month |-> req[p].month, lines |-> req[p].lines]
         /\ Busy(req[p].kind, req[p].employee)
<1>1. req[p].kind = IF req[p].stage \in {"run", "clear", "fill"} THEN "RECOGNITION" ELSE "PAYMENT"
  BY DEF IInv, Carried, After, InFlight
<1>. QED
  BY <1>1 DEF IInv, Carried, InFlight, Busy

\* A request in flight that goes on.
LEMMA GoesOn ==
  ASSUME IInv, NEW p \in Procs, InFlight(p), NEW stage \in Stages,
         req[p].kind = "RECOGNITION" => stage \in {"run", "clear", "fill"},
         req[p].kind = "PAYMENT" => stage \in {"link", "make"},
         Go(p, stage), entry' = entry
  PROVE  /\ req' \in [Procs -> Request] /\ Carried' /\ Alone'
         /\ \A k \in Kinds, e \in Employees : Busy(k, e)' = Busy(k, e)
         /\ req'[p].stage = stage /\ RunOf(p)' = RunOf(p)
         /\ \A q \in Procs \ {p} : req'[q] = req[q]
<1>1. req[p] \in Request
  BY DEF IInv, Typed
<1>2. PICK r : r = [req[p] EXCEPT !.stage = stage]
  OBVIOUS
<1>3. /\ r \in Request /\ r.stage = stage /\ r.kind = req[p].kind
      /\ r.employee = req[p].employee /\ r.month = req[p].month /\ r.lines = req[p].lines
  BY <1>1, <1>2 DEF Request
<1>4. req' = [req EXCEPT ![p] = r]
  BY <1>2 DEF Go
<1>5. /\ req' \in [Procs -> Request] /\ req'[p] = r
      /\ \A q \in Procs \ {p} : req'[q] = req[q]
  BY <1>3, <1>4 DEF IInv, Typed
<1>6. req[p].kind \in {"RECOGNITION", "PAYMENT"}
  BY Kind
<1>7. stage \in {"run", "clear", "fill", "link", "make"}
  BY <1>6
<1>8. Carried'
  <2>1. SUFFICES ASSUME NEW q \in Procs
                 PROVE  /\ req'[q].stage = "insert" => req'[q].lines # <<>>
                        /\ InFlight(q)' =>
                             /\ After(q)'
                             /\ req'[q].employee \in Profiled
                             /\ req'[q].lines # <<>>
                             /\ entry'[<<req'[q].kind, req'[q].employee>>] =
                                  [month |-> req'[q].month, lines |-> req'[q].lines]
    BY DEF Carried
  <2>2. CASE q = p
    BY <1>3, <1>5, <1>6, <1>7, <2>2, Kind DEF After
  <2>3. CASE q # p
    BY <1>5, <2>3 DEF IInv, Carried, InFlight, After
  <2>. QED
    BY <2>2, <2>3
<1>9. Alone'
  BY <1>3, <1>5 DEF IInv, Alone, InFlight
<1>10. ASSUME NEW k \in Kinds, NEW e \in Employees PROVE Busy(k, e)' = Busy(k, e)
  BY <1>3, <1>5, <1>7 DEF Busy, InFlight
<1>. QED
  BY <1>3, <1>5, <1>8, <1>9, <1>10 DEF RunOf

\* A request that ends.
LEMMA Ends ==
  ASSUME IInv, NEW p \in Procs, Finish(p), entry' = entry
  PROVE  /\ req' \in [Procs -> Request] /\ Carried' /\ Alone'
         /\ \A k \in Kinds, e \in Employees :
              Busy(k, e) => Busy(k, e)' \/ (InFlight(p) /\ k = req[p].kind /\ e = req[p].employee)
         /\ req'[p].stage = "idle"
         /\ \A q \in Procs \ {p} : req'[q] = req[q]
<1>1. /\ req' \in [Procs -> Request] /\ req'[p] = Idle
      /\ \A q \in Procs \ {p} : req'[q] = req[q]
  BY Empties DEF Finish, IInv, Typed
<1>2. Carried' /\ Alone'
  BY <1>1, Empties DEF IInv, Carried, Alone, InFlight, After
<1>3. ASSUME NEW k \in Kinds, NEW e \in Employees, Busy(k, e)
      PROVE  Busy(k, e)' \/ (InFlight(p) /\ k = req[p].kind /\ e = req[p].employee)
  BY <1>1, <1>3 DEF Busy, InFlight
<1>. QED
  BY <1>1, <1>2, <1>3, Empties

LEMMA AskKeeps ==
  ASSUME IInv, NEW p \in Procs, Recognize(p) \/ Disburse(p)
  PROVE  IInv'
<1>1. UNCHANGED <<entry, run, runLines, orphaned>> /\ req[p].stage = "idle"
  BY DEF Recognize, Disburse, At
<1>2. \E r \in Request : /\ r.stage = "insert" /\ r.lines # <<>>
                         /\ req' = [req EXCEPT ![p] = r]
  <2>1. CASE Recognize(p)
    <3>1. PICK e \in Employees, m \in Months, s \in Slips :
            /\ SlipLines(s) # <<>>
            /\ req' = [req EXCEPT ![p] = [stage |-> "insert", kind |-> "RECOGNITION",
                                          employee |-> e, month |-> m, lines |-> SlipLines(s)]]
      BY <2>1 DEF Recognize, Balanced
    <3>2. SlipLines(s) \in LineLists
      BY DEF LineLists
    <3>3. [stage |-> "insert", kind |-> "RECOGNITION", employee |-> e, month |-> m,
           lines |-> SlipLines(s)] \in Request
      BY <3>2 DEF Request, Stages, Kinds
    <3>. QED
      BY <3>1, <3>3
  <2>2. CASE Disburse(p)
    <3>1. PICK k \in Kinds \ {"RECOGNITION"}, e \in Employees, m \in Months, a \in Amounts :
            req' = [req EXCEPT ![p] =
                      [stage |-> "insert", kind |-> k, employee |-> e, month |-> m,
                       lines |-> <<Line(MoneyClass[k], a, 0), Line("bank", 0, a)>>]]
      BY <2>2 DEF Disburse
    <3>2. PICK ls : ls = <<Line(MoneyClass[k], a, 0), Line("bank", 0, a)>>
      OBVIOUS
    <3>3. ls # <<>>
      BY <3>2
    <3>4. ls \in LineLists
      <4>1. /\ <<k, a>> \in (Kinds \ {"RECOGNITION"}) \X Amounts
            /\ <<k, a>>[1] = k /\ <<k, a>>[2] = a
        OBVIOUS
      <4>. QED
        BY <3>2, <4>1 DEF LineLists
    <3>5. [stage |-> "insert", kind |-> k, employee |-> e, month |-> m, lines |-> ls] \in Request
      BY <3>4 DEF Request, Stages
    <3>. QED
      BY <3>1, <3>2, <3>3, <3>5
  <2>. QED
    BY <2>1, <2>2
<1>3. PICK r \in Request : /\ r.stage = "insert" /\ r.lines # <<>>
                           /\ req' = [req EXCEPT ![p] = r]
  BY <1>2
<1>4. /\ req' \in [Procs -> Request] /\ req'[p] = r
      /\ \A q \in Procs \ {p} : req'[q] = req[q]
  BY <1>3 DEF IInv, Typed
<1>5. Typed'
  BY <1>1, <1>4 DEF IInv, Typed
<1>6. Carried' /\ Alone' /\ Waiting'
  BY <1>1, <1>3, <1>4 DEF IInv, Carried, Alone, Waiting, InFlight, After, RunOf
<1>7. Fresh' /\ RunsFollowEntries'
  BY <1>1 DEF IInv, Fresh, RunsFollowEntries, Booked
<1>8. ASSUME NEW k \in Kinds, NEW e \in Employees PROVE Busy(k, e)' = Busy(k, e)
  BY <1>1, <1>3, <1>4 DEF Busy
<1>9. EntriesReachRuns'
  BY <1>1, <1>8, ConstantsAssumption DEF IInv, EntriesReachRuns, Booked, Kinds
<1>. QED
  BY <1>5, <1>6, <1>7, <1>9 DEF IInv

LEMMA LoseKeeps ==
  ASSUME IInv, NEW p \in Procs, Lose(p)
  PROVE  IInv'
<1>1. UNCHANGED <<entry, run, runLines>> /\ Finish(p) /\ orphaned \subseteq orphaned'
  BY DEF Lose
<1>2. /\ req' \in [Procs -> Request] /\ Carried' /\ Alone' /\ req'[p].stage = "idle"
      /\ \A k \in Kinds, e \in Employees :
           Busy(k, e) => Busy(k, e)' \/ (InFlight(p) /\ k = req[p].kind /\ e = req[p].employee)
      /\ \A q \in Procs \ {p} : req'[q] = req[q]
  BY <1>1, Ends
<1>3. InFlight(p) => <<req[p].kind, req[p].employee>> \in orphaned'
  BY DEF Lose, At, InFlight
<1>4. Typed' /\ Fresh' /\ RunsFollowEntries'
  BY <1>1, <1>2 DEF IInv, Typed, Fresh, RunsFollowEntries, Booked
<1>5. Waiting'
  BY <1>1, <1>2 DEF IInv, Waiting, RunOf
<1>6. EntriesReachRuns'
  BY <1>1, <1>2, <1>3, ConstantsAssumption DEF IInv, EntriesReachRuns, Booked, Kinds
<1>. QED
  BY <1>2, <1>4, <1>5, <1>6 DEF IInv

LEMMA InsertKeeps ==
  ASSUME IInv, NEW p \in Procs, InsertEntry(p)
  PROVE  IInv'
<1>0. /\ req[p] \in Request /\ req[p].stage = "insert" /\ req[p].lines # <<>>
      /\ UNCHANGED <<run, runLines, orphaned>>
  BY DEF InsertEntry, At, IInv, Typed, Carried
<1>1. PICK k \in Kinds, e \in Employees : k = req[p].kind /\ e = req[p].employee
  BY <1>0 DEF Request
<1>2. PICK row : row = [month |-> req[p].month, lines |-> req[p].lines]
  OBVIOUS
<1>3. /\ row \in [month : Months, lines : LineLists] /\ row.lines # <<>>
      /\ row.month = req[p].month /\ row.lines = req[p].lines
  BY <1>0, <1>2 DEF Request
<1>4. /\ ~Booked(k, e)
      /\ entry' = [entry EXCEPT ![<<k, e>>] = row]
      /\ IF NextStage(k, e) = "idle" THEN Finish(p) ELSE Go(p, NextStage(k, e))
  BY <1>1, <1>2 DEF InsertEntry, SourceIsFree
<1>5. \E r \in Request :
        /\ req' = [req EXCEPT ![p] = r]
        /\ \/ r.stage = "idle" /\ NextStage(k, e) = "idle"
           \/ /\ r.stage = NextStage(k, e) /\ NextStage(k, e) \in {"run", "link"}
              /\ r.kind = k /\ r.employee = e /\ r.month = row.month /\ r.lines = row.lines
  <2>1. CASE NextStage(k, e) = "idle"
    BY <1>4, <2>1, Empties DEF Finish
  <2>2. CASE NextStage(k, e) # "idle"
    <3>1. NextStage(k, e) \in {"run", "link"}
      BY <2>2 DEF NextStage
    <3>2. PICK r : r = [req[p] EXCEPT !.stage = NextStage(k, e)]
      OBVIOUS
    <3>3. /\ r \in Request /\ r.stage = NextStage(k, e) /\ r.kind = k /\ r.employee = e
          /\ r.month = row.month /\ r.lines = row.lines
      BY <1>0, <1>1, <1>3, <3>1, <3>2 DEF Request, Stages
    <3>. QED
      BY <1>4, <2>2, <3>1, <3>2, <3>3 DEF Go
  <2>. QED
    BY <2>1, <2>2
<1>6. PICK r \in Request :
        /\ req' = [req EXCEPT ![p] = r]
        /\ \/ r.stage = "idle" /\ NextStage(k, e) = "idle"
           \/ /\ r.stage = NextStage(k, e) /\ NextStage(k, e) \in {"run", "link"}
              /\ r.kind = k /\ r.employee = e /\ r.month = row.month /\ r.lines = row.lines
  BY <1>5
<1>7. /\ req' \in [Procs -> Request] /\ req'[p] = r
      /\ \A q \in Procs \ {p} : req'[q] = req[q]
  BY <1>6 DEF IInv, Typed
<1>8. /\ entry' \in [Kinds \X Employees -> [month : Months, lines : LineLists]]
      /\ entry'[<<k, e>>] = row
      /\ \A x \in (Kinds \X Employees) \ {<<k, e>>} : entry'[x] = entry[x]
  BY <1>3, <1>4 DEF IInv, Typed
<1>9. \A c \in Kinds, f \in Employees :
        /\ Booked(c, f) => <<c, f>> # <<k, e>> /\ Booked(c, f)' /\ entry'[<<c, f>>] = entry[<<c, f>>]
        /\ Booked(c, f)' => Booked(c, f) \/ (c = k /\ f = e)
  BY <1>3, <1>4, <1>8 DEF Booked
<1>10. \A q \in Procs : InFlight(q) => Booked(req[q].kind, req[q].employee)
  <2>1. SUFFICES ASSUME NEW q \in Procs, InFlight(q)
                 PROVE  entry[<<req[q].kind, req[q].employee>>].lines # <<>>
    BY DEF Booked
  <2>2. /\ req[q].lines # <<>>
        /\ entry[<<req[q].kind, req[q].employee>>] =
             [month |-> req[q].month, lines |-> req[q].lines]
    BY <2>1 DEF IInv, Carried
  <2>. QED
    BY <2>2
<1>11. /\ NextStage(k, e) = "run" => k = "RECOGNITION" /\ e \in Profiled
       /\ NextStage(k, e) = "link" => k = "PAYMENT" /\ e \in Profiled
       /\ NextStage(k, e) = "idle" => e \notin Profiled \/ k \notin {"RECOGNITION", "PAYMENT"}
  BY DEF NextStage
<1>12. Typed'
  BY <1>0, <1>7, <1>8 DEF IInv, Typed
<1>13. Carried'
  <2>1. SUFFICES ASSUME NEW q \in Procs
                 PROVE  /\ req'[q].stage = "insert" => req'[q].lines # <<>>
                        /\ InFlight(q)' =>
                             /\ After(q)'
                             /\ req'[q].employee \in Profiled
                             /\ req'[q].lines # <<>>
                             /\ entry'[<<req'[q].kind, req'[q].employee>>] =
                                  [month |-> req'[q].month, lines |-> req'[q].lines]
    BY DEF Carried
  <2>2. CASE q = p
    BY <1>2, <1>3, <1>6, <1>7, <1>8, <1>11, <2>2 DEF InFlight, After
  <2>3. CASE q # p
    <3>1. req[q].kind \in Kinds /\ req[q].employee \in Employees
      BY DEF IInv, Typed, Request
    <3>. QED
      BY <1>7, <1>9, <1>10, <2>3, <3>1 DEF IInv, Carried, InFlight, After
  <2>. QED
    BY <2>2, <2>3
<1>14. Alone'
  BY <1>4, <1>6, <1>7, <1>10 DEF IInv, Alone, InFlight
<1>15. ASSUME NEW f \in Employees, NEW m \in Months, run[<<f, m>>].recognized
       PROVE  Booked("RECOGNITION", f)
  BY <1>15 DEF IInv, RunsFollowEntries
<1>16. Waiting'
  <2>1. SUFFICES ASSUME NEW q \in Procs
                 PROVE  /\ req'[q].stage \in {"run", "clear", "fill"} => runLines'[RunOf(q)'] = <<>>
                        /\ req'[q].stage \in {"clear", "fill"} => run'[RunOf(q)'].recognized
    BY DEF Waiting
  <2>2. CASE q # p
    BY <1>0, <1>7, <2>2 DEF IInv, Waiting, RunOf
  <2>3. CASE q = p /\ r.stage # "run"
    BY <1>6, <1>7, <2>3
  <2>4. CASE q = p /\ r.stage = "run"
    <3>1. r.kind = "RECOGNITION" /\ r.employee = e /\ k = "RECOGNITION" /\ r.month \in Months
      BY <1>6, <1>11, <2>4 DEF Request
    <3>2. ~run[<<e, r.month>>].recognized
      BY <1>4, <1>15, <3>1
    <3>3. runLines[<<e, r.month>>] = <<>>
      BY <3>1, <3>2 DEF IInv, RunsFollowEntries
    <3>. QED
      BY <1>0, <1>7, <2>4, <3>1, <3>3 DEF RunOf
  <2>. QED
    BY <2>2, <2>3, <2>4
<1>17. Fresh'
  BY <1>0 DEF IInv, Fresh
<1>18. RunsFollowEntries'
  <2>1. SUFFICES ASSUME NEW f \in Employees, NEW m \in Months
                 PROVE  /\ run[<<f, m>>].recognized =>
                            /\ Booked("RECOGNITION", f)'
                            /\ entry'[<<"RECOGNITION", f>>].month = m
                            /\ run[<<f, m>>].figures = Metrics(entry'[<<"RECOGNITION", f>>].lines)
                            /\ runLines[<<f, m>>] \in {<<>>, entry'[<<"RECOGNITION", f>>].lines}
                        /\ run[<<f, m>>].paid =>
                            Booked("PAYMENT", f)' /\ entry'[<<"PAYMENT", f>>].month = m
                        /\ ~run[<<f, m>>].recognized =>
                            run[<<f, m>>].figures = Zero /\ runLines[<<f, m>>] = <<>>
    BY <1>0 DEF RunsFollowEntries
  <2>2. "RECOGNITION" \in Kinds /\ "PAYMENT" \in Kinds
    BY DEF Kinds
  <2>3. /\ run[<<f, m>>].recognized =>
             /\ Booked("RECOGNITION", f)
             /\ entry[<<"RECOGNITION", f>>].month = m
             /\ run[<<f, m>>].figures = Metrics(entry[<<"RECOGNITION", f>>].lines)
             /\ runLines[<<f, m>>] \in {<<>>, entry[<<"RECOGNITION", f>>].lines}
        /\ run[<<f, m>>].paid => Booked("PAYMENT", f) /\ entry[<<"PAYMENT", f>>].month = m
        /\ ~run[<<f, m>>].recognized =>
             run[<<f, m>>].figures = Zero /\ runLines[<<f, m>>] = <<>>
    BY DEF IInv, RunsFollowEntries
  <2>4. /\ Booked("RECOGNITION", f) => /\ Booked("RECOGNITION", f)'
                                      /\ entry'[<<"RECOGNITION", f>>] = entry[<<"RECOGNITION", f>>]
        /\ Booked("PAYMENT", f) => /\ Booked("PAYMENT", f)'
                                  /\ entry'[<<"PAYMENT", f>>] = entry[<<"PAYMENT", f>>]
    BY <1>9, <2>2
  <2>. QED
    BY <2>3, <2>4
<1>19. ASSUME NEW c \in Kinds, NEW f \in Employees, Busy(c, f) PROVE Busy(c, f)'
  BY <1>0, <1>7, <1>19 DEF Busy
<1>20. ASSUME e \in Profiled, k \in {"RECOGNITION", "PAYMENT"} PROVE Busy(k, e)'
  BY <1>6, <1>7, <1>11, <1>20 DEF Busy
<1>21. EntriesReachRuns'
  <2>1. SUFFICES ASSUME NEW f \in Profiled
                 PROVE  /\ Booked("RECOGNITION", f)' /\ ~Busy("RECOGNITION", f)' =>
                             /\ Booked("RECOGNITION", f) /\ ~Busy("RECOGNITION", f)
                             /\ entry'[<<"RECOGNITION", f>>] = entry[<<"RECOGNITION", f>>]
                        /\ Booked("PAYMENT", f)' /\ ~Busy("PAYMENT", f)' =>
                             /\ Booked("PAYMENT", f) /\ ~Busy("PAYMENT", f)
                             /\ entry'[<<"PAYMENT", f>>] = entry[<<"PAYMENT", f>>]
    BY <1>0 DEF IInv, EntriesReachRuns
  <2>2. "RECOGNITION" \in Kinds /\ "PAYMENT" \in Kinds /\ f \in Employees
    BY ConstantsAssumption DEF Kinds
  <2>. QED
    BY <1>9, <1>19, <1>20, <2>2
<1>. QED
  BY <1>12, <1>13, <1>14, <1>16, <1>17, <1>18, <1>21 DEF IInv

LEMMA UpsertKeeps ==
  ASSUME IInv, NEW p \in Procs, UpsertRun(p)
  PROVE  IInv'
<1>0. /\ InFlight(p) /\ req[p].stage = "run" /\ req[p] \in Request
      /\ UNCHANGED <<entry, runLines, orphaned>> /\ Go(p, "clear")
  BY DEF UpsertRun, At, InFlight, IInv, Typed
<1>1. PICK e \in Employees, m \in Months, ls \in LineLists :
        e = req[p].employee /\ m = req[p].month /\ ls = req[p].lines
  BY <1>0 DEF Request
<1>2. /\ req[p].kind = "RECOGNITION"
      /\ entry[<<"RECOGNITION", e>>] = [month |-> m, lines |-> ls]
      /\ ls # <<>> /\ RunOf(p) = <<e, m>> /\ runLines[<<e, m>>] = <<>>
  BY <1>0, <1>1, Kind DEF RunOf, IInv, Waiting
<1>3. /\ req' \in [Procs -> Request] /\ Carried' /\ Alone'
      /\ \A k \in Kinds, f \in Employees : Busy(k, f)' = Busy(k, f)
      /\ req'[p].stage = "clear" /\ RunOf(p)' = RunOf(p)
      /\ \A q \in Procs \ {p} : req'[q] = req[q]
  BY <1>0, <1>2, GoesOn DEF Stages
<1>4. run[<<e, m>>] \in Run
  BY DEF IInv, Typed
<1>5. PICK r : r = Recognized(run[<<e, m>>], Metrics(ls))
  OBVIOUS
<1>6. /\ r \in Run /\ r.exists /\ r.recognized /\ r.paid = run[<<e, m>>].paid
      /\ r.figures = Metrics(ls)
  BY <1>4, <1>5 DEF Recognized, Run
<1>7. run' = [run EXCEPT ![<<e, m>>] = r]
  BY <1>1, <1>2, <1>5 DEF UpsertRun
<1>8. /\ run' \in [Employees \X Months -> Run] /\ run'[<<e, m>>] = r
      /\ \A x \in (Employees \X Months) \ {<<e, m>>} : run'[x] = run[x]
  BY <1>6, <1>7 DEF IInv, Typed
<1>9. \A x \in Employees \X Months : /\ run[x].recognized => run'[x].recognized
                                     /\ run'[x].paid = run[x].paid
  BY <1>6, <1>8
<1>10. Typed' /\ Fresh'
  BY <1>0, <1>3, <1>6, <1>8 DEF IInv, Typed, Fresh
<1>11. Waiting'
  <2>1. \A q \in Procs : RunOf(q) \in Employees \X Months
    BY DEF IInv, Typed, Request, RunOf
  <2>2. \A q \in Procs \ {p} : RunOf(q)' = RunOf(q)
    BY <1>3 DEF RunOf
  <2>. QED
    BY <1>0, <1>2, <1>3, <1>6, <1>8, <1>9, <2>1, <2>2 DEF IInv, Waiting
<1>12. RunsFollowEntries'
  <2>1. SUFFICES ASSUME NEW f \in Employees, NEW n \in Months
                 PROVE  /\ run'[<<f, n>>].recognized =>
                            /\ Booked("RECOGNITION", f)
                            /\ entry[<<"RECOGNITION", f>>].month = n
                            /\ run'[<<f, n>>].figures = Metrics(entry[<<"RECOGNITION", f>>].lines)
                            /\ runLines[<<f, n>>] \in {<<>>, entry[<<"RECOGNITION", f>>].lines}
                        /\ run'[<<f, n>>].paid =>
                            Booked("PAYMENT", f) /\ entry[<<"PAYMENT", f>>].month = n
                        /\ ~run'[<<f, n>>].recognized =>
                            run'[<<f, n>>].figures = Zero /\ runLines[<<f, n>>] = <<>>
    BY <1>0, ZenonT(60) DEF RunsFollowEntries, Booked
  <2>2. CASE <<f, n>> = <<e, m>>
    BY <1>2, <1>6, <1>8, <2>2 DEF Booked, IInv, RunsFollowEntries
  <2>3. CASE <<f, n>> # <<e, m>>
    BY <1>8, <2>3 DEF IInv, RunsFollowEntries
  <2>. QED
    BY <2>2, <2>3
<1>13. EntriesReachRuns'
  <2>1. SUFFICES ASSUME NEW f \in Profiled
                 PROVE  /\ Booked("RECOGNITION", f) /\ ~Busy("RECOGNITION", f) =>
                             /\ entry[<<"RECOGNITION", f>>].month \in Months
                             /\ \A n \in Months : run[<<f, n>>].recognized => run'[<<f, n>>].recognized
                        /\ Booked("PAYMENT", f) =>
                             /\ entry[<<"PAYMENT", f>>].month \in Months
                             /\ \A n \in Months : run[<<f, n>>].paid => run'[<<f, n>>].paid
    BY <1>0, <1>3, ConstantsAssumption DEF IInv, EntriesReachRuns, Booked, Kinds
  <2>2. f \in Employees /\ <<"RECOGNITION", f>> \in Kinds \X Employees
        /\ <<"PAYMENT", f>> \in Kinds \X Employees
    BY ConstantsAssumption DEF Kinds
  <2>. QED
    BY <1>9, <2>2 DEF IInv, Typed
<1>. QED
  BY <1>3, <1>10, <1>11, <1>12, <1>13 DEF IInv

\* What the journal books and what each run and its lines say of it.
LEMMA Told ==
  ASSUME IInv, NEW e \in Employees, NEW m \in Months
  PROVE  /\ run[<<e, m>>].recognized =>
              /\ Booked("RECOGNITION", e)
              /\ entry[<<"RECOGNITION", e>>].month = m
              /\ run[<<e, m>>].figures = Metrics(entry[<<"RECOGNITION", e>>].lines)
              /\ runLines[<<e, m>>] \in {<<>>, entry[<<"RECOGNITION", e>>].lines}
         /\ run[<<e, m>>].paid => Booked("PAYMENT", e) /\ entry[<<"PAYMENT", e>>].month = m
         /\ ~run[<<e, m>>].recognized =>
              run[<<e, m>>].figures = Zero /\ runLines[<<e, m>>] = <<>>
BY DEF IInv, RunsFollowEntries

LEMMA ClearKeeps ==
  ASSUME IInv, NEW p \in Procs, ClearLines(p)
  PROVE  IInv'
<1>0. /\ InFlight(p) /\ req[p].stage = "clear" /\ req[p] \in Request
      /\ UNCHANGED <<entry, run, orphaned>> /\ Go(p, "fill")
      /\ runLines' = [runLines EXCEPT ![RunOf(p)] = <<>>]
  BY DEF ClearLines, At, InFlight, IInv, Typed
<1>1. runLines[RunOf(p)] = <<>> /\ run[RunOf(p)].recognized
  BY <1>0 DEF IInv, Waiting
<1>2. runLines' = runLines
  BY <1>0, <1>1 DEF IInv, Typed
<1>3. req[p].kind = "RECOGNITION"
  BY <1>0, Kind
<1>4. /\ req' \in [Procs -> Request] /\ Carried' /\ Alone'
      /\ \A k \in Kinds, f \in Employees : Busy(k, f)' = Busy(k, f)
      /\ req'[p].stage = "fill" /\ RunOf(p)' = RunOf(p)
      /\ \A q \in Procs \ {p} : req'[q] = req[q]
  BY <1>0, <1>3, GoesOn DEF Stages
<1>5. Typed' /\ Fresh'
  BY <1>0, <1>2, <1>4 DEF IInv, Typed, Fresh
<1>6. RunsFollowEntries'
  <2>1. UNCHANGED <<entry, run, runLines>>
    BY <1>0, <1>2
  <2>2. \A e \in Employees : Booked("RECOGNITION", e)' = Booked("RECOGNITION", e)
                             /\ Booked("PAYMENT", e)' = Booked("PAYMENT", e)
    BY <2>1 DEF Booked
  <2>3. RunsFollowEntries
    BY DEF IInv
  <2>. QED
    BY <2>1, <2>2, <2>3 DEF RunsFollowEntries
<1>7. Waiting'
  BY <1>0, <1>1, <1>2, <1>4 DEF IInv, Waiting, RunOf
<1>8. EntriesReachRuns'
  BY <1>0, <1>2, <1>4, ConstantsAssumption DEF IInv, EntriesReachRuns, Booked, Kinds
<1>. QED
  BY <1>4, <1>5, <1>6, <1>7, <1>8 DEF IInv

LEMMA FillKeeps ==
  ASSUME IInv, NEW p \in Procs, FillLines(p)
  PROVE  IInv'
<1>0. /\ InFlight(p) /\ req[p].stage = "fill" /\ req[p] \in Request
      /\ UNCHANGED <<entry, run, orphaned>> /\ Finish(p)
  BY DEF FillLines, At, InFlight, IInv, Typed
<1>1. PICK e \in Employees, m \in Months, ls \in LineLists :
        e = req[p].employee /\ m = req[p].month /\ ls = req[p].lines
  BY <1>0 DEF Request
<1>2. /\ req[p].kind = "RECOGNITION"
      /\ entry[<<"RECOGNITION", e>>] = [month |-> m, lines |-> ls]
      /\ RunOf(p) = <<e, m>> /\ runLines[<<e, m>>] = <<>>
      /\ run[<<e, m>>].recognized /\ Busy("RECOGNITION", e)
  BY <1>0, <1>1, Kind DEF RunOf, IInv, Waiting
<1>3. /\ req' \in [Procs -> Request] /\ Carried' /\ Alone' /\ req'[p].stage = "idle"
      /\ \A k \in Kinds, f \in Employees :
           Busy(k, f) => Busy(k, f)' \/ (InFlight(p) /\ k = req[p].kind /\ f = req[p].employee)
      /\ \A q \in Procs \ {p} : req'[q] = req[q]
  BY <1>0, Ends
<1>4. runLines' = [runLines EXCEPT ![<<e, m>>] = ls]
  BY <1>1, <1>2, ListsAreSequences DEF FillLines
<1>5. /\ runLines' \in [Employees \X Months -> LineLists] /\ runLines'[<<e, m>>] = ls
      /\ \A x \in (Employees \X Months) \ {<<e, m>>} : runLines'[x] = runLines[x]
  BY <1>4 DEF IInv, Typed
<1>6. Typed' /\ Fresh'
  BY <1>0, <1>3, <1>5 DEF IInv, Typed, Fresh
<1>7. Waiting'
  <2>1. SUFFICES ASSUME NEW q \in Procs \ {p}, req[q].stage \in {"run", "clear", "fill"}
                 PROVE  /\ runLines'[RunOf(q)] = <<>>
                        /\ req[q].stage \in {"clear", "fill"} => run[RunOf(q)].recognized
    BY <1>0, <1>3 DEF Waiting, RunOf
  <2>2. InFlight(q) /\ req[q].kind = "RECOGNITION"
    BY <2>1, Kind DEF InFlight
  <2>3. req[q].employee # e
    BY <1>0, <1>1, <1>2, <2>2 DEF IInv, Alone
  <2>4. RunOf(q) \in (Employees \X Months) \ {<<e, m>>}
    BY <2>3 DEF RunOf, IInv, Typed, Request
  <2>. QED
    BY <1>5, <2>1, <2>4 DEF IInv, Waiting
<1>8. RunsFollowEntries'
  <2>1. SUFFICES ASSUME NEW f \in Employees, NEW n \in Months
                 PROVE  /\ run[<<f, n>>].recognized =>
                            /\ Booked("RECOGNITION", f)
                            /\ entry[<<"RECOGNITION", f>>].month = n
                            /\ run[<<f, n>>].figures = Metrics(entry[<<"RECOGNITION", f>>].lines)
                            /\ runLines'[<<f, n>>] \in {<<>>, entry[<<"RECOGNITION", f>>].lines}
                        /\ run[<<f, n>>].paid =>
                            Booked("PAYMENT", f) /\ entry[<<"PAYMENT", f>>].month = n
                        /\ ~run[<<f, n>>].recognized =>
                            run[<<f, n>>].figures = Zero /\ runLines'[<<f, n>>] = <<>>
    BY <1>0 DEF RunsFollowEntries, Booked
  <2>2. CASE <<f, n>> = <<e, m>>
    BY <1>2, <1>5, <2>2, Told
  <2>3. CASE <<f, n>> # <<e, m>>
    BY <1>5, <2>3, Told
  <2>. QED
    BY <2>2, <2>3
<1>9. EntriesReachRuns'
  <2>1. SUFFICES ASSUME NEW f \in Profiled, Booked("RECOGNITION", f), ~Busy("RECOGNITION", f)',
                        <<"RECOGNITION", f>> \notin orphaned
                 PROVE  /\ run[<<f, entry[<<"RECOGNITION", f>>].month>>].recognized
                        /\ runLines'[<<f, entry[<<"RECOGNITION", f>>].month>>] =
                             entry[<<"RECOGNITION", f>>].lines
    BY <1>0, <1>2, <1>3, ConstantsAssumption DEF IInv, EntriesReachRuns, Booked, Kinds
  <2>2. f \in Employees /\ "RECOGNITION" \in Kinds /\ <<"RECOGNITION", f>> \in Kinds \X Employees
    BY ConstantsAssumption DEF Kinds
  <2>3. entry[<<"RECOGNITION", f>>].month \in Months
    BY <2>2 DEF IInv, Typed
  <2>4. CASE f = e
    <3>1. entry[<<"RECOGNITION", f>>].month = m /\ entry[<<"RECOGNITION", f>>].lines = ls
      BY <1>2, <2>4
    <3>. QED
      BY <1>2, <1>5, <2>4, <3>1
  <2>5. CASE f # e
    <3>1. ~Busy("RECOGNITION", f)
      BY <1>1, <1>3, <2>1, <2>2, <2>5
    <3>2. <<f, entry[<<"RECOGNITION", f>>].month>> \in (Employees \X Months) \ {<<e, m>>}
      BY <2>2, <2>3, <2>5
    <3>. QED
      BY <1>5, <2>1, <3>1, <3>2 DEF IInv, EntriesReachRuns
  <2>. QED
    BY <2>4, <2>5
<1>. QED
  BY <1>3, <1>6, <1>7, <1>8, <1>9 DEF IInv

\* The payment reaches the run, whether it was there or is made now.
LEMMA PaidRun ==
  ASSUME IInv, NEW p \in Procs, InFlight(p), req[p].stage \in {"link", "make"},
         UNCHANGED <<entry, runLines, orphaned>>, Finish(p),
         NEW row \in Run, row.exists, row.paid, row.recognized = run[RunOf(p)].recognized,
         row.figures = run[RunOf(p)].figures,
         run' = [run EXCEPT ![RunOf(p)] = row]
  PROVE  IInv'
<1>0. req[p] \in Request /\ entry' = entry /\ runLines' = runLines
  BY DEF IInv, Typed
<1>1. PICK e \in Employees, m \in Months : e = req[p].employee /\ m = req[p].month
  BY <1>0 DEF Request
<1>2. /\ req[p].kind = "PAYMENT" /\ RunOf(p) = <<e, m>>
      /\ Booked("PAYMENT", e) /\ entry[<<"PAYMENT", e>>].month = m
  <2>1. /\ req[p].kind = "PAYMENT" /\ req[p].lines # <<>>
        /\ entry[<<req[p].kind, req[p].employee>>] =
             [month |-> req[p].month, lines |-> req[p].lines]
    BY Kind
  <2>2. entry[<<"PAYMENT", e>>].month = m /\ entry[<<"PAYMENT", e>>].lines = req[p].lines
    BY <1>1, <2>1
  <2>. QED
    BY <1>1, <2>1, <2>2 DEF RunOf, Booked
<1>3. /\ req' \in [Procs -> Request] /\ Carried' /\ Alone' /\ req'[p].stage = "idle"
      /\ \A k \in Kinds, f \in Employees :
           Busy(k, f) => Busy(k, f)' \/ (InFlight(p) /\ k = req[p].kind /\ f = req[p].employee)
      /\ \A q \in Procs \ {p} : req'[q] = req[q]
  BY Ends
<1>4. /\ run' \in [Employees \X Months -> Run] /\ run'[<<e, m>>] = row
      /\ \A x \in (Employees \X Months) \ {<<e, m>>} : run'[x] = run[x]
  BY <1>2 DEF IInv, Typed
<1>5. \A x \in Employees \X Months : /\ run'[x].recognized = run[x].recognized
                                     /\ run'[x].figures = run[x].figures
                                     /\ run[x].paid => run'[x].paid
                                     /\ run'[x].paid => run[x].paid \/ x = <<e, m>>
  BY <1>2, <1>4
<1>6. Typed' /\ Fresh'
  BY <1>3, <1>4 DEF IInv, Typed, Fresh
<1>7. Waiting'
  <2>1. \A q \in Procs : RunOf(q) \in Employees \X Months
    BY DEF IInv, Typed, Request, RunOf
  <2>2. \A q \in Procs \ {p} : RunOf(q)' = RunOf(q)
    BY <1>3 DEF RunOf
  <2>. QED
    BY <1>3, <1>5, <2>1, <2>2 DEF IInv, Waiting
<1>8. RunsFollowEntries'
  <2>1. ASSUME NEW f \in Employees, NEW n \in Months
        PROVE  /\ run'[<<f, n>>].recognized =>
                    /\ Booked("RECOGNITION", f)'
                    /\ entry'[<<"RECOGNITION", f>>].month = n
                    /\ run'[<<f, n>>].figures = Metrics(entry'[<<"RECOGNITION", f>>].lines)
                    /\ runLines'[<<f, n>>] \in {<<>>, entry'[<<"RECOGNITION", f>>].lines}
               /\ run'[<<f, n>>].paid =>
                    Booked("PAYMENT", f)' /\ entry'[<<"PAYMENT", f>>].month = n
               /\ ~run'[<<f, n>>].recognized =>
                    run'[<<f, n>>].figures = Zero /\ runLines'[<<f, n>>] = <<>>
    <3>1. <<f, n>> = <<e, m>> => f = e /\ n = m
      OBVIOUS
    <3>2. /\ Booked("RECOGNITION", f)' = Booked("RECOGNITION", f)
          /\ Booked("PAYMENT", f)' = Booked("PAYMENT", f)
      BY <1>0 DEF Booked
    <3>. QED
      BY <1>0, <1>2, <1>5, <3>1, <3>2, Told
  <2>. QED
    BY <2>1 DEF RunsFollowEntries
<1>9. EntriesReachRuns'
  <2>1. SUFFICES ASSUME NEW f \in Profiled
                 PROVE  /\ Booked("RECOGNITION", f) /\ ~Busy("RECOGNITION", f)'
                             /\ <<"RECOGNITION", f>> \notin orphaned =>
                             /\ run'[<<f, entry[<<"RECOGNITION", f>>].month>>].recognized
                             /\ runLines[<<f, entry[<<"RECOGNITION", f>>].month>>] =
                                  entry[<<"RECOGNITION", f>>].lines
                        /\ Booked("PAYMENT", f) /\ ~Busy("PAYMENT", f)'
                             /\ <<"PAYMENT", f>> \notin orphaned =>
                             run'[<<f, entry[<<"PAYMENT", f>>].month>>].paid
    BY DEF EntriesReachRuns, Booked
  <2>2. /\ f \in Employees /\ "RECOGNITION" \in Kinds /\ "PAYMENT" \in Kinds
        /\ <<"RECOGNITION", f>> \in Kinds \X Employees /\ <<"PAYMENT", f>> \in Kinds \X Employees
    BY ConstantsAssumption DEF Kinds
  <2>3. /\ <<f, entry[<<"RECOGNITION", f>>].month>> \in Employees \X Months
        /\ <<f, entry[<<"PAYMENT", f>>].month>> \in Employees \X Months
    BY <2>2 DEF IInv, Typed
  <2>4. /\ ~Busy("RECOGNITION", f)' => ~Busy("RECOGNITION", f)
        /\ ~Busy("PAYMENT", f)' => ~Busy("PAYMENT", f) \/ f = e
    BY <1>1, <1>2, <1>3, <2>2
  <2>5. f = e => run'[<<f, entry[<<"PAYMENT", f>>].month>>].paid
    BY <1>2, <1>4
  <2>. QED
    BY <1>5, <2>3, <2>4, <2>5 DEF IInv, EntriesReachRuns
<1>. QED
  BY <1>3, <1>6, <1>7, <1>8, <1>9 DEF IInv

LEMMA LinkKeeps ==
  ASSUME IInv, NEW p \in Procs, LinkPayment(p)
  PROVE  IInv'
<1>0. /\ InFlight(p) /\ req[p].stage = "link" /\ req[p] \in Request
      /\ UNCHANGED <<entry, runLines, orphaned>>
  BY DEF LinkPayment, At, InFlight, IInv, Typed
<1>1. run[RunOf(p)] \in Run
  BY <1>0 DEF IInv, Typed, Request, RunOf
<1>2. CASE run[RunOf(p)].exists
  <2>1. PICK r : r = [run[RunOf(p)] EXCEPT !.paid = TRUE]
    OBVIOUS
  <2>2. /\ r \in Run /\ r.exists /\ r.paid /\ r.recognized = run[RunOf(p)].recognized
        /\ r.figures = run[RunOf(p)].figures
    BY <1>1, <1>2, <2>1 DEF Run
  <2>3. run' = [run EXCEPT ![RunOf(p)] = r] /\ Finish(p)
    BY <1>2, <2>1 DEF LinkPayment
  <2>. QED
    BY <1>0, <2>2, <2>3, PaidRun
<1>3. CASE ~run[RunOf(p)].exists
  <2>1. run' = run /\ Go(p, "make")
    BY <1>3 DEF LinkPayment
  <2>2. req[p].kind = "PAYMENT"
    BY <1>0, Kind
  <2>3. /\ req' \in [Procs -> Request] /\ Carried' /\ Alone'
        /\ \A k \in Kinds, f \in Employees : Busy(k, f)' = Busy(k, f)
        /\ req'[p].stage = "make" /\ RunOf(p)' = RunOf(p)
        /\ \A q \in Procs \ {p} : req'[q] = req[q]
    BY <1>0, <2>1, <2>2, GoesOn DEF Stages
  <2>4. Typed' /\ Fresh' /\ RunsFollowEntries'
    BY <1>0, <2>1, <2>3 DEF IInv, Typed, Fresh, RunsFollowEntries, Booked
  <2>5. Waiting'
    BY <1>0, <2>1, <2>3 DEF IInv, Waiting, RunOf
  <2>6. EntriesReachRuns'
    BY <1>0, <2>1, <2>3, ConstantsAssumption DEF IInv, EntriesReachRuns, Booked, Kinds
  <2>. QED
    BY <2>3, <2>4, <2>5, <2>6 DEF IInv
<1>. QED
  BY <1>2, <1>3

LEMMA MakeKeeps ==
  ASSUME IInv, NEW p \in Procs, MakeRun(p)
  PROVE  IInv'
<1>0. /\ InFlight(p) /\ req[p].stage = "make" /\ req[p] \in Request
      /\ UNCHANGED <<entry, runLines, orphaned>> /\ Finish(p)
  BY DEF MakeRun, At, InFlight, IInv, Typed
<1>1. /\ RunOf(p) \in Employees \X Months /\ run[RunOf(p)] \in Run
      /\ ~run[RunOf(p)].exists
  BY <1>0 DEF IInv, Typed, Request, RunOf, MakeRun
<1>2. ~run[RunOf(p)].recognized /\ run[RunOf(p)].figures = Zero
  BY <1>1 DEF IInv, Fresh
<1>3. PICK r : r = [NoRun EXCEPT !.exists = TRUE, !.paid = TRUE]
  OBVIOUS
<1>4. /\ r \in Run /\ r.exists /\ r.paid /\ r.recognized = FALSE
      /\ r.figures = run[RunOf(p)].figures
  BY <1>2, <1>3, Empties DEF Run
<1>5. r.recognized = run[RunOf(p)].recognized
  BY <1>1, <1>2, <1>4 DEF Run
<1>6. run' = [run EXCEPT ![RunOf(p)] = r]
  BY <1>3 DEF MakeRun
<1>. QED
  BY <1>0, <1>4, <1>5, <1>6, PaidRun

-----------------------------------------------------------------------------
(* The theorems. *)

LEMMA StepKeeps == IInv /\ [Next]_vars => IInv'
<1>1. SUFFICES ASSUME IInv, [Next]_vars PROVE IInv'
  OBVIOUS
<1>2. CASE UNCHANGED vars
  <2>1. UNCHANGED <<entry, run, runLines, orphaned, req>>
    BY <1>2 DEF vars
  <2>2. Typed' /\ Carried' /\ Alone' /\ Waiting' /\ Fresh'
    BY <1>1, <2>1 DEF IInv, Typed, Carried, Alone, Waiting, Fresh, InFlight, After, RunOf
  <2>3. RunsFollowEntries' /\ EntriesReachRuns'
    BY <1>1, <2>1 DEF IInv, RunsFollowEntries, EntriesReachRuns, Booked, Busy
  <2>. QED
    BY <2>2, <2>3 DEF IInv
<1>3. CASE Next
  BY <1>1, <1>3, AskKeeps, InsertKeeps, UpsertKeeps, ClearKeeps, FillKeeps, LinkKeeps,
     MakeKeeps, LoseKeeps DEF Next
<1>. QED
  BY <1>1, <1>2, <1>3

\* Each employee has at most one request on its way from an entry of a kind to
\* the run, and until it fills the lines nobody else does.
THEOREM Inductive == Spec => []IInv
<1>. QED
  BY Initial, StepKeeps, PTL DEF Spec

\* What a run says of the recognition and the payment is what the journal has,
\* for any number of requests, employees and months.
THEOREM RunsAlwaysFollow == Spec => []RunsFollowEntries
<1>1. IInv => RunsFollowEntries
  BY DEF IInv
<1>. QED
  BY <1>1, Inductive, PTL

\* A booked recognition or payment whose request was not cut short is in the run,
\* with its lines.
THEOREM EntriesAlwaysReach == Spec => []EntriesReachRuns
<1>1. IInv => EntriesReachRuns
  BY DEF IInv
<1>. QED
  BY <1>1, Inductive, PTL

-----------------------------------------------------------------------------
(* BankMatching. *)

CallStages == {"idle", "create", "lines", "suggest", "apply", "marking", "undo"}
Call == [stage : CallStages, file : Files, lines : SUBSET BankLines, seen : SUBSET JLines,
            links : [BankLines -> JLines \union {NoLine}], clear : BOOLEAN]

BankTyped ==
  /\ statement \in [Files -> {"none", "parsed", "matched", "posted"}]
  /\ stored \in [Files -> Nat]
  /\ link \in [BankLines -> JLines \union {NoLine}]
  /\ mark \in [JLines -> BankLines \union {NoLine}]
  /\ crossed \subseteq JLines
  /\ call \in [Calls -> Call]

\* What a request that will store lines, or works on those of a statement,
\* relies on.
Imports(r) == r.stage = "lines" => stored[r.file] = 0 /\ statement[r.file] # "none"
Works(r) ==
  r.stage \in {"suggest", "apply", "marking", "undo"} =>
    Ready(r.file) /\ r.lines \subseteq LinesOf(r.file)
Carries(r) ==
  r.stage \in {"apply", "marking", "undo"} =>
    \A b \in r.lines : r.links[b] \in JLines /\ Good(b, r.links[b])
Marks(r) ==
  r.stage = "marking" =>
    /\ r.seen \subseteq {r.links[b] : b \in r.lines}
    /\ \A j \in r.seen : mark[j] = NoLine \/ j \in crossed
Sound(r) == Imports(r) /\ Works(r) /\ Carries(r) /\ Marks(r)

\* No two requests store the lines of one file, and two that mark one journal
\* line have both found it open.
Apart ==
  \A p, q \in Calls : p # q =>
    /\ ~(call[p].stage = "lines" /\ call[q].stage = "lines" /\ call[p].file = call[q].file)
    /\ call[p].stage = "marking" /\ call[q].stage = "marking" =>
         call[p].seen \intersect call[q].seen \subseteq crossed

\* A statement that is not there has no lines.
Gone == \A f \in Files : statement[f] = "none" => stored[f] = 0

BankInv ==
  /\ BankTyped /\ Gone /\ Apart
  /\ \A p \in Calls : Sound(call[p])
  /\ LinesImportedOnce /\ MatchesAreGood

-----------------------------------------------------------------------------
(* Least and greatest. *)

LEMMA SmallestIsLeast ==
  ASSUME NEW T, T \subseteq Nat, T # {}
  PROVE  \E x \in T : \A y \in T : x <= y
<1>. DEFINE R == {ss \in Nat \X Nat : ss[1] < ss[2]}
<1>1. IsWellFoundedOn(R, Nat)
  BY NatLessThanWellFounded DEF OpToRel
<1>. HIDE DEF R
<1>2. PICK x \in T : \A y \in T : ~ (<<y, x>> \in R)
  BY <1>1, WFMin
<1>3. \A y \in T : x <= y
  <2>1. SUFFICES ASSUME NEW y \in T, y < x PROVE FALSE
    OBVIOUS
  <2>2. y \in Nat /\ x \in Nat
    OBVIOUS
  <2>3. <<y, x>> \in R
    BY <2>1, <2>2 DEF R
  <2>. QED
    BY <1>2, <2>3
<1>. QED
  BY <1>2, <1>3

LEMMA LeastOf ==
  ASSUME NEW T, T \subseteq Nat, T # {}
  PROVE  Min(T) \in T
<1>1. PICK x \in T : \A y \in T : x <= y
  BY SmallestIsLeast
<1>. QED
  BY <1>1 DEF Min

LEMMA LateType ==
  ASSUME NEW b \in BankLines, NEW j \in JLines
  PROVE  LateBy(b, j) \in 0..14
<1>1. PICK d \in Nat : d = Abs(Day.bank[b] - Day.journal[j])
  BY BankAssumption DEF Abs
<1>2. Tolerance \in Nat
  BY BankAssumption
<1>3. CASE d <= Tolerance
  BY <1>1, <1>3 DEF LateBy
<1>4. CASE d > Tolerance
  <2>1. PICK e \in Nat : e = d - Tolerance
    BY <1>2, <1>4
  <2>2. {14, e} \subseteq Nat
    OBVIOUS
  <2>3. PICK x \in {14, e} : \A y \in {14, e} : x <= y
    BY <2>2, SmallestIsLeast
  <2>4. Min({14, e}) \in {14, e} /\ \A y \in {14, e} : Min({14, e}) <= y
    BY <2>3 DEF Min
  <2>5. Min({14, e}) \in 0..14
    BY <2>4
  <2>6. LateBy(b, j) = Min({14, d - Tolerance})
    BY <1>1, <1>2, <1>4 DEF LateBy
  <2>. QED
    BY <2>1, <2>5, <2>6
<1>. QED
  BY <1>2, <1>3, <1>4

LEMMA Rounded ==
  ASSUME NEW n \in Nat, NEW a \in Nat \ {0}, n <= 140000 * a
  PROVE  RoundHalfUp(n, 1400 * a) \in 0..200
<1>1. PICK num \in Nat, d \in Nat \ {0} : num = 2 * n + 1400 * a /\ d = 2800 * a
  OBVIOUS
<1>2. PICK q : q = num \div d
  OBVIOUS
<1>3. q \in Int /\ d * q <= num /\ num < d * (q + 1)
  BY <1>1, <1>2
<1>4. q >= 0
  BY <1>1, <1>3
<1>5. num < d * 200
  BY <1>1
<1>6. q < 200
  BY <1>1, <1>3, <1>5
<1>. QED
  BY <1>1, <1>2, <1>3, <1>4, <1>6 DEF RoundHalfUp

LEMMA ScoreType ==
  ASSUME NEW b \in BankLines, NEW j \in JLines
  PROVE  Score(b, j) \in 0..200
<1>1. PICK a \in Nat \ {0} : a = 1 + AmountDiff(b, j)
  BY BankAssumption DEF AmountDiff, Abs
<1>2. PICK l \in 0..14 : l = 14 - LateBy(b, j)
  BY LateType
<1>3. PICK s \in 0..100 : s = RefSim[<<b, j>>]
  BY BankAssumption
<1>4. l * a \in Nat /\ s * a \in Nat /\ l * a <= 14 * a /\ s * a <= 100 * a
  OBVIOUS
<1>5. PICK n \in Nat : n = 50 * 1400 + 3000 * (l * a) + 280 * (s * a)
  BY <1>4
<1>6. n <= 140000 * a
  BY <1>4, <1>5
<1>7. 3000 * l * a = 3000 * (l * a) /\ 280 * s * a = 280 * (s * a)
  OBVIOUS
<1>8. Score(b, j) = RoundHalfUp(n, 1400 * a)
  BY <1>1, <1>2, <1>3, <1>5, <1>7 DEF Score
<1>. QED
  BY <1>6, <1>8, Rounded

LEMMA BestIsGood ==
  ASSUME NEW b \in BankLines, NEW cands \in SUBSET JLines
  PROVE  Best(b, cands) \in JLines \union {NoLine}
         /\ (Best(b, cands) # NoLine => Good(b, Best(b, cands)))
<1>1. PICK pre : pre = {j \in cands : Comparable(b, j)}
  OBVIOUS
<1>2. PICK top : top = {j \in pre : \A k \in pre : Score(b, k) <= Score(b, j)}
  OBVIOUS
<1>3. Best(b, cands) = IF pre = {} \/ Score(b, Min(top)) < MinScore THEN NoLine ELSE Min(top)
  BY <1>1, <1>2 DEF Best
<1>4. CASE pre = {}
  BY <1>3, <1>4
<1>5. CASE pre # {}
  <2>1. top # {}
    <3>1. PICK D : D = {200 - Score(b, j) : j \in pre}
      OBVIOUS
    <3>2. \A j \in pre : Score(b, j) \in 0..200 /\ 200 - Score(b, j) \in Nat
      BY <1>1, ScoreType
    <3>3. D \subseteq Nat /\ D # {}
      BY <1>5, <3>1, <3>2
    <3>4. PICK d \in D : \A e \in D : d <= e
      BY <3>3, SmallestIsLeast
    <3>5. PICK j \in pre : d = 200 - Score(b, j)
      BY <3>1
    <3>6. \A k \in pre : Score(b, k) <= Score(b, j)
      <4>1. SUFFICES ASSUME NEW k \in pre PROVE Score(b, k) <= Score(b, j)
        OBVIOUS
      <4>2. d <= 200 - Score(b, k)
        BY <3>1, <3>4
      <4>. QED
        BY <3>2, <3>5, <4>2, SMTT(30)
    <3>. QED
      BY <1>2, <3>6
  <2>2. top \subseteq Nat /\ top \subseteq JLines
    BY <1>1, <1>2, BankAssumption
  <2>3. PICK m : m = Min(top) /\ m \in top
    BY <2>1, <2>2, LeastOf
  <2>4. m \in JLines /\ Comparable(b, m) /\ Score(b, m) \in 0..200
    BY <1>1, <1>2, <2>2, <2>3, ScoreType
  <2>5. MinScore \in Int
    BY BankAssumption
  <2>. QED
    BY <1>3, <2>3, <2>4, <2>5 DEF Good, Comparable
<1>. QED
  BY <1>4, <1>5

-----------------------------------------------------------------------------
LEMMA IdleType ==
  NoCall \in Call /\ NoCall.stage = "idle"
<1>1. SomeFile \in Files
  BY BankAssumption DEF SomeFile
<1>2. [b \in BankLines |-> NoLine] \in [BankLines -> JLines \union {NoLine}]
  OBVIOUS
<1>. QED
  BY <1>1, <1>2 DEF NoCall, Call, CallStages

LEMMA IdleSound ==
  ASSUME NEW r \in Call, r.stage \in {"idle", "create"}
  PROVE  Sound(r)
BY DEF Sound, Imports, Works, Carries, Marks

LEMMA BankInitial == BankInit => BankInv
<1>1. SUFFICES ASSUME BankInit PROVE BankInv
  OBVIOUS
<1>2. BankTyped
  BY <1>1, IdleType DEF BankInit, BankTyped, NoMarks
<1>3. Gone /\ Apart
  BY <1>1, IdleType DEF BankInit, Gone, Apart
<1>4. \A p \in Calls : Sound(call[p])
  BY <1>1, IdleType, IdleSound DEF BankInit
<1>5. LinesImportedOnce /\ MatchesAreGood
  BY <1>1 DEF BankInit, LinesImportedOnce, MatchesAreGood, LinesOf, NoMarks
<1>. QED
  BY <1>2, <1>3, <1>4, <1>5 DEF BankInv

\* A step of one request is sound if its own row is and what it changes disturbs
\* no other.
LEMMA OneRequest ==
  ASSUME BankInv, NEW p \in Calls, NEW r \in Call, call' = [call EXCEPT ![p] = r]
  PROVE  /\ call' \in [Calls -> Call] /\ call'[p] = r
         /\ \A q \in Calls \ {p} : call'[q] = call[q] /\ Sound(call[q]) /\ call[q] \in Call
         /\ (r.stage \notin {"lines", "marking"} /\ crossed \subseteq crossed' => Apart')
<1>1. /\ call' \in [Calls -> Call] /\ call'[p] = r
      /\ \A q \in Calls \ {p} : call'[q] = call[q] /\ call[q] \in Call
  BY DEF BankInv, BankTyped
<1>2. \A q \in Calls : Sound(call[q])
  BY DEF BankInv
<1>3. ASSUME r.stage \notin {"lines", "marking"}, crossed \subseteq crossed' PROVE Apart'
  <2>1. SUFFICES ASSUME NEW q \in Calls, NEW s \in Calls, q # s,
                        call'[q].stage \in {"lines", "marking"}, call'[s].stage \in {"lines", "marking"}
                 PROVE  q # p /\ s # p
    BY <1>1, <1>3 DEF BankInv, Apart
  <2>. QED
    BY <1>1, <1>3, <2>1
<1>. QED
  BY <1>1, <1>2, <1>3

\* One that changes nothing but its request.
LEMMA OnlyRequest ==
  ASSUME BankInv, NEW p \in Calls, NEW r \in Call, call' = [call EXCEPT ![p] = r],
         r.stage \notin {"lines", "marking"}, Sound(r),
         UNCHANGED <<statement, stored, link, mark, crossed>>
  PROVE  BankInv'
<1>1. /\ call' \in [Calls -> Call] /\ call'[p] = r /\ Apart'
      /\ \A q \in Calls \ {p} : call'[q] = call[q] /\ Sound(call[q])
  BY OneRequest
<1>2. BankTyped' /\ Gone'
  BY <1>1 DEF BankInv, BankTyped, Gone
<1>3. \A q \in Calls : Sound(call[q])'
  <2>1. \A q \in Calls : Sound(call'[q])
    BY <1>1
  <2>. QED
    BY <2>1 DEF Sound, Imports, Works, Carries, Marks, Ready
<1>4. LinesImportedOnce' /\ MatchesAreGood'
  BY DEF BankInv, LinesImportedOnce, MatchesAreGood, Ready
<1>. QED
  BY <1>1, <1>2, <1>3, <1>4 DEF BankInv

LEMMA StartKeeps ==
  ASSUME BankInv, NEW p \in Calls, ReadHash(p) \/ StartSuggest(p) \/ LoseCall(p)
  PROVE  BankInv'
<1>1. UNCHANGED <<statement, stored, link, mark, crossed>>
  BY DEF ReadHash, StartSuggest, LoseCall
<1>2. \E r \in Call : /\ call' = [call EXCEPT ![p] = r] /\ Sound(r)
                         /\ r.stage \notin {"lines", "marking"}
  <2>1. CASE ReadHash(p)
    <3>1. PICK f \in Files : Proceed(p, [NoCall EXCEPT !.stage = "create", !.file = f])
      BY <2>1 DEF ReadHash
    <3>2. PICK r : r = [NoCall EXCEPT !.stage = "create", !.file = f]
      OBVIOUS
    <3>3. r \in Call /\ r.stage = "create"
      BY <3>2, IdleType DEF Call, CallStages
    <3>. QED
      BY <3>1, <3>2, <3>3, IdleSound DEF Proceed
  <2>2. CASE StartSuggest(p)
    <3>1. PICK f \in Files : /\ Ready(f)
                             /\ Proceed(p, [NoCall EXCEPT !.stage = "suggest", !.file = f,
                                                   !.lines = LinesOf(f), !.seen = Candidates(f)])
      BY <2>2 DEF StartSuggest
    <3>2. PICK r : r = [NoCall EXCEPT !.stage = "suggest", !.file = f,
                                    !.lines = LinesOf(f), !.seen = Candidates(f)]
      OBVIOUS
    <3>3. Candidates(f) \subseteq JLines /\ LinesOf(f) \subseteq BankLines
      BY DEF Candidates, LinesOf
    <3>4. r \in Call /\ r.stage = "suggest" /\ r.file = f /\ r.lines = LinesOf(f)
      BY <3>2, <3>3, IdleType DEF Call, CallStages
    <3>5. Sound(r)
      BY <3>1, <3>4 DEF Sound, Imports, Works, Carries, Marks
    <3>. QED
      BY <3>1, <3>2, <3>4, <3>5 DEF Proceed
  <2>3. CASE LoseCall(p)
    BY <2>3, IdleType, IdleSound DEF LoseCall, Proceed
  <2>. QED
    BY <2>1, <2>2, <2>3
<1>. QED
  BY <1>1, <1>2, OnlyRequest

LEMMA ReadKeeps ==
  ASSUME BankInv, NEW p \in Calls, NEW stage \in {"apply", "undo"}, NEW f \in Files,
         NEW clear \in BOOLEAN, NEW chosen \in SUBSET Linked(f),
         ReadLinks(p, stage, f, chosen, clear)
  PROVE  BankInv'
<1>1. Ready(f) /\ UNCHANGED <<statement, stored, link, mark, crossed>>
  BY DEF ReadLinks
<1>2. PICK ls : ls = [b \in BankLines |-> IF FileOf[b] = f THEN link[b] ELSE NoLine]
  OBVIOUS
<1>3. ls \in [BankLines -> JLines \union {NoLine}]
  BY <1>2 DEF BankInv, BankTyped
<1>4. PICK r : r = [NoCall EXCEPT !.stage = stage, !.file = f, !.lines = chosen,
                                !.clear = clear, !.links = ls]
  OBVIOUS
<1>5. chosen \subseteq LinesOf(f) /\ LinesOf(f) \subseteq BankLines
  BY DEF Linked, LinesOf
<1>6. /\ r \in Call /\ r.stage = stage /\ r.file = f /\ r.lines = chosen /\ r.links = ls
  BY <1>3, <1>4, <1>5, IdleType DEF Call, CallStages
<1>7. \A b \in chosen : ls[b] \in JLines /\ Good(b, ls[b])
  <2>1. SUFFICES ASSUME NEW b \in chosen PROVE ls[b] \in JLines /\ Good(b, ls[b])
    OBVIOUS
  <2>2. b \in BankLines /\ FileOf[b] = f /\ link[b] # NoLine
    BY DEF Linked, LinesOf
  <2>3. ls[b] = link[b] /\ link[b] \in JLines
    BY <1>2, <2>2 DEF BankInv, BankTyped
  <2>. QED
    BY <2>2, <2>3 DEF BankInv, MatchesAreGood
<1>8. Sound(r)
  BY <1>1, <1>5, <1>6, <1>7 DEF Sound, Imports, Works, Carries, Marks
<1>9. call' = [call EXCEPT ![p] = r]
  BY <1>2, <1>4 DEF ReadLinks, Proceed
<1>. QED
  BY <1>1, <1>6, <1>8, <1>9, OnlyRequest

LEMMA CreateKeeps ==
  ASSUME BankInv, NEW p \in Calls, CreateStatement(p)
  PROVE  BankInv'
<1>0. /\ call[p] \in Call /\ call[p].stage = "create"
      /\ UNCHANGED <<stored, link, mark, crossed>>
  BY DEF CreateStatement, CallAt, BankInv, BankTyped
<1>1. PICK f \in Files : f = call[p].file
  BY <1>0 DEF Call
<1>2. statement[f] = "none" /\ stored[f] = 0
  BY <1>1 DEF CreateStatement, HashIsFree, BankInv, Gone
<1>3. PICK r : r = [call[p] EXCEPT !.stage = "lines"]
  OBVIOUS
<1>4. r \in Call /\ r.stage = "lines" /\ r.file = f
  BY <1>0, <1>1, <1>3 DEF Call, CallStages
<1>5. call' = [call EXCEPT ![p] = r] /\ statement' = [statement EXCEPT ![f] = "parsed"]
  BY <1>1, <1>3 DEF CreateStatement, Proceed
<1>6. /\ call' \in [Calls -> Call] /\ call'[p] = r
      /\ \A q \in Calls \ {p} : call'[q] = call[q] /\ Sound(call[q]) /\ call[q] \in Call
  BY <1>4, <1>5, OneRequest
<1>7. /\ statement' \in [Files -> {"none", "parsed", "matched", "posted"}]
      /\ statement'[f] = "parsed" /\ \A g \in Files \ {f} : statement'[g] = statement[g]
  BY <1>5 DEF BankInv, BankTyped
<1>8. BankTyped' /\ Gone'
  BY <1>0, <1>6, <1>7 DEF BankInv, BankTyped, Gone
<1>9. Apart'
  <2>1. ASSUME NEW q \in Calls \ {p}, call[q].stage = "lines" PROVE call[q].file # f
    BY <1>2, <1>6, <2>1 DEF Sound, Imports
  <2>. QED
    BY <1>0, <1>4, <1>6, <2>1 DEF BankInv, Apart
<1>10. \A g \in Files : Ready(g)' = Ready(g)
  BY <1>0, <1>2, <1>7 DEF Ready, BankInv, BankTyped
<1>11. ASSUME NEW q \in Calls PROVE Sound(call[q])'
  <2>1. CASE q = p
    BY <1>0, <1>2, <1>4, <1>6, <1>7, <2>1 DEF Sound, Imports, Works, Carries, Marks
  <2>2. CASE q # p
    <3>1. call[q].file \in Files
      BY <1>6, <2>2 DEF Call
    <3>. QED
      BY <1>0, <1>6, <1>7, <1>10, <2>2, <3>1 DEF Sound, Imports, Works, Carries, Marks
  <2>. QED
    BY <2>1, <2>2
<1>12. LinesImportedOnce' /\ MatchesAreGood'
  BY <1>0, <1>10 DEF BankInv, LinesImportedOnce, MatchesAreGood
<1>. QED
  BY <1>8, <1>9, <1>11, <1>12 DEF BankInv

LEMMA StoreKeeps ==
  ASSUME BankInv, NEW p \in Calls, StoreLines(p)
  PROVE  BankInv'
<1>0. /\ call[p] \in Call /\ call[p].stage = "lines"
      /\ UNCHANGED <<statement, link, mark, crossed>>
      /\ call' = [call EXCEPT ![p] = NoCall]
  BY DEF StoreLines, CallAt, Proceed, BankInv, BankTyped
<1>1. PICK f \in Files : f = call[p].file
  BY <1>0 DEF Call
<1>2. stored[f] = 0 /\ statement[f] # "none"
  BY <1>0, <1>1 DEF BankInv, Sound, Imports
<1>3. stored' = [stored EXCEPT ![f] = 1]
  BY <1>1, <1>2 DEF StoreLines
<1>4. /\ stored' \in [Files -> Nat] /\ stored'[f] = 1
      /\ \A g \in Files \ {f} : stored'[g] = stored[g]
  BY <1>3 DEF BankInv, BankTyped
<1>5. /\ call' \in [Calls -> Call] /\ call'[p] = NoCall /\ Apart'
      /\ \A q \in Calls \ {p} : call'[q] = call[q] /\ Sound(call[q]) /\ call[q] \in Call
  BY <1>0, IdleType, OneRequest
<1>6. BankTyped' /\ Gone'
  BY <1>0, <1>2, <1>4, <1>5 DEF BankInv, BankTyped, Gone
<1>7. \A g \in Files : Ready(g) => Ready(g)'
  BY <1>0, <1>4 DEF Ready
<1>8. ASSUME NEW q \in Calls PROVE Sound(call[q])'
  <2>1. CASE q = p
    BY <1>5, <2>1, IdleType DEF Sound, Imports, Works, Carries, Marks
  <2>2. CASE q # p
    <3>1. call[q].file \in Files
      BY <1>5, <2>2 DEF Call
    <3>2. call[q].stage = "lines" => call[q].file # f
      BY <1>0, <1>1, <2>2 DEF BankInv, Apart
    <3>. QED
      BY <1>0, <1>4, <1>5, <1>7, <2>2, <3>1, <3>2 DEF Sound, Imports, Works, Carries, Marks
  <2>. QED
    BY <2>1, <2>2
<1>9. LinesImportedOnce'
  BY <1>0, <1>4, <1>7 DEF BankInv, LinesImportedOnce
<1>10. MatchesAreGood'
  BY <1>0 DEF BankInv, MatchesAreGood
<1>. QED
  BY <1>5, <1>6, <1>8, <1>9, <1>10 DEF BankInv

LEMMA DeleteKeeps ==
  ASSUME BankInv, DeleteStatement
  PROVE  BankInv'
<1>1. PICK f \in Files :
        /\ statement' = [statement EXCEPT ![f] = "none"]
        /\ stored' = [stored EXCEPT ![f] = 0]
        /\ link' = [b \in BankLines |-> IF FileOf[b] = f THEN NoLine ELSE link[b]]
        /\ call' = [p \in Calls |-> IF call[p].file = f /\ ~CallAt(p, "create") THEN NoCall ELSE call[p]]
        /\ UNCHANGED <<mark, crossed>>
  BY DEF DeleteStatement
<1>2. /\ statement' \in [Files -> {"none", "parsed", "matched", "posted"}]
      /\ stored' \in [Files -> Nat] /\ statement'[f] = "none" /\ stored'[f] = 0
      /\ \A g \in Files \ {f} : statement'[g] = statement[g] /\ stored'[g] = stored[g]
  BY <1>1 DEF BankInv, BankTyped
<1>3. /\ call' \in [Calls -> Call]
      /\ \A p \in Calls : \/ call'[p] = NoCall
                          \/ call'[p] = call[p] /\ call[p].file \in Files
                             /\ (call[p].file # f \/ call[p].stage = "create")
  BY <1>1, IdleType DEF CallAt, BankInv, BankTyped, Call
<1>4. link' \in [BankLines -> JLines \union {NoLine}]
  BY <1>1 DEF BankInv, BankTyped
<1>5. BankTyped' /\ Gone'
  BY <1>1, <1>2, <1>3, <1>4 DEF BankInv, BankTyped, Gone
<1>6. Apart'
  BY <1>1, <1>3, IdleType DEF BankInv, Apart
<1>7. \A g \in Files \ {f} : Ready(g)' = Ready(g)
  BY <1>2 DEF Ready
<1>8. ASSUME NEW p \in Calls PROVE Sound(call[p])'
  <2>1. CASE call'[p].stage \in {"idle", "create"}
    BY <2>1 DEF Sound, Imports, Works, Carries, Marks
  <2>2. CASE call'[p].stage \notin {"idle", "create"}
    <3>1. call'[p] = call[p] /\ call[p].file \in Files \ {f}
      BY <1>3, <2>2, IdleType
    <3>2. Sound(call[p])
      BY DEF BankInv
    <3>. QED
      BY <1>1, <1>2, <1>7, <3>1, <3>2 DEF Sound, Imports, Works, Carries, Marks
  <2>. QED
    BY <2>1, <2>2
<1>9. LinesImportedOnce'
  <2>1. SUFFICES ASSUME NEW g \in Files
                 PROVE  /\ stored'[g] <= 1
                        /\ ~Ready(g)' => \A b \in LinesOf(g) : link'[b] = NoLine
    BY DEF LinesImportedOnce
  <2>2. CASE g = f
    BY <1>1, <1>2, <2>2 DEF LinesOf
  <2>3. CASE g # f
    <3>1. \A b \in LinesOf(g) : link[b] = NoLine => link'[b] = NoLine
      BY <1>1 DEF LinesOf
    <3>. QED
      BY <1>2, <1>7, <2>3, <3>1 DEF BankInv, LinesImportedOnce
  <2>. QED
    BY <2>2, <2>3
<1>10. MatchesAreGood'
  BY <1>1 DEF BankInv, MatchesAreGood
<1>. QED
  BY <1>5, <1>6, <1>8, <1>9, <1>10 DEF BankInv

LEMMA SuggestKeeps ==
  ASSUME BankInv, NEW p \in Calls, SuggestLine(p)
  PROVE  BankInv'
<1>0. /\ call[p] \in Call /\ call[p].stage = "suggest" /\ call[p].lines # {}
      /\ UNCHANGED <<statement, stored, mark, crossed>>
  BY DEF SuggestLine, CallAt, BankInv, BankTyped
<1>1. PICK b : b = Min(call[p].lines)
  OBVIOUS
<1>2. /\ b \in call[p].lines /\ b \in BankLines /\ call[p].lines \subseteq BankLines
      /\ call[p].seen \in SUBSET JLines
  <2>1. call[p].lines \subseteq BankLines /\ call[p].lines \subseteq Nat
        /\ call[p].seen \in SUBSET JLines
    BY <1>0, BankAssumption DEF Call
  <2>. QED
    BY <1>0, <1>1, <2>1, LeastOf
<1>3. PICK j : j = Best(b, call[p].seen)
  OBVIOUS
<1>4. j \in JLines \union {NoLine} /\ (j # NoLine => Good(b, j))
  BY <1>2, <1>3, BestIsGood
<1>5. PICK c : c = (call[p].clear \/ j # NoLine)
  OBVIOUS
<1>6. PICK r : r = [call[p] EXCEPT !.lines = call[p].lines \ {b}, !.clear = c]
  OBVIOUS
<1>7. /\ link' = [link EXCEPT ![b] = j]
      /\ call' = [call EXCEPT ![p] = r]
  BY <1>1, <1>3, <1>5, <1>6 DEF SuggestLine, Proceed
<1>8. /\ r \in Call /\ r.stage = "suggest" /\ r.file = call[p].file
      /\ r.lines \subseteq call[p].lines
  <2>1. c \in BOOLEAN
    BY <1>5
  <2>. QED
    BY <1>0, <1>2, <1>6, <2>1 DEF Call
<1>9. /\ call' \in [Calls -> Call] /\ call'[p] = r /\ Apart'
      /\ \A q \in Calls \ {p} : call'[q] = call[q] /\ Sound(call[q])
  BY <1>0, <1>7, <1>8, OneRequest
<1>10. /\ link' \in [BankLines -> JLines \union {NoLine}] /\ link'[b] = j
       /\ \A c2 \in BankLines \ {b} : link'[c2] = link[c2]
  BY <1>2, <1>4, <1>7 DEF BankInv, BankTyped
<1>11. BankTyped' /\ Gone'
  BY <1>0, <1>9, <1>10 DEF BankInv, BankTyped, Gone
<1>12. Ready(call[p].file) /\ b \in LinesOf(call[p].file) /\ r.lines \subseteq LinesOf(r.file)
  <2>1. Sound(call[p])
    BY DEF BankInv
  <2>. QED
    BY <1>0, <1>2, <1>8, <2>1 DEF Sound, Works
<1>13. ASSUME NEW q \in Calls PROVE Sound(call[q])'
  <2>1. CASE q = p
    BY <1>0, <1>8, <1>9, <1>12, <2>1 DEF Sound, Imports, Works, Carries, Marks, Ready
  <2>2. CASE q # p
    BY <1>0, <1>9, <2>2 DEF Sound, Imports, Works, Carries, Marks, Ready
  <2>. QED
    BY <2>1, <2>2
<1>14. LinesImportedOnce'
  <2>1. SUFFICES ASSUME NEW g \in Files, ~Ready(g)
                 PROVE  \A c2 \in LinesOf(g) : link'[c2] = NoLine
    BY <1>0 DEF BankInv, LinesImportedOnce, Ready
  <2>2. FileOf[b] # g
    BY <1>12, <2>1 DEF LinesOf
  <2>. QED
    BY <1>10, <2>1, <2>2 DEF BankInv, LinesImportedOnce, LinesOf
<1>15. MatchesAreGood'
  BY <1>0, <1>4, <1>10 DEF BankInv, MatchesAreGood
<1>. QED
  BY <1>9, <1>11, <1>13, <1>14, <1>15 DEF BankInv

\* A statement that is there takes another status.
LEMMA StatusKeeps ==
  ASSUME BankInv, NEW f \in Files, Ready(f), NEW st \in {"parsed", "matched", "posted"},
         statement' = [statement EXCEPT ![f] = st], UNCHANGED <<stored, crossed>>
  PROVE  /\ statement' \in [Files -> {"none", "parsed", "matched", "posted"}]
         /\ \A g \in Files : /\ Ready(g)' = Ready(g)
                             /\ statement[g] # "none" => statement'[g] # "none"
         /\ Gone'
<1>1. /\ statement' \in [Files -> {"none", "parsed", "matched", "posted"}]
      /\ statement'[f] = st /\ \A g \in Files \ {f} : statement'[g] = statement[g]
  BY DEF BankInv, BankTyped
<1>2. statement[f] # "none"
  BY DEF Ready
<1>. QED
  BY <1>1, <1>2 DEF Ready, BankInv, Gone

LEMMA EndKeeps ==
  ASSUME BankInv, NEW p \in Calls, EndSuggest(p)
  PROVE  BankInv'
<1>0. /\ call[p] \in Call /\ call[p].stage = "suggest" /\ Sound(call[p])
      /\ UNCHANGED <<stored, link, mark, crossed>>
      /\ call' = [call EXCEPT ![p] = NoCall]
  BY DEF EndSuggest, CallAt, Proceed, BankInv, BankTyped
<1>1. PICK f \in Files : f = call[p].file /\ Ready(f)
  BY <1>0 DEF Call, Sound, Works
<1>2. PICK st \in {"parsed", "matched", "posted"} : statement' = [statement EXCEPT ![f] = st]
  BY <1>1 DEF EndSuggest
<1>3. /\ statement' \in [Files -> {"none", "parsed", "matched", "posted"}]
      /\ \A g \in Files : /\ Ready(g)' = Ready(g)
                          /\ statement[g] # "none" => statement'[g] # "none"
      /\ Gone'
  BY <1>0, <1>1, <1>2, StatusKeeps
<1>4. /\ call' \in [Calls -> Call] /\ call'[p] = NoCall /\ Apart'
      /\ \A q \in Calls \ {p} : call'[q] = call[q] /\ Sound(call[q]) /\ call[q] \in Call
  BY <1>0, IdleType, OneRequest
<1>5. BankTyped'
  BY <1>0, <1>3, <1>4 DEF BankInv, BankTyped
<1>6. ASSUME NEW q \in Calls PROVE Sound(call[q])'
  <2>1. CASE q = p
    BY <1>4, <2>1, IdleType DEF Sound, Imports, Works, Carries, Marks
  <2>2. CASE q # p
    <3>1. call[q].file \in Files
      BY <1>4, <2>2 DEF Call
    <3>. QED
      BY <1>0, <1>3, <1>4, <2>2, <3>1 DEF Sound, Imports, Works, Carries, Marks
  <2>. QED
    BY <2>1, <2>2
<1>7. LinesImportedOnce' /\ MatchesAreGood'
  BY <1>0, <1>3 DEF BankInv, LinesImportedOnce, MatchesAreGood
<1>. QED
  BY <1>3, <1>4, <1>5, <1>6, <1>7 DEF BankInv

LEMMA CheckKeeps ==
  ASSUME BankInv, NEW p \in Calls, CheckOpen(p)
  PROVE  BankInv'
<1>0. /\ call[p] \in Call /\ call[p].stage = "apply" /\ Sound(call[p])
      /\ UNCHANGED <<statement, stored, link, mark>>
  BY DEF CheckOpen, CallAt, BankInv, BankTyped
<1>1. PICK S : S = Open(Targets(p))
  OBVIOUS
<1>2. /\ S \subseteq JLines /\ S \subseteq {call[p].links[b] : b \in call[p].lines}
      /\ \A j \in S : mark[j] = NoLine
  BY <1>0, <1>1 DEF Open, Targets, Sound, Carries
<1>3. PICK r : r = [call[p] EXCEPT !.stage = "marking", !.seen = S]
  OBVIOUS
<1>4. /\ r \in Call /\ r.stage = "marking" /\ r.file = call[p].file /\ r.seen = S
      /\ r.lines = call[p].lines /\ r.links = call[p].links
  BY <1>0, <1>2, <1>3 DEF Call, CallStages
<1>5. /\ call' = [call EXCEPT ![p] = r]
      /\ crossed' = crossed \union
           UNION {call[q].seen \intersect S : q \in {q \in Calls : CallAt(q, "marking")}}
  BY <1>1, <1>3 DEF CheckOpen, Proceed
<1>6. /\ call' \in [Calls -> Call] /\ call'[p] = r
      /\ \A q \in Calls \ {p} : call'[q] = call[q] /\ Sound(call[q])
  BY <1>4, <1>5, OneRequest
<1>7. /\ crossed \subseteq crossed' /\ crossed' \subseteq JLines
      /\ \A q \in Calls : call[q].stage = "marking" => call[q].seen \intersect S \subseteq crossed'
  BY <1>2, <1>5 DEF CallAt, BankInv, BankTyped
<1>8. BankTyped' /\ Gone'
  BY <1>0, <1>6, <1>7 DEF BankInv, BankTyped, Gone
<1>9. Apart'
  BY <1>4, <1>6, <1>7 DEF BankInv, Apart
<1>10. ASSUME NEW q \in Calls PROVE Sound(call[q])'
  <2>1. CASE q = p
    BY <1>0, <1>2, <1>4, <1>6, <2>1 DEF Sound, Imports, Works, Carries, Marks, Ready
  <2>2. CASE q # p
    BY <1>0, <1>6, <1>7, <2>2 DEF Sound, Imports, Works, Carries, Marks, Ready
  <2>. QED
    BY <2>1, <2>2
<1>11. LinesImportedOnce' /\ MatchesAreGood'
  BY <1>0 DEF BankInv, LinesImportedOnce, MatchesAreGood, Ready
<1>. QED
  BY <1>8, <1>9, <1>10, <1>11 DEF BankInv

LEMMA MarkKeeps ==
  ASSUME BankInv, NEW p \in Calls, CommitMarks(p)
  PROVE  BankInv'
<1>0. /\ call[p] \in Call /\ call[p].stage = "marking" /\ Sound(call[p])
      /\ UNCHANGED <<stored, link, crossed>>
      /\ call' = [call EXCEPT ![p] = NoCall]
  BY DEF CommitMarks, CallAt, Proceed, BankInv, BankTyped
<1>1. PICK f \in Files : f = call[p].file /\ Ready(f)
  BY <1>0 DEF Call, Sound, Works
<1>2. PICK st \in {"parsed", "matched", "posted"} : statement' = [statement EXCEPT ![f] = st]
  BY <1>1 DEF CommitMarks
<1>3. /\ statement' \in [Files -> {"none", "parsed", "matched", "posted"}]
      /\ \A g \in Files : /\ Ready(g)' = Ready(g)
                          /\ statement[g] # "none" => statement'[g] # "none"
      /\ Gone'
  BY <1>0, <1>1, <1>2, StatusKeeps
<1>4. /\ call' \in [Calls -> Call] /\ call'[p] = NoCall /\ Apart'
      /\ \A q \in Calls \ {p} : call'[q] = call[q] /\ Sound(call[q]) /\ call[q] \in Call
  BY <1>0, IdleType, OneRequest
<1>5. \A j \in call[p].seen : Min({b \in call[p].lines : call[p].links[b] = j}) \in BankLines
                             /\ Good(Min({b \in call[p].lines : call[p].links[b] = j}), j)
  <2>1. SUFFICES ASSUME NEW j \in call[p].seen
                 PROVE  Min({b \in call[p].lines : call[p].links[b] = j}) \in BankLines
                        /\ Good(Min({b \in call[p].lines : call[p].links[b] = j}), j)
    OBVIOUS
  <2>2. PICK T : T = {b \in call[p].lines : call[p].links[b] = j}
    OBVIOUS
  <2>3. T # {}
    BY <1>0, <2>2 DEF Sound, Marks
  <2>4. T \subseteq BankLines /\ T \subseteq Nat
    BY <1>0, <2>2, BankAssumption DEF Call
  <2>5. PICK m : m = Min(T) /\ m \in T
    BY <2>3, <2>4, LeastOf
  <2>6. Good(m, j)
    BY <1>0, <2>2, <2>5 DEF Sound, Carries
  <2>. QED
    BY <2>2, <2>4, <2>5, <2>6
<1>6. /\ mark' \in [JLines -> BankLines \union {NoLine}]
      /\ \A j \in JLines : IF j \in call[p].seen
                           THEN Good(mark'[j], j)
                           ELSE mark'[j] = mark[j]
  BY <1>5 DEF CommitMarks, BankInv, BankTyped
<1>7. BankTyped'
  BY <1>0, <1>3, <1>4, <1>6 DEF BankInv, BankTyped
<1>8. ASSUME NEW q \in Calls PROVE Sound(call[q])'
  <2>1. CASE q = p
    BY <1>4, <2>1, IdleType DEF Sound, Imports, Works, Carries, Marks
  <2>2. CASE q # p
    <3>1. call[q].file \in Files /\ call[q].seen \subseteq JLines
      BY <1>4, <2>2 DEF Call
    <3>2. call'[q] = call[q] /\ Sound(call[q])
      BY <1>4, <2>2
    <3>3. Marks(call[q])'
      <4>1. SUFFICES ASSUME call[q].stage = "marking", NEW j \in call[q].seen
                     PROVE  mark'[j] = NoLine \/ j \in crossed
        BY <1>0, <3>2 DEF Marks, Sound
      <4>2. j \in call[p].seen => j \in crossed
        BY <1>0, <2>2, <4>1 DEF BankInv, Apart
      <4>. QED
        BY <1>6, <3>1, <3>2, <4>1, <4>2 DEF Sound, Marks
    <3>. QED
      BY <1>0, <1>3, <3>1, <3>2, <3>3 DEF Sound, Imports, Works, Carries
  <2>. QED
    BY <2>1, <2>2
<1>9. LinesImportedOnce'
  BY <1>0, <1>3 DEF BankInv, LinesImportedOnce
<1>10. MatchesAreGood'
  BY <1>0, <1>6 DEF BankInv, MatchesAreGood
<1>. QED
  BY <1>3, <1>4, <1>7, <1>8, <1>9, <1>10 DEF BankInv

LEMMA UndoKeeps ==
  ASSUME BankInv, NEW p \in Calls, CommitUndo(p)
  PROVE  BankInv'
<1>0. /\ call[p] \in Call /\ call[p].stage = "undo" /\ Sound(call[p])
      /\ UNCHANGED <<stored, crossed>>
      /\ call' = [call EXCEPT ![p] = NoCall]
  BY DEF CommitUndo, CallAt, Proceed, BankInv, BankTyped
<1>1. PICK f \in Files : f = call[p].file /\ Ready(f)
  BY <1>0 DEF Call, Sound, Works
<1>2. statement' = [statement EXCEPT ![f] = "matched"]
  BY <1>1 DEF CommitUndo
<1>3. /\ statement' \in [Files -> {"none", "parsed", "matched", "posted"}]
      /\ \A g \in Files : /\ Ready(g)' = Ready(g)
                          /\ statement[g] # "none" => statement'[g] # "none"
      /\ Gone'
  BY <1>0, <1>1, <1>2, StatusKeeps
<1>4. /\ call' \in [Calls -> Call] /\ call'[p] = NoCall /\ Apart'
      /\ \A q \in Calls \ {p} : call'[q] = call[q] /\ Sound(call[q]) /\ call[q] \in Call
  BY <1>0, IdleType, OneRequest
<1>5. /\ mark' \in [JLines -> BankLines \union {NoLine}]
      /\ link' \in [BankLines -> JLines \union {NoLine}]
      /\ \A j \in JLines : mark'[j] \in {mark[j], NoLine}
      /\ \A b \in BankLines : link'[b] \in {link[b], NoLine}
  BY DEF CommitUndo, BankInv, BankTyped
<1>6. BankTyped'
  BY <1>0, <1>3, <1>4, <1>5 DEF BankInv, BankTyped
<1>7. ASSUME NEW q \in Calls PROVE Sound(call[q])'
  <2>1. CASE q = p
    BY <1>4, <2>1, IdleType DEF Sound, Imports, Works, Carries, Marks
  <2>2. CASE q # p
    <3>1. call[q].file \in Files /\ call[q].seen \subseteq JLines
      BY <1>4, <2>2 DEF Call
    <3>2. call'[q] = call[q] /\ Sound(call[q])
      BY <1>4, <2>2
    <3>3. Marks(call[q])'
      BY <1>0, <1>5, <3>1, <3>2 DEF Sound, Marks
    <3>. QED
      BY <1>0, <1>3, <3>1, <3>2, <3>3 DEF Sound, Imports, Works, Carries
  <2>. QED
    BY <2>1, <2>2
<1>8. LinesImportedOnce'
  <2>1. \A g \in Files : LinesOf(g) \subseteq BankLines
    BY DEF LinesOf
  <2>. QED
    BY <1>0, <1>3, <1>5, <2>1 DEF BankInv, LinesImportedOnce
<1>9. MatchesAreGood'
  BY <1>5 DEF BankInv, MatchesAreGood
<1>. QED
  BY <1>3, <1>4, <1>6, <1>7, <1>8, <1>9 DEF BankInv

-----------------------------------------------------------------------------
(* The theorems. *)

LEMMA BankStepKeeps == BankInv /\ [BankNext]_bankVars => BankInv'
<1>1. SUFFICES ASSUME BankInv, [BankNext]_bankVars PROVE BankInv'
  OBVIOUS
<1>2. CASE UNCHANGED bankVars
  <2>1. UNCHANGED <<statement, stored, link, mark, crossed, call>>
    BY <1>2 DEF bankVars
  <2>2. BankTyped' /\ Gone' /\ Apart' /\ \A p \in Calls : Sound(call[p])'
    BY <1>1, <2>1 DEF BankInv, BankTyped, Gone, Apart, Sound, Imports, Works, Carries, Marks, Ready
  <2>3. LinesImportedOnce' /\ MatchesAreGood'
    BY <1>1, <2>1 DEF BankInv, LinesImportedOnce, MatchesAreGood, Ready
  <2>. QED
    BY <2>2, <2>3 DEF BankInv
<1>3. CASE BankNext
  <2>1. ASSUME NEW p \in Calls, StartApply(p) \/ StartUndo(p) PROVE BankInv'
    <3>1. CASE StartApply(p)
      <4>1. PICK f \in Files : ReadLinks(p, "apply", f, Linked(f), FALSE)
        BY <3>1 DEF StartApply
      <4> QED BY <1>1, <4>1, ReadKeeps
    <3>2. CASE StartUndo(p)
      <4>1. PICK f \in Files, clear \in BOOLEAN :
              \E chosen \in SUBSET Linked(f) : ReadLinks(p, "undo", f, chosen, clear)
        BY <3>2 DEF StartUndo
      <4> QED BY <1>1, <4>1, ReadKeeps
    <3> QED BY <2>1, <3>1, <3>2
  <2>. QED
    BY <1>1, <1>3, <2>1, StartKeeps, CreateKeeps, StoreKeeps, DeleteKeeps, SuggestKeeps,
       EndKeeps, CheckKeeps, MarkKeeps, UndoKeeps DEF BankNext
<1>. QED
  BY <1>1, <1>2, <1>3

\* Whoever stores the lines of a file is alone, what a request has in hand is of
\* its statement, and two that mark a journal line have both found it open.
THEOREM BankInductive == BankSpec => []BankInv
<1>. QED
  BY BankInitial, BankStepKeeps, PTL DEF BankSpec

\* The unique hash keeps the lines of a file from being there twice, for any
\* number of files, lines and requests.
THEOREM NeverImportedTwice == BankSpec => []LinesImportedOnce
<1>1. BankInv => LinesImportedOnce
  BY DEF BankInv
<1>. QED
  BY <1>1, BankInductive, PTL

\* Links and marks are of one sign and have the score, whatever the amounts, the
\* dates and the similarities.
THEOREM MatchesAlwaysGood == BankSpec => []MatchesAreGood
<1>1. BankInv => MatchesAreGood
  BY DEF BankInv
<1>. QED
  BY <1>1, BankInductive, PTL

LEMMA MarkStep ==
  ASSUME BankInv, [BankNext]_bankVars, NEW j \in JLines \ crossed, mark[j] # NoLine
  PROVE  mark'[j] \in {mark[j], NoLine}
<1>1. ASSUME NEW p \in Calls, CommitMarks(p) PROVE mark'[j] = mark[j]
  <2>1. call[p].stage = "marking" /\ Sound(call[p])
    BY <1>1 DEF CommitMarks, CallAt, BankInv
  <2>2. j \notin call[p].seen
    BY <2>1 DEF Sound, Marks
  <2>. QED
    BY <1>1, <2>2 DEF CommitMarks
<1>2. ASSUME NEW p \in Calls, CommitUndo(p) PROVE mark'[j] \in {mark[j], NoLine}
  BY <1>2 DEF CommitUndo
<1>3. CASE mark' = mark
  BY <1>3
<1>. QED
  BY <1>1, <1>2, <1>3 DEF BankNext, bankVars, DeleteStatement, ReadHash, CreateStatement, StoreLines,
     StartSuggest, SuggestLine, EndSuggest, StartApply, StartUndo, ReadLinks, CheckOpen, LoseCall

\* A mark moves only through an undo, unless two transactions had both found the
\* line open.
THEOREM MarksStay == BankSpec => MarkStays
<1>1. BankInv /\ [BankNext]_bankVars =>
        [\A j \in JLines \ crossed :
           mark[j] # NoLine => mark'[j] \in {mark[j], NoLine}]_<<mark>>
  BY MarkStep
<1>. QED
  BY <1>1, BankInductive, PTL DEF BankSpec, MarkStays

-----------------------------------------------------------------------------
(* InvoiceForm. *)

AskedLine == [idx : 1..MaxLines, item : Items]

\* The warehouse a line sells from when d is the default.
Sells(l, d) == IF l.wh # None THEN l.wh ELSE d

\* A line shows no stock, or that of its own item and warehouse.
Own(l, d) == l.of # None => l.of = <<l.item, Sells(l, d)>>

\* Line i sells the item from the warehouse.
LineSells(ls, d, i, item, wh) ==
  i \in DOMAIN ls /\ ls[i].item = item /\ Sells(ls[i], d) = wh

\* The request asks of line i, wherever it names it, what line i sells.
ServesAt(r, i, ls, d) ==
  /\ i = r.idx => LineSells(ls, d, i, r.item, r.wh)
  /\ \A k \in DOMAIN r.rest :
       r.rest[k].idx = i => LineSells(ls, d, i, r.rest[k].item, r.wh)

CoveredBy(cs, i) == \E c \in Slots : cs[c] # None /\ Covers(cs[c], i)

\* Every open request serves line i, and if none asks for it the line shows
\* its own stock.
Minded(i, ls, d, cs) ==
  /\ \A c \in Slots : cs[c] # None => ServesAt(cs[c], i, ls, d)
  /\ i \in DOMAIN ls => Own(ls[i], d) \/ CoveredBy(cs, i)

FormInv ==
  /\ FormTyped
  /\ \A i \in (1..MaxLines) \ astray : Minded(i, lines, default, calls)

\* updateLine writes one line and keeps the others.
LEMMA LineUpdated ==
  ASSUME NEW ls \in Seq(Shown), NEW i, NEW line, i \in DOMAIN ls => line \in Shown
  PROVE  /\ UpdateLine(ls, i, line) \in Seq(Shown)
         /\ Len(UpdateLine(ls, i, line)) = Len(ls)
         /\ DOMAIN UpdateLine(ls, i, line) = DOMAIN ls
         /\ \A j \in DOMAIN ls :
              UpdateLine(ls, i, line)[j] = IF j = i THEN line ELSE ls[j]
<1> DEFINE u == UpdateLine(ls, i, line)
<1>1. Len(ls) \in Nat /\ DOMAIN ls = 1..Len(ls) /\ \A j \in DOMAIN ls : ls[j] \in Shown
  OBVIOUS
<1>2. u \in [1..Len(ls) -> Shown]
  BY <1>1 DEF UpdateLine
<1>3. u \in Seq(Shown)
  BY <1>1, <1>2, SeqDef
<1>4. DOMAIN u = 1..Len(ls) /\ Len(u) = Len(ls)
  BY <1>1, <1>2, <1>3, LenProperties
<1> QED
  BY <1>1, <1>3, <1>4 DEF UpdateLine

\* The variants of a line that the handlers write.
LEMMA LinesWritten ==
  ASSUME NEW l \in Shown
  PROVE  /\ Forget(l) \in Shown /\ Loads(l) \in Shown
         /\ \A item \in Items \cup {None}, wh \in Warehouses \cup {None} :
              Chosen(l, item, wh) \in Shown
         /\ \A wh \in Warehouses \cup {None} :
              /\ Blank(wh) \in Shown
              /\ [Blank(wh) EXCEPT !.loading = l.loading] \in Shown
              /\ [Forget(l) EXCEPT !.wh = wh] \in Shown
         /\ [Forget(l) EXCEPT !.loading = FALSE] \in Shown
         /\ \A r \in StockCalls, ok \in BOOLEAN : Answered(l, r, ok) \in Shown
  BY DEF Shown, Forget, Loads, Chosen, Blank, Answered, StockCalls, Groups

\* The first part of a request, from lines ls.
LEMMA Asked ==
  ASSUME FormTyped, NEW ls \in Seq(Shown), NEW r \in StockCalls, Ask(ls, r)
  PROVE  /\ lines' \in Seq(Shown) /\ Len(lines') = Len(ls) /\ DOMAIN lines' = DOMAIN ls
         /\ calls' \in [Slots -> StockCalls \cup {None}]
         /\ \A j \in DOMAIN ls : /\ lines'[j].item = ls[j].item
                                 /\ lines'[j].wh = ls[j].wh
                                 /\ lines'[j].of = ls[j].of
         /\ \E c \in Slots : /\ calls'[c] = r /\ r # None
                             /\ \A e \in Slots \ {c} : calls'[e] = calls[e]
<1>1. PICK c \in Slots : /\ calls[c] = None
                         /\ calls' = [calls EXCEPT ![c] = r]
                         /\ lines' = UpdateLine(ls, r.idx, Loads(ls[r.idx]))
  BY DEF Ask
<1>2. /\ calls' \in [Slots -> StockCalls \cup {None}]
      /\ calls'[c] = r /\ \A e \in Slots \ {c} : calls'[e] = calls[e]
  BY <1>1 DEF FormTyped
<1>3. r # None
  BY FormAssumption
<1>4. \A j \in DOMAIN ls : ls[j] \in Shown
  OBVIOUS
<1>5. r.idx \in DOMAIN ls => Loads(ls[r.idx]) \in Shown
  BY <1>4, LinesWritten
<1>6. /\ lines' \in Seq(Shown) /\ Len(lines') = Len(ls) /\ DOMAIN lines' = DOMAIN ls
      /\ \A j \in DOMAIN ls : lines'[j] = IF j = r.idx THEN Loads(ls[r.idx]) ELSE ls[j]
  BY <1>1, <1>5, LineUpdated
<1>7. \A l \in Shown : Loads(l).item = l.item /\ Loads(l).wh = l.wh /\ Loads(l).of = l.of
  BY DEF Loads, Shown
<1>8. \A j \in DOMAIN ls : /\ lines'[j].item = ls[j].item
                           /\ lines'[j].wh = ls[j].wh
                           /\ lines'[j].of = ls[j].of
  BY <1>4, <1>6, <1>7
<1> QED
  BY <1>2, <1>3, <1>6, <1>8

\* The line that is edited, and a request for it alone.
LEMMA OfLine ==
  ASSUME FormTyped, NEW i \in DOMAIN lines
  PROVE  /\ i \in 1..MaxLines /\ i \in 1..Len(lines) /\ Len(lines) \in Nat
         /\ DOMAIN lines = 1..Len(lines)
         /\ lines[i] \in Shown
         /\ Eff(lines[i]) \in Warehouses \cup {None}
         /\ \A item \in Items, wh \in Warehouses, yes \in BOOLEAN :
              StockCall(i, item, wh, <<>>, NewLine(yes)) \in StockCalls
<1>1. /\ i \in 1..Len(lines) /\ DOMAIN lines = 1..Len(lines) /\ Len(lines) \in Nat
      /\ lines[i] \in Shown
  BY DEF FormTyped
<1>2. i \in 1..MaxLines
  BY <1>1, FormAssumption DEF FormTyped
<1>3. Eff(lines[i]) \in Warehouses \cup {None}
  BY <1>1 DEF Eff, FormTyped, Shown
<1>4. <<>> \in Seq(AskedLine)
  OBVIOUS
<1>5. \A yes \in BOOLEAN : NewLine(yes) \in [new : BOOLEAN, wh : Warehouses \cup {None}]
  BY DEF NewLine, FormTyped
<1>6. ASSUME NEW item \in Items, NEW wh \in Warehouses, NEW yes \in BOOLEAN
      PROVE  StockCall(i, item, wh, <<>>, NewLine(yes)) \in StockCalls
  BY <1>2, <1>4, <1>5 DEF StockCall, StockCalls, AskedLine
<1> QED
  BY <1>1, <1>2, <1>3, <1>6

\* A line that shows no stock may follow the others.
LEMMA LineAdded ==
  ASSUME NEW ls \in Seq(Shown), NEW wh \in Warehouses \cup {None}
  PROVE  /\ Append(ls, Blank(wh)) \in Seq(Shown)
         /\ Len(Append(ls, Blank(wh))) = Len(ls) + 1
         /\ DOMAIN Append(ls, Blank(wh)) = DOMAIN ls \cup {Len(ls) + 1}
         /\ \A j \in DOMAIN ls : Append(ls, Blank(wh))[j] = ls[j]
         /\ Append(ls, Blank(wh))[Len(ls) + 1].of = None
<1>1. Blank(wh) \in Shown /\ Blank(wh).of = None
  BY DEF Blank, Shown
<1> QED
  BY <1>1

\* No request asks for a line that the form does not have, nor, in order, for
\* a line without an item.
LEMMA NotServed ==
  ASSUME NEW r, NEW i, NEW ls, NEW d, ServesAt(r, i, ls, d), i \notin DOMAIN ls
  PROVE  ~Covers(r, i)
BY DEF ServesAt, Covers, LineSells

LEMMA ServedByNone ==
  ASSUME NEW r, NEW i, NEW ls, NEW d, ~Covers(r, i)
  PROVE  ServesAt(r, i, ls, d)
BY DEF ServesAt, Covers

LEMMA CoveredIs == \A i : Covered(i) <=> CoveredBy(calls, i)
BY DEF Covered, CoveredBy

\* A line that keeps its item and warehouse is minded as before.
LEMMA MindedKept ==
  ASSUME NEW i, NEW ls, NEW d, NEW cs, Minded(i, ls, d, cs), NEW ls2, NEW d2,
         i \in DOMAIN ls =>
           /\ i \in DOMAIN ls2
           /\ ls2[i].item = ls[i].item /\ Sells(ls2[i], d2) = Sells(ls[i], d)
           /\ Own(ls[i], d) => Own(ls2[i], d2),
         i \in DOMAIN ls2 /\ i \notin DOMAIN ls => ls2[i].of = None
  PROVE  Minded(i, ls2, d2, cs)
<1>1. ASSUME NEW c \in Slots, cs[c] # None PROVE ServesAt(cs[c], i, ls2, d2)
  <2>1. ServesAt(cs[c], i, ls, d)
    BY <1>1 DEF Minded
  <2>2. CASE i \in DOMAIN ls
    BY <2>1, <2>2 DEF ServesAt, LineSells
  <2>3. CASE i \notin DOMAIN ls
    BY <2>1, <2>3, NotServed, ServedByNone
  <2> QED
    BY <2>2, <2>3
<1>2. i \in DOMAIN ls2 => Own(ls2[i], d2) \/ CoveredBy(cs, i)
  BY DEF Minded, Own
<1> QED
  BY <1>1, <1>2 DEF Minded

\* A line no request asks for is minded when it shows its own stock.
LEMMA MindedAlone ==
  ASSUME NEW i, NEW ls, NEW d, NEW cs, ~CoveredBy(cs, i), i \in DOMAIN ls => Own(ls[i], d)
  PROVE  Minded(i, ls, d, cs)
<1>1. \A c \in Slots : cs[c] # None => ~Covers(cs[c], i)
  BY DEF CoveredBy
<1> QED
  BY <1>1, ServedByNone DEF Minded

\* A new request keeps a line in order if it serves it.
LEMMA AskedMinded ==
  ASSUME FormTyped, NEW ls \in Seq(Shown), NEW r \in StockCalls, Ask(ls, r), NEW i,
         \A c \in Slots : calls[c] # None => ServesAt(calls[c], i, ls, default'),
         ServesAt(r, i, ls, default'),
         i \in DOMAIN ls => Own(ls[i], default') \/ CoveredBy(calls, i) \/ Covers(r, i)
  PROVE  Minded(i, lines', default', calls')
<1>1. PICK c \in Slots : /\ calls[c] = None /\ calls'[c] = r /\ r # None
                         /\ \A e \in Slots \ {c} : calls'[e] = calls[e]
  BY FormAssumption DEF Ask, FormTyped
<1>2. /\ DOMAIN lines' = DOMAIN ls
      /\ \A j \in DOMAIN ls : /\ lines'[j].item = ls[j].item
                              /\ lines'[j].wh = ls[j].wh
                              /\ lines'[j].of = ls[j].of
  BY Asked
<1>3. \A e \in Slots : calls'[e] # None => ServesAt(calls'[e], i, ls, default')
  BY <1>1
<1>4. i \in DOMAIN ls => Own(ls[i], default') \/ CoveredBy(calls', i)
  BY <1>1 DEF CoveredBy
<1>5. Minded(i, ls, default', calls')
  BY <1>3, <1>4 DEF Minded
<1>6. i \in DOMAIN ls => /\ Sells(lines'[i], default') = Sells(ls[i], default')
                         /\ Own(ls[i], default') => Own(lines'[i], default')
  BY <1>2 DEF Sells, Own
<1> QED
  BY <1>2, <1>5, <1>6, MindedKept

\* A request for one line: it serves that line, and asks for no other.
LEMMA OneServed ==
  ASSUME NEW ls, NEW d, NEW r, r.idx \in DOMAIN ls, r.rest = <<>>,
         ls[r.idx].item = r.item, Sells(ls[r.idx], d) = r.wh
  PROVE  /\ \A j : ServesAt(r, j, ls, d)
         /\ \A j : Covers(r, j) <=> j = r.idx
  BY DEF ServesAt, Covers, LineSells

\* A line in order without an item is asked for by no request and shows none.
LEMMA Unsold ==
  ASSUME FormInv, NEW i \in (1..MaxLines) \ astray, i \in DOMAIN lines => lines[i].item = None
  PROVE  ~CoveredBy(calls, i) /\ (i \in DOMAIN lines => lines[i].of = None)
<1>1. Minded(i, lines, default, calls) /\ FormTyped
  BY DEF FormInv
<1>2. ASSUME NEW c \in Slots, calls[c] # None PROVE ~Covers(calls[c], i)
  <2>1. /\ calls[c].item \in Items
        /\ \A k \in DOMAIN calls[c].rest : calls[c].rest[k].item \in Items
    <3>1. calls[c] \in StockCalls
      BY <1>1, <1>2 DEF FormTyped
    <3>2. calls[c].item \in Items /\ calls[c].rest \in Seq(AskedLine)
      BY <3>1 DEF StockCalls, AskedLine
    <3>3. \A k \in DOMAIN calls[c].rest : calls[c].rest[k] \in AskedLine
      BY <3>2
    <3> QED
      BY <3>2, <3>3 DEF AskedLine
  <2>2. ServesAt(calls[c], i, lines, default)
    BY <1>1, <1>2 DEF Minded
  <2> QED
    BY <2>1, <2>2, FormAssumption DEF ServesAt, Covers, LineSells
<1>3. ~CoveredBy(calls, i)
  BY <1>2 DEF CoveredBy
<1>4. ASSUME i \in DOMAIN lines, lines[i].of # None PROVE FALSE
  <2>1. lines[i] \in Shown
    BY <1>1, <1>4 DEF FormTyped
  <2>2. lines[i].of \in Items \X Warehouses
    BY <1>4, <2>1 DEF Shown, Groups
  <2>3. lines[i].of = <<None, Sells(lines[i], default)>>
    BY <1>1, <1>3, <1>4 DEF Minded, Own
  <2> QED
    BY <2>2, <2>3, FormAssumption
<1> QED
  BY <1>3, <1>4

\* The lines an event on line i leaves in order: those that were, and i itself
\* when no request asks for it.
LEMMA ChangedLines ==
  ASSUME FormTyped, NEW i \in 1..MaxLines, Changed(i)
  PROVE  /\ astray' \subseteq 1..MaxLines
         /\ i \notin astray' => ~CoveredBy(calls, i)
         /\ \A j \in (1..MaxLines) \ astray' : j # i => j \notin astray
BY CoveredIs DEF FormTyped, Changed

LEMMA ItemSelected ==
  ASSUME FormInv, NEW i \in DOMAIN lines, NEW item \in Items, SelectItem(i, item)
  PROVE  FormInv'
<1> DEFINE wh   == Eff(lines[i])
           last == i = Len(lines)
           set  == UpdateLine(lines, i, Chosen(lines[i], item, wh))
           r    == StockCall(i, item, wh, <<>>, NewLine(last))
<1>1. /\ FormTyped /\ lines \in Seq(Shown) /\ Len(lines) <= MaxLines
      /\ default' = default /\ removed' = removed /\ default \in Warehouses \cup {None}
      /\ removed \in BOOLEAN /\ Changed(i)
      /\ calls \in [Slots -> StockCalls \cup {None}]
      /\ \A j \in (1..MaxLines) \ astray : Minded(j, lines, default, calls)
  BY DEF FormInv, FormTyped, SelectItem
<1>2. /\ i \in 1..MaxLines /\ lines[i] \in Shown /\ wh \in Warehouses \cup {None}
      /\ i \in 1..Len(lines) /\ Len(lines) \in Nat
  BY <1>1, OfLine
<1>3. Chosen(lines[i], item, wh) \in Shown
  BY <1>2, LinesWritten
<1>4. /\ set \in Seq(Shown) /\ Len(set) = Len(lines) /\ DOMAIN set = DOMAIN lines
      /\ \A j \in DOMAIN lines : set[j] = IF j = i THEN Chosen(lines[i], item, wh) ELSE lines[j]
  BY <1>1, <1>3, LineUpdated
<1>5. Chosen(lines[i], item, wh).of = None /\ Chosen(lines[i], item, wh).item = item
      /\ Chosen(lines[i], item, wh).wh = wh
  BY <1>2 DEF Chosen, Forget, Shown
<1>6. /\ astray' \subseteq 1..MaxLines
      /\ i \notin astray' => ~CoveredBy(calls, i)
      /\ \A j \in (1..MaxLines) \ astray' : j # i => j \notin astray
  BY <1>1, <1>2, ChangedLines
<1>7. CASE Duplicates(i, item, wh) # {}
  <2> DEFINE empty == [Blank(wh) EXCEPT !.loading = lines[i].loading]
  <2>1. lines' = UpdateLine(lines, i, empty) /\ calls' = calls
    BY <1>7 DEF SelectItem
  <2>2. empty \in Shown /\ empty.of = None
    BY <1>2, LinesWritten DEF Blank
  <2>3. /\ lines' \in Seq(Shown) /\ Len(lines') = Len(lines) /\ DOMAIN lines' = DOMAIN lines
        /\ \A j \in DOMAIN lines : lines'[j] = IF j = i THEN empty ELSE lines[j]
    <3> HIDE DEF empty
    <3>1. /\ UpdateLine(lines, i, empty) \in Seq(Shown)
          /\ Len(UpdateLine(lines, i, empty)) = Len(lines)
          /\ DOMAIN UpdateLine(lines, i, empty) = DOMAIN lines
          /\ \A j \in DOMAIN lines :
               UpdateLine(lines, i, empty)[j] = IF j = i THEN empty ELSE lines[j]
      BY <1>1, <2>2, LineUpdated
    <3> QED
      BY <2>1, <3>1
  <2>4. FormTyped'
    BY <1>1, <1>6, <2>1, <2>3 DEF FormTyped
  <2>5. ASSUME NEW j \in (1..MaxLines) \ astray' PROVE Minded(j, lines', default', calls')
    <3> HIDE DEF empty
    <3>1. CASE j = i
      BY <1>6, <2>1, <2>2, <2>3, <2>5, <3>1, MindedAlone DEF Own
    <3>2. CASE j # i
      <4>1. Minded(j, lines, default, calls)
        BY <1>1, <1>6, <2>5, <3>2
      <4> QED
        BY <1>1, <2>1, <2>3, <3>2, <4>1, MindedKept
    <3> QED
      BY <3>1, <3>2
  <2> QED
    BY <2>4, <2>5 DEF FormInv
<1>8. CASE Duplicates(i, item, wh) = {} /\ wh # None
  <2>1. Ask(set, r)
    BY <1>8 DEF SelectItem
  <2>2. r \in StockCalls
    BY <1>1, <1>2, <1>8, OfLine
  <2>3. /\ lines' \in Seq(Shown) /\ Len(lines') = Len(lines)
        /\ calls' \in [Slots -> StockCalls \cup {None}]
    BY <1>1, <1>4, <2>1, <2>2, Asked
  <2>4. FormTyped'
    BY <1>1, <1>6, <2>3 DEF FormTyped
  <2>5. (\A j : ServesAt(r, j, set, default)) /\ (\A j : Covers(r, j) <=> j = i)
    <3>1. set[i].item = item /\ Sells(set[i], default) = wh
      BY <1>4, <1>5, <1>8 DEF Sells
    <3>2. r.idx = i /\ r.item = item /\ r.wh = wh /\ r.rest = <<>>
      BY DEF StockCall
    <3> HIDE DEF set, r
    <3>3. r.idx \in DOMAIN set /\ set[r.idx].item = r.item /\ Sells(set[r.idx], default) = r.wh
      BY <1>4, <3>1, <3>2
    <3>4. \A j : ServesAt(r, j, set, default) /\ (Covers(r, j) <=> j = r.idx)
      BY <3>2, <3>3, OneServed
    <3> QED
      BY <3>2, <3>4
  <2> HIDE DEF set, r
  <2>6. ASSUME NEW j \in (1..MaxLines) \ astray' PROVE Minded(j, set, default, calls) \/ j = i
    <3> SUFFICES ASSUME j # i PROVE Minded(j, set, default, calls)
      OBVIOUS
    <3>1. Minded(j, lines, default, calls)
      BY <1>1, <1>6, <2>6
    <3> QED
      BY <1>4, <3>1, MindedKept
  <2>7. ASSUME NEW j \in (1..MaxLines) \ astray' PROVE Minded(j, lines', default', calls')
    <3>1. \A c \in Slots : calls[c] # None => ServesAt(calls[c], j, set, default)
      <4>1. CASE j = i
        BY <1>6, <2>7, <4>1, ServedByNone DEF CoveredBy
      <4> QED
        BY <2>6, <2>7, <4>1 DEF Minded
    <3>2. j \in DOMAIN set => Own(set[j], default) \/ CoveredBy(calls, j) \/ Covers(r, j)
      BY <2>5, <2>6, <2>7 DEF Minded
    <3> QED
      BY <1>1, <1>4, <2>1, <2>2, <2>5, <3>1, <3>2, AskedMinded
  <2> QED
    BY <2>4, <2>7 DEF FormInv
<1>9. CASE Duplicates(i, item, wh) = {} /\ wh = None
  <2>1. /\ lines' = IF last /\ i < MaxLines THEN Append(set, Blank(default)) ELSE set
        /\ calls' = calls
    BY <1>9 DEF SelectItem
  <2>2. /\ Append(set, Blank(default)) \in Seq(Shown)
        /\ Len(Append(set, Blank(default))) = Len(lines) + 1
        /\ DOMAIN Append(set, Blank(default)) = DOMAIN set \cup {Len(lines) + 1}
        /\ \A j \in DOMAIN set : Append(set, Blank(default))[j] = set[j]
        /\ Append(set, Blank(default))[Len(lines) + 1].of = None
    BY <1>1, <1>4, LineAdded
  <2> DEFINE more == Append(set, Blank(default))
  <2>3. lines' \in Seq(Shown) /\ Len(lines') <= MaxLines
    <3> HIDE DEF set
    <3> QED
      BY <1>1, <1>2, <1>4, <2>1, <2>2, FormAssumption
  <2>4. FormTyped'
    BY <1>1, <1>6, <2>1, <2>3 DEF FormTyped
  <2>5. /\ \A j \in DOMAIN lines : j \in DOMAIN lines' /\ lines'[j] = set[j]
        /\ \A j \in DOMAIN lines' : j \notin DOMAIN lines => lines'[j].of = None
    <3> HIDE DEF set
    <3> QED
      BY <1>4, <2>1, <2>2
  <2> HIDE DEF set
  <2>6. ASSUME NEW j \in (1..MaxLines) \ astray' PROVE Minded(j, lines', default', calls')
    <3>1. CASE j = i
      BY <1>4, <1>5, <1>6, <2>1, <2>5, <2>6, <3>1, MindedAlone DEF Own
    <3>2. CASE j # i
      <4>1. Minded(j, lines, default, calls)
        BY <1>1, <1>6, <2>6, <3>2
      <4> QED
        BY <1>1, <1>4, <2>1, <2>5, <3>2, <4>1, MindedKept
    <3> QED
      BY <3>1, <3>2
  <2> QED
    BY <2>4, <2>6 DEF FormInv
<1> QED
  BY <1>7, <1>8, <1>9

LEMMA WarehouseSet ==
  ASSUME FormInv, NEW i \in DOMAIN lines, NEW wh \in Warehouses \cup {None},
         SetWarehouse(i, wh)
  PROVE  FormInv'
<1> DEFINE item == lines[i].item
           line == [Forget(lines[i]) EXCEPT !.wh = wh]
           set  == UpdateLine(lines, i, line)
           r    == StockCall(i, item, wh, <<>>, NewLine(FALSE))
<1>1. /\ FormTyped /\ lines \in Seq(Shown) /\ Len(lines) <= MaxLines
      /\ default' = default /\ removed' = removed /\ default \in Warehouses \cup {None}
      /\ removed \in BOOLEAN /\ Changed(i)
      /\ calls \in [Slots -> StockCalls \cup {None}]
      /\ \A j \in (1..MaxLines) \ astray : Minded(j, lines, default, calls)
  BY DEF FormInv, FormTyped, SetWarehouse
<1>2. lines[i] \in Shown /\ i \in 1..MaxLines
  BY <1>1, OfLine
<1>3. line \in Shown /\ line.of = None /\ line.item = item /\ line.wh = wh
  <2>1. line \in Shown
    BY <1>2, LinesWritten
  <2> QED
    BY <1>2, <2>1 DEF Forget, Shown
<1>4. /\ set \in Seq(Shown) /\ Len(set) = Len(lines) /\ DOMAIN set = DOMAIN lines
      /\ \A j \in DOMAIN lines : set[j] = IF j = i THEN line ELSE lines[j]
  BY <1>1, <1>3, LineUpdated
<1>5. /\ astray' \subseteq 1..MaxLines
      /\ i \notin astray' => ~CoveredBy(calls, i)
      /\ \A j \in (1..MaxLines) \ astray' : j # i => j \notin astray
  BY <1>1, <1>2, ChangedLines
<1>6. CASE item # None /\ wh # None
  <2>1. Ask(set, r)
    BY <1>6 DEF SetWarehouse
  <2>2. item \in Items
    BY <1>2, <1>6 DEF Shown
  <2>3. r \in StockCalls
    BY <1>1, <1>6, <2>2, OfLine
  <2>4. /\ lines' \in Seq(Shown) /\ Len(lines') = Len(lines)
        /\ calls' \in [Slots -> StockCalls \cup {None}]
    BY <1>1, <1>4, <2>1, <2>3, Asked
  <2>5. FormTyped'
    BY <1>1, <1>5, <2>4 DEF FormTyped
  <2>6. (\A j : ServesAt(r, j, set, default)) /\ (\A j : Covers(r, j) <=> j = i)
    <3>1. set[i].item = item /\ Sells(set[i], default) = wh
      BY <1>3, <1>4, <1>6 DEF Sells
    <3>2. r.idx = i /\ r.item = item /\ r.wh = wh /\ r.rest = <<>>
      BY DEF StockCall
    <3> HIDE DEF set, item, r
    <3>3. r.idx \in DOMAIN set /\ set[r.idx].item = r.item /\ Sells(set[r.idx], default) = r.wh
      BY <1>4, <3>1, <3>2
    <3>4. \A j : ServesAt(r, j, set, default) /\ (Covers(r, j) <=> j = r.idx)
      BY <3>2, <3>3, OneServed
    <3> QED
      BY <3>2, <3>4
  <2> HIDE DEF set, r, line
  <2>7. ASSUME NEW j \in (1..MaxLines) \ astray' PROVE Minded(j, set, default, calls) \/ j = i
    <3> SUFFICES ASSUME j # i PROVE Minded(j, set, default, calls)
      OBVIOUS
    <3>1. Minded(j, lines, default, calls)
      BY <1>1, <1>5, <2>7
    <3> QED
      BY <1>4, <3>1, MindedKept
  <2>8. ASSUME NEW j \in (1..MaxLines) \ astray' PROVE Minded(j, lines', default', calls')
    <3>1. \A c \in Slots : calls[c] # None => ServesAt(calls[c], j, set, default)
      <4>1. CASE j = i
        BY <1>5, <2>8, <4>1, ServedByNone DEF CoveredBy
      <4> QED
        BY <2>7, <2>8, <4>1 DEF Minded
    <3>2. j \in DOMAIN set => Own(set[j], default) \/ CoveredBy(calls, j) \/ Covers(r, j)
      BY <2>6, <2>7, <2>8 DEF Minded
    <3> QED
      BY <1>1, <1>4, <2>1, <2>3, <2>6, <3>1, <3>2, AskedMinded
  <2> QED
    BY <2>5, <2>8 DEF FormInv
<1>7. CASE ~(item # None /\ wh # None)
  <2>1. lines' = set /\ calls' = calls
    BY <1>7 DEF SetWarehouse
  <2> HIDE DEF set, line
  <2>2. FormTyped'
    BY <1>1, <1>4, <1>5, <2>1 DEF FormTyped
  <2>3. ASSUME NEW j \in (1..MaxLines) \ astray' PROVE Minded(j, lines', default', calls')
    <3>1. CASE j = i
      BY <1>3, <1>4, <1>5, <2>1, <2>3, <3>1, MindedAlone DEF Own
    <3>2. CASE j # i
      <4>1. Minded(j, lines, default, calls)
        BY <1>1, <1>5, <2>3, <3>2
      <4> QED
        BY <1>1, <1>4, <2>1, <3>2, <4>1, MindedKept
    <3> QED
      BY <3>1, <3>2
  <2> QED
    BY <2>2, <2>3 DEF FormInv
<1> QED
  BY <1>6, <1>7

LEMMA QtyBlurred ==
  ASSUME FormInv, NEW i \in DOMAIN lines, BlurQty(i)
  PROVE  FormInv'
<1> DEFINE item == lines[i].item
           wh   == Eff(lines[i])
           line == [Forget(lines[i]) EXCEPT !.loading = FALSE]
           r    == StockCall(i, item, wh, <<>>, NewLine(FALSE))
<1>1. /\ FormTyped /\ lines \in Seq(Shown) /\ Len(lines) <= MaxLines
      /\ default' = default /\ removed' = removed /\ default \in Warehouses \cup {None}
      /\ removed \in BOOLEAN /\ Refreshed(i)
      /\ calls \in [Slots -> StockCalls \cup {None}]
      /\ item # None
      /\ \A j \in (1..MaxLines) \ astray : Minded(j, lines, default, calls)
  BY DEF FormInv, FormTyped, BlurQty
<1>2. lines[i] \in Shown /\ wh \in Warehouses \cup {None} /\ i \in 1..MaxLines
  BY <1>1, OfLine
<1>3. /\ astray' \subseteq 1..MaxLines
      /\ \A j \in (1..MaxLines) \ astray' :
           j \notin astray \/ (j = i /\ ~CoveredBy(calls, i))
  BY <1>1, CoveredIs DEF Refreshed, FormTyped
<1>4. CASE wh # None
  <2>1. Ask(lines, r)
    BY <1>4 DEF BlurQty
  <2>2. item \in Items
    BY <1>1, <1>2 DEF Shown
  <2>3. r \in StockCalls
    BY <1>1, <1>2, <1>4, <2>2, OfLine
  <2>4. /\ lines' \in Seq(Shown) /\ Len(lines') = Len(lines)
        /\ calls' \in [Slots -> StockCalls \cup {None}]
    BY <1>1, <2>1, <2>3, Asked
  <2>5. FormTyped'
    BY <1>1, <1>3, <2>4 DEF FormTyped
  <2>6. (\A j : ServesAt(r, j, lines, default)) /\ (\A j : Covers(r, j) <=> j = i)
    <3>1. Sells(lines[i], default) = wh
      BY DEF Sells, Eff
    <3>2. r.idx = i /\ r.item = item /\ r.wh = wh /\ r.rest = <<>>
      BY DEF StockCall
    <3> HIDE DEF wh, r
    <3> QED
      BY <1>1, <3>1, <3>2, OneServed
  <2> HIDE DEF r
  <2>7. ASSUME NEW j \in (1..MaxLines) \ astray' PROVE Minded(j, lines', default', calls')
    <3>1. \A c \in Slots : calls[c] # None => ServesAt(calls[c], j, lines, default)
      <4>1. CASE j \notin astray
        BY <1>1, <2>7, <4>1 DEF Minded
      <4>2. CASE ~CoveredBy(calls, j)
        BY <4>2, ServedByNone DEF CoveredBy
      <4> QED
        BY <1>3, <2>7, <4>1, <4>2
    <3>2. j \in DOMAIN lines => Own(lines[j], default) \/ CoveredBy(calls, j) \/ Covers(r, j)
      BY <1>1, <1>3, <2>6, <2>7 DEF Minded
    <3> QED
      BY <1>1, <2>1, <2>3, <2>6, <3>1, <3>2, AskedMinded
  <2> QED
    BY <2>5, <2>7 DEF FormInv
<1>5. CASE wh = None
  <2>1. lines' = UpdateLine(lines, i, line) /\ calls' = calls
    BY <1>5 DEF BlurQty
  <2>2. /\ line \in Shown /\ line.of = None
        /\ line.item = lines[i].item /\ line.wh = lines[i].wh
    <3>1. line \in Shown
      BY <1>2, LinesWritten
    <3> QED
      BY <1>2, <3>1 DEF Forget, Shown
  <2>3. /\ lines' \in Seq(Shown) /\ Len(lines') = Len(lines) /\ DOMAIN lines' = DOMAIN lines
        /\ \A j \in DOMAIN lines : lines'[j] = IF j = i THEN line ELSE lines[j]
    <3> HIDE DEF line
    <3>1. /\ UpdateLine(lines, i, line) \in Seq(Shown)
          /\ Len(UpdateLine(lines, i, line)) = Len(lines)
          /\ DOMAIN UpdateLine(lines, i, line) = DOMAIN lines
          /\ \A j \in DOMAIN lines :
               UpdateLine(lines, i, line)[j] = IF j = i THEN line ELSE lines[j]
      BY <1>1, <2>2, LineUpdated
    <3> QED
      BY <2>1, <3>1
  <2>4. FormTyped'
    BY <1>1, <1>3, <2>1, <2>3 DEF FormTyped
  <2>5. ASSUME NEW j \in (1..MaxLines) \ astray' PROVE Minded(j, lines', default', calls')
    <3> HIDE DEF line
    <3>1. CASE j \notin astray
      <4>1. Minded(j, lines, default, calls)
        BY <1>1, <2>5, <3>1
      <4>2. j \in DOMAIN lines => /\ lines'[j].item = lines[j].item
                                  /\ Sells(lines'[j], default) = Sells(lines[j], default)
                                  /\ Own(lines[j], default) => Own(lines'[j], default)
        BY <2>2, <2>3 DEF Sells, Own
      <4> QED
        BY <1>1, <2>1, <2>3, <4>1, <4>2, MindedKept
    <3>2. CASE j = i /\ ~CoveredBy(calls, i)
      BY <2>1, <2>2, <2>3, <3>2, MindedAlone DEF Own
    <3> QED
      BY <1>3, <2>5, <3>1, <3>2
  <2> QED
    BY <2>4, <2>5 DEF FormInv
<1> QED
  BY <1>4, <1>5

LEMMA LineAppended ==
  ASSUME FormInv, AddLine
  PROVE  FormInv'
<1>1. /\ FormTyped /\ lines \in Seq(Shown) /\ Len(lines) < MaxLines
      /\ lines' = Append(lines, Blank(default))
      /\ default' = default /\ removed' = removed /\ default \in Warehouses \cup {None}
      /\ removed \in BOOLEAN /\ astray' = astray /\ astray \subseteq 1..MaxLines
      /\ calls' = calls /\ calls \in [Slots -> StockCalls \cup {None}]
      /\ \A j \in (1..MaxLines) \ astray : Minded(j, lines, default, calls)
  BY DEF FormInv, FormTyped, AddLine
<1>2. /\ lines' \in Seq(Shown) /\ Len(lines') = Len(lines) + 1
      /\ DOMAIN lines' = DOMAIN lines \cup {Len(lines) + 1}
      /\ \A j \in DOMAIN lines : lines'[j] = lines[j]
      /\ lines'[Len(lines) + 1].of = None
  BY <1>1, LineAdded
<1>3. Len(lines') <= MaxLines
  BY <1>1, <1>2, FormAssumption
<1>4. FormTyped'
  BY <1>1, <1>2, <1>3 DEF FormTyped
<1>5. ASSUME NEW j \in (1..MaxLines) \ astray' PROVE Minded(j, lines', default', calls')
  <2>1. Minded(j, lines, default, calls)
    BY <1>1, <1>5
  <2> QED
    BY <1>1, <1>2, <2>1, MindedKept
<1> QED
  BY <1>4, <1>5 DEF FormInv

\* The lines that are left when one is removed.
LEMMA LineGone ==
  ASSUME NEW ls \in Seq(Shown), NEW i \in DOMAIN ls
  PROVE  /\ RemoveAt(ls, i) \in Seq(Shown) /\ Len(RemoveAt(ls, i)) = Len(ls) - 1
         /\ \A j \in 1..(Len(ls) - 1) :
              RemoveAt(ls, i)[j] = IF j < i THEN ls[j] ELSE ls[j + 1]
<1> DEFINE before == SubSeq(ls, 1, i - 1)
           after  == SubSeq(ls, i + 1, Len(ls))
<1>1. Len(ls) \in Nat /\ i \in 1..Len(ls) /\ DOMAIN ls = 1..Len(ls)
  OBVIOUS
<1>2. /\ before \in Seq(Shown) /\ Len(before) = i - 1
      /\ \A j \in 1..(i - 1) : before[j] = ls[j]
  BY <1>1, SubSeqProperties
<1>3. /\ after \in Seq(Shown) /\ Len(after) = Len(ls) - i
      /\ \A j \in 1..(Len(ls) - i) : after[j] = ls[i + j]
  BY <1>1, SubSeqProperties
<1> HIDE DEF before, after
<1>4. /\ before \o after \in Seq(Shown) /\ Len(before \o after) = Len(ls) - 1
      /\ \A j \in 1..(Len(ls) - 1) :
           (before \o after)[j] = IF j < i THEN ls[j] ELSE ls[j + 1]
  <2>1. /\ before \o after \in Seq(Shown)
        /\ Len(before \o after) = Len(before) + Len(after)
        /\ \A j \in 1..(Len(before) + Len(after)) :
             (before \o after)[j] = IF j <= Len(before) THEN before[j]
                                                        ELSE after[j - Len(before)]
    BY <1>2, <1>3, ConcatProperties
  <2>2. Len(before) + Len(after) = Len(ls) - 1
    BY <1>1, <1>2, <1>3
  <2>3. ASSUME NEW j \in 1..(Len(ls) - 1)
        PROVE  (before \o after)[j] = IF j < i THEN ls[j] ELSE ls[j + 1]
    <3>1. CASE j < i
      BY <1>1, <1>2, <2>1, <2>2, <2>3, <3>1
    <3>2. CASE ~(j < i)
      <4>1. j - (i - 1) \in 1..(Len(ls) - i) /\ i + (j - (i - 1)) = j + 1
        BY <1>1, <2>3, <3>2
      <4>2. (before \o after)[j] = after[j - (i - 1)]
        BY <1>1, <1>2, <2>1, <2>2, <2>3, <3>2
      <4> QED
        BY <1>3, <3>2, <4>1, <4>2
    <3> QED
      BY <3>1, <3>2
  <2> QED
    BY <2>1, <2>2, <2>3
<1>5. RemoveAt(ls, i) = before \o after
  BY DEF RemoveAt, before, after
<1> QED
  BY <1>4, <1>5

LEMMA LineRemoved ==
  ASSUME FormInv, NEW i \in DOMAIN lines, RemoveLine(i)
  PROVE  FormInv'
<1>1. /\ FormTyped /\ lines \in Seq(Shown) /\ Len(lines) <= MaxLines
      /\ lines' = RemoveAt(lines, i)
      /\ default' = default /\ removed' = TRUE /\ default \in Warehouses \cup {None}
      /\ astray' = {j \in 1..MaxLines :
                      IF j < i THEN j \in astray
                      ELSE j + 1 \in astray \/ \E k \in i..MaxLines : Covered(k)}
      /\ calls' = calls /\ calls \in [Slots -> StockCalls \cup {None}]
      /\ \A j \in (1..MaxLines) \ astray : Minded(j, lines, default, calls)
  BY DEF FormInv, FormTyped, RemoveLine
<1>2. /\ lines' \in Seq(Shown) /\ Len(lines') = Len(lines) - 1
      /\ \A j \in 1..(Len(lines) - 1) :
           lines'[j] = IF j < i THEN lines[j] ELSE lines[j + 1]
  BY <1>1, LineGone
<1>3. /\ Len(lines) \in Nat /\ Len(lines') <= MaxLines /\ MaxLines \in Nat
      /\ i \in 1..Len(lines)
      /\ DOMAIN lines = 1..Len(lines) /\ DOMAIN lines' = 1..(Len(lines) - 1)
  <2>1. Len(lines) \in Nat /\ MaxLines \in Nat
    BY <1>1, FormAssumption
  <2> QED
    BY <1>1, <1>2, <2>1
<1>4. FormTyped'
  BY <1>1, <1>2, <1>3 DEF FormTyped
<1>5. ASSUME NEW j \in (1..MaxLines) \ astray' PROVE Minded(j, lines', default', calls')
  <2>1. CASE j < i
    <3>1. Minded(j, lines, default, calls)
      BY <1>1, <1>5, <2>1
    <3>2. j \in DOMAIN lines /\ j \in DOMAIN lines' /\ lines'[j] = lines[j]
      BY <1>2, <1>3, <1>5, <2>1
    <3> QED
      BY <1>1, <3>1, <3>2, MindedKept
  <2>2. CASE ~(j < i)
    <3>1. j + 1 \notin astray /\ \A k \in i..MaxLines : ~CoveredBy(calls, k)
      BY <1>1, <1>5, <2>2, CoveredIs
    <3>2. j \in i..MaxLines
      BY <1>3, <1>5, <2>2
    <3>3. ASSUME j \in DOMAIN lines' PROVE Own(lines'[j], default)
      <4>1. j + 1 \in 1..MaxLines /\ j + 1 \in i..MaxLines /\ j + 1 \in DOMAIN lines
        BY <1>1, <1>3, <1>5, <2>2, <3>3
      <4>2. lines'[j] = lines[j + 1]
        BY <1>2, <1>3, <2>2, <3>3
      <4>3. Minded(j + 1, lines, default, calls)
        BY <1>1, <3>1, <4>1
      <4> QED
        BY <3>1, <4>1, <4>2, <4>3 DEF Minded
    <3> QED
      BY <1>1, <3>1, <3>2, <3>3, MindedAlone
  <2> QED
    BY <2>1, <2>2
<1> QED
  BY <1>4, <1>5 DEF FormInv

LEMMA DefaultSet ==
  ASSUME FormInv, NEW w \in Warehouses \cup {None}, SetDefault(w)
  PROVE  FormInv'
<1> DEFINE sold  == {i \in DOMAIN lines : lines[i].item # None}
           take(l) == [l EXCEPT !.wh = IF @ = None THEN w ELSE @]
           taken == [i \in DOMAIN lines |-> take(lines[i])]
           bare(l) == [Forget(l) EXCEPT !.loading = FALSE]
<1>1. /\ FormTyped /\ lines \in Seq(Shown) /\ Len(lines) <= MaxLines
      /\ default' = w /\ removed' = removed
      /\ removed \in BOOLEAN /\ astray \subseteq 1..MaxLines
      /\ astray' = astray \cup {i \in DOMAIN lines : lines[i].wh = None /\ Covered(i)}
                          \cup {i \in sold : w # None /\ lines[i].wh \notin {None, w}}
      /\ calls \in [Slots -> StockCalls \cup {None}]
      /\ \A j \in (1..MaxLines) \ astray : Minded(j, lines, default, calls)
  BY DEF FormInv, FormTyped, SetDefault
<1>2. Len(lines) \in Nat /\ DOMAIN lines = 1..Len(lines) /\ \A i \in DOMAIN lines : lines[i] \in Shown
  BY <1>1
<1>3. \A l \in Shown : /\ bare(l) \in Shown /\ bare(l).of = None
                       /\ bare(l).item = l.item /\ bare(l).wh = l.wh
                       /\ take(l) \in Shown /\ take(l).of = l.of /\ take(l).item = l.item
                       /\ take(l).wh = IF l.wh = None THEN w ELSE l.wh
  BY DEF Shown, Forget
<1> HIDE DEF take, bare
<1>4. /\ taken \in Seq(Shown) /\ Len(taken) = Len(lines) /\ DOMAIN taken = DOMAIN lines
      /\ \A i \in DOMAIN lines : taken[i] = take(lines[i])
  <2>1. taken \in [1..Len(lines) -> Shown]
    BY <1>2, <1>3
  <2>2. taken \in Seq(Shown)
    BY <1>2, <2>1, SeqDef
  <2> QED
    BY <1>2, <2>1, <2>2, LenProperties
<1> HIDE DEF taken
<1>5. astray' \subseteq 1..MaxLines
  <2>1. DOMAIN lines \subseteq 1..MaxLines
    BY <1>1, <1>2, FormAssumption
  <2>2. sold \subseteq DOMAIN lines
    OBVIOUS
  <2> HIDE DEF sold
  <2> QED
    BY <1>1, <2>1, <2>2
\* A line in order before and after keeps, under an open request, its warehouse.
<1>6. ASSUME NEW j \in (1..MaxLines) \ astray'
      PROVE  /\ j \notin astray /\ Minded(j, lines, default, calls)
             /\ (j \in DOMAIN lines /\ lines[j].wh = None) => ~CoveredBy(calls, j)
             /\ (j \in sold /\ w # None) => lines[j].wh \in {None, w}
             /\ j \notin sold => ~CoveredBy(calls, j)
             /\ (j \notin sold /\ j \in DOMAIN lines) => lines[j].of = None
  <2>1. j \notin astray
    BY <1>1, <1>6
  <2>2. j \notin sold => (j \in DOMAIN lines => lines[j].item = None)
    OBVIOUS
  <2>3. j \notin sold => ~CoveredBy(calls, j) /\ (j \in DOMAIN lines => lines[j].of = None)
    <3> HIDE DEF sold
    <3> QED
      BY <1>6, <2>1, <2>2, Unsold
  <2> QED
    BY <1>1, <1>6, <2>1, <2>3, CoveredIs
\* The open requests still serve a line in order that has taken the default.
<1>10. ASSUME NEW j \in (1..MaxLines) \ astray', j \in sold, w # None, NEW c \in Slots,
              calls[c] # None
       PROVE  ServesAt(calls[c], j, taken, w) /\ LineSells(taken, w, j, lines[j].item, w)
  <2>1. LineSells(taken, w, j, lines[j].item, w)
    BY <1>2, <1>3, <1>4, <1>6, <1>10 DEF LineSells, Sells
  <2>2. CASE lines[j].wh = None
    <3>1. ~CoveredBy(calls, j)
      BY <1>6, <1>10, <2>2
    <3> QED
      BY <1>10, <2>1, <3>1, ServedByNone DEF CoveredBy
  <2>3. CASE lines[j].wh = w
    <3>1. ServesAt(calls[c], j, lines, default)
      BY <1>6, <1>10 DEF Minded
    <3>2. Sells(lines[j], default) = w
      BY <1>10, <2>3 DEF Sells
    <3> HIDE DEF sold
    <3> QED
      BY <2>1, <3>1, <3>2 DEF ServesAt, LineSells
  <2> QED
    BY <1>6, <1>10, <2>2, <2>3
<1>7. CASE w = None
  <2>1. lines' = [i \in DOMAIN lines |-> bare(lines[i])] /\ calls' = calls
    BY <1>7 DEF SetDefault, bare
  <2>2. lines' \in [1..Len(lines) -> Shown]
    BY <1>2, <1>3, <2>1
  <2>3. lines' \in Seq(Shown)
    BY <1>2, <2>2, SeqDef
  <2>4. Len(lines') = Len(lines)
    BY <1>2, <2>2, <2>3, LenProperties
  <2>5. FormTyped'
    BY <1>1, <1>5, <2>1, <2>3, <2>4 DEF FormTyped
  <2>6. \A j \in DOMAIN lines : /\ j \in DOMAIN lines'
                                /\ lines'[j].of = None /\ lines'[j].item = lines[j].item
                                /\ lines'[j].wh = lines[j].wh
    BY <1>2, <1>3, <2>1
  <2>7. ASSUME NEW j \in (1..MaxLines) \ astray' PROVE Minded(j, lines', default', calls')
    <3>0. DOMAIN lines' = DOMAIN lines
      BY <2>1
    <3>1. CASE j \in DOMAIN lines /\ lines[j].wh = None
      BY <1>6, <2>1, <2>6, <2>7, <3>1, MindedAlone DEF Own
    <3>2. CASE ~(j \in DOMAIN lines /\ lines[j].wh = None)
      <4>1. Minded(j, lines, default, calls)
        BY <1>6, <2>7
      <4>2. j \in DOMAIN lines => /\ Sells(lines'[j], default') = Sells(lines[j], default)
                                  /\ Own(lines'[j], default')
        BY <2>6, <3>2 DEF Sells, Own
      <4> QED
        BY <2>1, <2>6, <3>0, <4>1, <4>2, MindedKept
    <3> QED
      BY <3>1, <3>2
  <2> QED
    BY <2>5, <2>7 DEF FormInv
<1>8. CASE w # None /\ sold = {}
  <2>1. lines' = taken /\ calls' = calls
    BY <1>8 DEF SetDefault, taken, take
  <2>2. FormTyped'
    BY <1>1, <1>4, <1>5, <2>1 DEF FormTyped
  <2>3. ASSUME NEW j \in (1..MaxLines) \ astray' PROVE Minded(j, lines', default', calls')
    <3>1. ~CoveredBy(calls, j) /\ (j \in DOMAIN lines => lines[j].of = None)
      BY <1>6, <1>8, <2>3
    <3>2. j \in DOMAIN lines' => Own(lines'[j], default')
      BY <1>2, <1>3, <1>4, <2>1, <3>1 DEF Own
    <3> QED
      BY <2>1, <3>1, <3>2, MindedAlone
  <2> QED
    BY <2>2, <2>3 DEF FormInv
<1>9. CASE w # None /\ sold # {}
  <2> DEFINE asked(o) == [k \in DOMAIN o |-> [idx |-> o[k], item |-> lines[o[k]].item]]
             r(o) == StockCall(asked(o)[1].idx, asked(o)[1].item, w, Tail(asked(o)),
                               NewLine(FALSE))
  <2>1. PICK order \in Ascending(sold) : Ask(taken, r(order))
    BY <1>9 DEF SetDefault, taken, take
  <2> DEFINE n == Cardinality(sold)
             ask == asked(order)
  <2>2. n \in Nat
    <3>1. IsFiniteSet(1..Len(lines))
      BY <1>2, FS_Interval
    <3>2. IsFiniteSet(sold)
      BY <1>2, <3>1, FS_Subset
    <3> QED
      BY <3>2, FS_CardinalityType
  <2> HIDE DEF n
  <2>3. order \in [1..n -> sold] /\ \A i \in sold : \E k \in 1..n : order[k] = i
    BY DEF Ascending, n
  <2>4. n >= 1
    BY <1>9, <2>2, <2>3
  <2>5. ask \in [1..n -> AskedLine]
    <3>1. \A i \in sold : i \in 1..MaxLines /\ lines[i].item \in Items
      BY <1>1, <1>2, FormAssumption DEF Shown
    <3> QED
      BY <2>3, <3>1 DEF AskedLine
  <2>6. \A k \in 1..n : ask[k].idx = order[k] /\ ask[k].item = lines[order[k]].item
    BY <2>3
  <2> HIDE DEF asked
  <2>7. ask \in Seq(AskedLine) /\ Len(ask) = n
    <3>1. ask \in Seq(AskedLine)
      BY <2>2, <2>5, SeqDef
    <3> QED
      BY <2>2, <2>5, <3>1, LenProperties
  <2>8. /\ Tail(ask) \in Seq(AskedLine) /\ DOMAIN Tail(ask) = 1..(n - 1)
        /\ \A k \in 1..(n - 1) : Tail(ask)[k] = ask[k + 1]
    BY <2>2, <2>4, <2>7
  <2>9. /\ r(order).idx = order[1] /\ r(order).item = lines[order[1]].item
        /\ r(order).wh = w /\ r(order).rest = Tail(ask)
    BY <2>2, <2>4, <2>6 DEF StockCall
  <2>10. r(order) \in StockCalls
    <3>1. ask[1] \in AskedLine
      BY <2>2, <2>4, <2>5
    <3>2. NewLine(FALSE) \in [new : BOOLEAN, wh : Warehouses \cup {None}]
      BY DEF NewLine
    <3> QED
      BY <1>9, <2>8, <3>1, <3>2 DEF StockCalls, StockCall, AskedLine
  <2> HIDE DEF ask, r
  <2>11. /\ lines' \in Seq(Shown) /\ Len(lines') = Len(lines)
         /\ calls' \in [Slots -> StockCalls \cup {None}]
    BY <1>1, <1>4, <2>1, <2>10, Asked
  <2>12. FormTyped'
    BY <1>1, <1>5, <2>11 DEF FormTyped
  <2>13. ASSUME NEW j \in (1..MaxLines) \ astray' PROVE Minded(j, lines', default', calls')
    <3>1. j \in sold => LineSells(taken, w, j, lines[j].item, w)
      BY <1>2, <1>3, <1>4, <1>6, <1>9, <2>13 DEF LineSells, Sells
    <3>2. \A k \in 1..n : order[k] \in sold
      BY <2>3
    <3>3. /\ r(order).idx \in sold /\ r(order).item = lines[r(order).idx].item
          /\ r(order).wh = w
      BY <2>2, <2>4, <2>9, <3>2
    <3>4. ASSUME NEW k \in DOMAIN r(order).rest
          PROVE  /\ r(order).rest[k].idx \in sold
                 /\ r(order).rest[k].item = lines[r(order).rest[k].idx].item
      <4>1. k \in 1..(n - 1) /\ k + 1 \in 1..n /\ r(order).rest[k] = ask[k + 1]
        BY <2>2, <2>8, <2>9, <3>4
      <4> QED
        BY <2>6, <3>2, <4>1 DEF ask
    <3> HIDE DEF sold
    <3>5. ServesAt(r(order), j, taken, w)
      BY <3>1, <3>3, <3>4 DEF ServesAt
    <3>6. ASSUME NEW i \in sold PROVE Covers(r(order), i)
      <4>1. PICK k \in 1..n : order[k] = i
        BY <2>3, <3>6
      <4>2. CASE k = 1
        BY <2>9, <4>1, <4>2 DEF Covers
      <4>3. CASE k # 1
        <5>1. k - 1 \in 1..(n - 1) /\ r(order).rest[k - 1] = ask[k]
          BY <2>2, <2>8, <2>9, <4>1, <4>3
        <5>2. r(order).rest[k - 1].idx = i /\ k - 1 \in DOMAIN r(order).rest
          BY <2>6, <2>8, <2>9, <4>1, <5>1 DEF ask
        <5> QED
          BY <5>2 DEF Covers
      <4> QED
        BY <4>2, <4>3
    <3>7. CASE j \in sold
      <4>1. \A c \in Slots : calls[c] # None => ServesAt(calls[c], j, taken, w)
        BY <1>9, <1>10, <2>13, <3>7
      <4> QED
        BY <1>1, <1>4, <2>1, <2>10, <3>5, <3>6, <3>7, <4>1, AskedMinded
    <3>8. CASE j \notin sold
      <4>1. ~CoveredBy(calls, j) /\ (j \in DOMAIN lines => lines[j].of = None)
        BY <1>6, <2>13, <3>8
      <4>2. \A c \in Slots : calls[c] # None => ServesAt(calls[c], j, taken, w)
        BY <4>1, ServedByNone DEF CoveredBy
      <4>3. j \in DOMAIN taken => Own(taken[j], w)
        BY <1>2, <1>3, <1>4, <4>1 DEF Own
      <4> QED
        BY <1>1, <1>4, <2>1, <2>10, <3>5, <4>2, <4>3, AskedMinded
    <3> QED
      BY <3>7, <3>8
  <2> QED
    BY <2>12, <2>13 DEF FormInv
<1> QED
  BY <1>7, <1>8, <1>9

LEMMA Returned ==
  ASSUME FormInv, NEW c \in Slots, NEW ok \in BOOLEAN, Return(c, ok)
  PROVE  FormInv'
<1> DEFINE r    == calls[c]
           line == Answered(lines[r.idx], r, ok)
           done == UpdateLine(lines, r.idx, line)
           next == Head(r.rest)
           s    == StockCall(next.idx, next.item, r.wh, Tail(r.rest), r.adds)
           more == Append(done, Blank(r.adds.wh))
<1>1. /\ FormTyped /\ lines \in Seq(Shown) /\ Len(lines) <= MaxLines
      /\ default' = default /\ removed' = removed /\ default \in Warehouses \cup {None}
      /\ removed \in BOOLEAN /\ astray' = astray /\ astray \subseteq 1..MaxLines
      /\ calls \in [Slots -> StockCalls \cup {None}] /\ r # None
      /\ \A j \in (1..MaxLines) \ astray : Minded(j, lines, default, calls)
  BY DEF FormInv, FormTyped, Return
<1>2. /\ r \in StockCalls /\ r.idx \in 1..MaxLines /\ r.item \in Items /\ r.wh \in Warehouses
      /\ r.rest \in Seq(AskedLine) /\ r.adds.wh \in Warehouses \cup {None}
      /\ r.adds \in [new : BOOLEAN, wh : Warehouses \cup {None}]
  BY <1>1 DEF StockCalls, AskedLine
<1>3. \A i \in DOMAIN lines : lines[i] \in Shown
  BY <1>1
<1>4. ASSUME r.idx \in DOMAIN lines
      PROVE  /\ line \in Shown
             /\ line.item = lines[r.idx].item /\ line.wh = lines[r.idx].wh
             /\ line.of = IF ok THEN <<r.item, r.wh>> ELSE None
  <2>1. line \in Shown
    BY <1>2, <1>3, <1>4, LinesWritten
  <2>2. lines[r.idx] \in Shown
    BY <1>3, <1>4
  <2> QED
    BY <2>1, <2>2 DEF Answered, Shown
<1>5. /\ done \in Seq(Shown) /\ Len(done) = Len(lines) /\ DOMAIN done = DOMAIN lines
      /\ \A j \in DOMAIN lines : done[j] = IF j = r.idx THEN line ELSE lines[j]
  <2> HIDE DEF line
  <2> QED
    BY <1>1, <1>4, LineUpdated
<1>6. \A j \in DOMAIN lines : /\ done[j].item = lines[j].item
                              /\ Sells(done[j], default) = Sells(lines[j], default)
                              /\ j # r.idx => done[j] = lines[j]
  BY <1>4, <1>5 DEF Sells
<1> HIDE DEF line, done
\* What a line in order is once its answer, or another's, has been applied.
<1>7. ASSUME NEW j \in (1..MaxLines) \ astray
      PROVE  /\ \A e \in Slots : calls[e] # None => ServesAt(calls[e], j, done, default)
             /\ ServesAt(r, j, done, default)
             /\ j = r.idx => j \in DOMAIN lines /\ Own(done[j], default)
             /\ j \in DOMAIN lines /\ j # r.idx => Own(done[j], default) \/ CoveredBy(calls, j)
  <2>1. Minded(j, lines, default, calls) /\ ServesAt(r, j, lines, default)
    BY <1>1, <1>7 DEF Minded
  <2>2. \A item, wh : LineSells(lines, default, j, item, wh)
                        => LineSells(done, default, j, item, wh)
    BY <1>5, <1>6 DEF LineSells
  <2>3. \A e \in Slots : calls[e] # None => ServesAt(calls[e], j, done, default)
    BY <2>1, <2>2 DEF ServesAt, Minded
  <2>4. ServesAt(r, j, done, default)
    BY <2>1, <2>2 DEF ServesAt
  <2>5. ASSUME j = r.idx PROVE j \in DOMAIN lines /\ Own(done[j], default)
    <3>1. LineSells(lines, default, j, r.item, r.wh) /\ LineSells(done, default, j, r.item, r.wh)
      BY <2>1, <2>2, <2>5 DEF ServesAt
    <3>2. done[j].of # None => done[j].of = <<r.item, r.wh>>
      BY <1>4, <1>5, <2>5, <3>1 DEF LineSells
    <3> QED
      BY <3>1, <3>2 DEF Own, LineSells
  <2>6. j \in DOMAIN lines /\ j # r.idx => Own(done[j], default) \/ CoveredBy(calls, j)
    BY <1>6, <2>1 DEF Minded
  <2> QED
    BY <2>3, <2>4, <2>5, <2>6
<1>9. CASE r.rest # <<>>
  <2>1. /\ calls' = [calls EXCEPT ![c] = s]
        /\ lines' = UpdateLine(done, s.idx, Loads(done[s.idx]))
    BY <1>9 DEF Return, StockCall, done, line
  <2>2. /\ next \in AskedLine /\ next = r.rest[1] /\ 1 \in DOMAIN r.rest
        /\ Tail(r.rest) \in Seq(AskedLine)
        /\ \A k \in DOMAIN Tail(r.rest) : k + 1 \in DOMAIN r.rest /\ Tail(r.rest)[k] = r.rest[k + 1]
        /\ \A k \in DOMAIN r.rest : k # 1 => /\ k - 1 \in DOMAIN Tail(r.rest)
                                             /\ Tail(r.rest)[k - 1] = r.rest[k]
    BY <1>2, <1>9
  <2>3. /\ s \in StockCalls /\ s # None /\ s.idx = next.idx /\ s.item = next.item
        /\ s.wh = r.wh /\ s.rest = Tail(r.rest)
    <3>1. s \in StockCalls
      BY <1>2, <2>2 DEF StockCall, StockCalls, AskedLine
    <3> QED
      BY <3>1, FormAssumption DEF StockCall
  <2> HIDE DEF s, next, r
  <2>4. \A j \in DOMAIN done : done[j] \in Shown
    BY <1>5
  <2>5. s.idx \in DOMAIN done => Loads(done[s.idx]) \in Shown
    BY <2>4, LinesWritten
  <2>6. /\ lines' \in Seq(Shown) /\ Len(lines') = Len(lines) /\ DOMAIN lines' = DOMAIN lines
        /\ \A j \in DOMAIN lines : lines'[j] = IF j = s.idx THEN Loads(done[s.idx]) ELSE done[j]
    BY <1>5, <2>1, <2>5, LineUpdated
  <2>7. /\ calls' \in [Slots -> StockCalls \cup {None}]
        /\ calls'[c] = s /\ \A e \in Slots \ {c} : calls'[e] = calls[e]
    BY <1>1, <2>1, <2>3
  <2>8. FormTyped'
    BY <1>1, <2>6, <2>7 DEF FormTyped
  <2>9. \A l \in Shown : Loads(l).item = l.item /\ Loads(l).wh = l.wh /\ Loads(l).of = l.of
    BY DEF Loads, Shown
  <2>10. \A j \in DOMAIN lines : /\ lines'[j].item = done[j].item
                                 /\ Sells(lines'[j], default) = Sells(done[j], default)
                                 /\ Own(done[j], default) => Own(lines'[j], default)
    BY <1>5, <2>4, <2>6, <2>9 DEF Sells, Own
  <2>11. ASSUME NEW j \in (1..MaxLines) \ astray' PROVE Minded(j, lines', default', calls')
    <3>1. j \in (1..MaxLines) \ astray
      BY <1>1, <2>11
    <3>2. ServesAt(s, j, done, default)
      BY <1>7, <2>2, <2>3, <3>1 DEF ServesAt
    <3>3. \A e \in Slots : calls'[e] # None => ServesAt(calls'[e], j, done, default)
      BY <1>7, <2>7, <3>1, <3>2
    <3>4. ASSUME j # r.idx, Covers(r, j) PROVE Covers(s, j)
      <4>1. PICK k \in DOMAIN r.rest : r.rest[k].idx = j
        BY <3>4 DEF Covers
      <4>2. CASE k = 1
        BY <2>2, <2>3, <4>1, <4>2 DEF Covers
      <4>3. CASE k # 1
        <5>1. k - 1 \in DOMAIN s.rest /\ s.rest[k - 1].idx = j
          BY <2>2, <2>3, <4>1, <4>3
        <5> QED
          BY <5>1 DEF Covers
      <4> QED
        BY <4>2, <4>3
    <3>5. j \in DOMAIN done => Own(done[j], default) \/ CoveredBy(calls', j)
      <4>1. ASSUME j # r.idx, NEW e \in Slots, calls[e] # None, Covers(calls[e], j)
            PROVE  CoveredBy(calls', j)
        <5>1. CASE e = c
          <6>1. calls[c] = r
            BY DEF r
          <6>2. Covers(s, j)
            BY <3>4, <4>1, <5>1, <6>1
          <6> QED
            BY <2>3, <2>7, <6>2 DEF CoveredBy
        <5>2. CASE e # c
          BY <2>7, <4>1, <5>2 DEF CoveredBy
        <5> QED
          BY <5>1, <5>2
      <4> QED
        BY <1>5, <1>7, <3>1, <4>1 DEF CoveredBy
    <3>6. Minded(j, done, default, calls')
      BY <3>3, <3>5 DEF Minded
    <3> QED
      BY <1>1, <1>5, <2>6, <2>10, <3>6, MindedKept
  <2> QED
    BY <2>8, <2>11 DEF FormInv
<1>10. CASE r.rest = <<>>
  <2>1. /\ calls' = [calls EXCEPT ![c] = None]
        /\ lines' = IF r.adds.new /\ Len(done) < MaxLines THEN more ELSE done
    BY <1>10 DEF Return, done, line
  <2>2. /\ more \in Seq(Shown) /\ Len(more) = Len(lines) + 1
        /\ DOMAIN more = DOMAIN lines \cup {Len(lines) + 1}
        /\ \A j \in DOMAIN lines : more[j] = done[j]
        /\ more[Len(lines) + 1].of = None
    BY <1>2, <1>5, LineAdded
  <2> HIDE DEF more
  <2>3. lines' \in Seq(Shown) /\ Len(lines') <= MaxLines
    <3>1. Len(lines) \in Nat
      BY <1>1
    <3> QED
      BY <1>1, <1>5, <2>1, <2>2, <3>1, FormAssumption
  <2>4. FormTyped'
    BY <1>1, <2>1, <2>3 DEF FormTyped
  <2>5. /\ \A j \in DOMAIN lines : j \in DOMAIN lines' /\ lines'[j] = done[j]
        /\ \A j \in DOMAIN lines' : j \notin DOMAIN lines => lines'[j].of = None
    BY <1>5, <2>1, <2>2
  <2>6. ASSUME NEW j \in (1..MaxLines) \ astray' PROVE Minded(j, lines', default', calls')
    <3>1. j \in (1..MaxLines) \ astray
      BY <1>1, <2>6
    <3>2. \A e \in Slots : calls'[e] # None => e # c /\ calls'[e] = calls[e]
      BY <1>1, <2>1
    <3>3. \A e \in Slots : calls'[e] # None => ServesAt(calls'[e], j, done, default)
      BY <1>7, <3>1, <3>2
    <3>4. \A i : Covers(r, i) => i = r.idx
      BY <1>10 DEF Covers
    <3>5. j \in DOMAIN done => Own(done[j], default) \/ CoveredBy(calls', j)
      <4>1. ASSUME j # r.idx, NEW e \in Slots, calls[e] # None, Covers(calls[e], j)
            PROVE  CoveredBy(calls', j)
        <5>1. e # c
          BY <3>4, <4>1
        <5>2. calls'[e] = calls[e]
          BY <1>1, <2>1, <5>1
        <5> QED
          BY <4>1, <5>2 DEF CoveredBy
      <4> QED
        BY <1>5, <1>7, <3>1, <4>1 DEF CoveredBy
    <3>6. Minded(j, done, default, calls')
      BY <3>3, <3>5 DEF Minded
    <3> QED
      BY <1>1, <1>5, <2>5, <3>6, MindedKept
  <2> QED
    BY <2>4, <2>6 DEF FormInv
<1> QED
  BY <1>9, <1>10

LEMMA FormBegins == FormInit => FormInv
<1> SUFFICES ASSUME FormInit PROVE FormInv
  OBVIOUS
<1>1. PICK w \in Warehouses : default = w /\ lines = <<Blank(w)>>
  BY DEF FormInit
<1>2. Blank(w) \in Shown /\ Blank(w).of = None
  BY DEF Blank, Shown
<1>3. lines \in Seq(Shown) /\ Len(lines) = 1 /\ \A i \in DOMAIN lines : lines[i].of = None
  BY <1>1, <1>2
<1>4. FormTyped
  <2>1. Len(lines) <= MaxLines
    BY <1>3, FormAssumption
  <2>2. calls \in [Slots -> StockCalls \cup {None}] /\ removed = FALSE /\ astray = {}
    BY DEF FormInit
  <2> QED
    BY <1>1, <1>3, <2>1, <2>2 DEF FormTyped
<1>5. \A i : ~CoveredBy(calls, i)
  BY DEF FormInit, CoveredBy
<1>6. \A i \in DOMAIN lines : Own(lines[i], default)
  BY <1>3 DEF Own
<1>7. \A i : Minded(i, lines, default, calls)
  BY <1>5, <1>6, MindedAlone
<1> QED
  BY <1>4, <1>7 DEF FormInv

LEMMA FormSteps == FormInv /\ [FormNext]_formVars => FormInv'
<1> SUFFICES ASSUME FormInv, [FormNext]_formVars PROVE FormInv'
  OBVIOUS
<1>1. ASSUME NEW i \in DOMAIN lines, Edit(i) PROVE FormInv'
  BY <1>1, ItemSelected, WarehouseSet, QtyBlurred, LineRemoved DEF Edit
<1>2. CASE AddLine
  BY <1>2, LineAppended
<1>3. ASSUME NEW w \in Warehouses \cup {None}, SetDefault(w) PROVE FormInv'
  BY <1>3, DefaultSet
<1>4. ASSUME NEW c \in Slots, NEW ok \in BOOLEAN, Return(c, ok) PROVE FormInv'
  BY <1>4, Returned
<1>5. CASE UNCHANGED formVars
  BY <1>5 DEF formVars, FormInv, FormTyped
<1> QED
  BY <1>1, <1>2, <1>3, <1>4, <1>5 DEF FormNext

\* What the form keeps is what its handlers may write, and every open request
\* asks of a line, unless it went astray, what the line sells now: FormInv,
\* the inductive invariant of the form.
THEOREM FormKept == FormSpec => []FormInv
<1> QED
  BY FormBegins, FormSteps, PTL DEF FormSpec

\* refreshAvailabilityForLine answers to an index, and what follows it uses
\* the lines of an earlier render.  For any items, warehouses, lines and open
\* requests, answered in any order, a line shows its own stock once no request
\* for it is open, unless its item or warehouse was changed under one, or a
\* line up to it was removed under one, or the default was chosen while the
\* line sold from another warehouse, since the user last acted on it alone.
THEOREM OwnStockShown == FormSpec => []OwnStock
<1>1. FormInv => OwnStock
  <2> SUFFICES ASSUME FormInv, NEW i \in DOMAIN lines \ astray, ~Covered(i), lines[i].of # None
               PROVE  lines[i].of = <<lines[i].item, Eff(lines[i])>>
    BY DEF OwnStock
  <2>1. i \in (1..MaxLines) \ astray
    BY OfLine DEF FormInv
  <2>2. Own(lines[i], default)
    BY <2>1, CoveredIs DEF FormInv, Minded
  <2> QED
    BY <2>2 DEF Own, Sells, Eff
<1> QED
  BY <1>1, FormKept, PTL

=============================================================================
