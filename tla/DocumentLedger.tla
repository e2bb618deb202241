--------------------------- MODULE DocumentLedger ---------------------------
(***************************************************************************)
(* What the accounting service promises the modules that post documents: a *)
(* document is posted at most once, what was posted never changes, and it  *)
(* is cancelled at most once, by an entry with the same lines swapped.     *)
(*                                                                         *)
(* A voucher is a document with a number of reversals on top: rev = 0 is   *)
(* the posting of the document, rev = 1 its reversal, rev = 2 the reversal *)
(* of that one.                                                            *)
(***************************************************************************)
EXTENDS Integers

CONSTANTS Docs, MaxRev, Lines

VARIABLES
  state,     \* of each voucher: "none", "posted" or "reversed"
  content    \* the lines of each voucher

Voucher == [doc : Docs, rev : 0..MaxRev]

Swapped(lines) == {[batch |-> l.batch, sign |-> -l.sign] : l \in lines}

Init ==
  /\ state = [v \in Voucher |-> "none"]
  /\ content = [v \in Voucher |-> {}]

Post(v) ==
  /\ v.rev = 0
  /\ state[v] = "none"
  /\ state' = [state EXCEPT ![v] = "posted"]
  /\ \E lines \in SUBSET Lines : content' = [content EXCEPT ![v] = lines]

Cancel(v) ==
  LET w == [doc |-> v.doc, rev |-> v.rev + 1]
  IN  /\ v.rev < MaxRev
      /\ state[v] = "posted"
      /\ state[w] = "none"
      /\ state' = [state EXCEPT ![v] = "reversed", ![w] = "posted"]
      /\ content' = [content EXCEPT ![w] = Swapped(content[v])]

Next == \E v \in Voucher : Post(v) \/ Cancel(v)

Spec == Init /\ [][Next]_<<state, content>>

=============================================================================
