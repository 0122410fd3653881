---------------------------- MODULE ClosableQueue ----------------------------
(***************************************************************************)
(* What watch/queue.rs promises its callers: a FIFO that takes entries and *)
(* gives them out, each once and in order, until either half of it closes  *)
(* it; entries not given out by then are given out all at once (by close)  *)
(* or never.                                                               *)
(***************************************************************************)
EXTENDS Naturals, Sequences

CONSTANT Items

VARIABLES
  sent,      \* all entries accepted, oldest first
  taken,     \* how many of them were given out
  open

Init == sent = <<>> /\ taken = 0 /\ open = TRUE

Put(x) ==
  /\ open
  /\ sent' = Append(sent, x)
  /\ UNCHANGED <<taken, open>>

Take ==
  /\ open
  /\ taken < Len(sent)
  /\ taken' = taken + 1
  /\ UNCHANGED <<sent, open>>

TakeAll ==
  /\ open
  /\ taken' = Len(sent)
  /\ UNCHANGED <<sent, open>>

Close ==
  /\ open
  /\ open' = FALSE
  /\ UNCHANGED <<sent, taken>>

Next == (\E x \in Items : Put(x)) \/ Take \/ TakeAll \/ Close

Spec == Init /\ [][Next]_<<sent, taken, open>>
=============================================================================
