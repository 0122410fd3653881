----------------------------- MODULE LatestValue -----------------------------
(***************************************************************************)
(* What a track in group mode promises its readers: a cell that holds only *)
(* the latest value written.  A reader is given the latest value once,     *)
(* whatever it missed, never an older one, and learns of the end only      *)
(* after it.  serve/datagram.rs is this cell as it stands; the groups of   *)
(* serve/group.rs and of serve/stream.rs are shown to implement it.        *)
(* Values are numbered in the order in which they are written.             *)
(***************************************************************************)
EXTENDS Naturals

CONSTANT Readers

VARIABLES
  value,    \* the latest value written, 0 for none
  given,    \* the value each reader was given last
  closed,   \* the writer is gone
  ended     \* the readers that were told so

vars == <<value, given, closed, ended>>

Init ==
  /\ value = 0
  /\ given = [r \in Readers |-> 0]
  /\ closed = FALSE
  /\ ended = {}

Write ==
  /\ ~closed
  /\ value' \in Nat /\ value' > value
  /\ UNCHANGED <<given, closed, ended>>

Close ==
  /\ ~closed
  /\ closed' = TRUE
  /\ UNCHANGED <<value, given, ended>>

Read(r) ==
  /\ r \notin ended
  /\ given[r] # value
  /\ given' = [given EXCEPT ![r] = value]
  /\ UNCHANGED <<value, closed, ended>>

End(r) ==
  /\ closed
  /\ r \notin ended
  /\ given[r] = value
  /\ ended' = ended \cup {r}
  /\ UNCHANGED <<value, given, closed>>

Next == Write \/ Close \/ \E r \in Readers : Read(r) \/ End(r)

Spec == Init /\ [][Next]_vars
=============================================================================
