---------------------------- MODULE MCWatchQueue ----------------------------
(***************************************************************************)
(* WatchQueue with two producers, two consumers and three entries of two   *)
(* values: enough for a wakeup meant for one consumer to be spent by the   *)
(* other, and for either side to be the one that closes the queue.         *)
(***************************************************************************)
EXTENDS WatchQueue
=============================================================================
