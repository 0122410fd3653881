------------------------------ MODULE MCTracks ------------------------------
(***************************************************************************)
(* Tracks on two names, two subscribers and two tracks: enough for two     *)
(* requests of one name, a replaced track, and a request pushed while the   *)
(* TracksRequest is being dropped.                                         *)
(***************************************************************************)
EXTENDS Tracks

=============================================================================
