----------------------------- MODULE ServedObject -----------------------------
(***************************************************************************)
(* An object of a group (GroupObject in serve/group.rs, StreamObject in    *)
(* serve/stream.rs): chunks up to a size promised when it is created.  A   *)
(* chunk is one unit long.  Once nobody can read an object it has no       *)
(* observable state, so the Cancel errors of its writer are not kept.      *)
(***************************************************************************)
EXTENDS Naturals

CONSTANT Sizes      \* bound: the sizes objects are created with

Object == [id : Nat, size : Sizes, got : Nat, status : {"open", "done", "failed"}]

NewObject(n, size) == [id |-> n, size |-> size, got |-> 0, status |-> "open"]

\* write refuses a chunk larger than what remains.
CanWrite(o) == o.status = "open" /\ o.got < o.size
Written(o) == [o EXCEPT !.got = @ + 1]

\* Mutant: dropping the writer of an incomplete object does not close it with Size.
MEnded(o, err) == [o EXCEPT !.status = IF err THEN "failed" ELSE "done"]

\* close(err), or the drop of the writer.  In a group close(err) of an incomplete
\* object is refused with Size, but consumes the writer; dropping the writer of an
\* incomplete object closes it with Size.
Ended(o, err) ==
  [o EXCEPT !.status = IF err \/ o.got # o.size THEN "failed" ELSE "done"]

Complete(o) == o.got = o.size
=============================================================================
