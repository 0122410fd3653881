----------------------------- MODULE ServeObjects -----------------------------
(***************************************************************************)
(* A track in object mode (serve/object.rs): a cache of the objects of the *)
(* newest group, in the order in which they were created, which need not   *)
(* be that of their ids.  Each reader moves the objects it has not seen    *)
(* into a heap of its own and takes the most urgent one from there.        *)
(***************************************************************************)
EXTENDS Integers, Sequences

CONSTANTS
  Readers,      \* the clones of ObjectsReader
  Infos,        \* bound: the objects created, as records [group, object, priority]
  MaxObjects    \* bound: objects ever created

ASSUME ServeObjectsAssumption ==
  /\ MaxObjects \in Nat
  /\ \A o \in Infos : o.group \in Nat /\ o.object \in Nat /\ o.priority \in Nat

Ids == 1..MaxObjects          \* objects in the order they were created

VARIABLES
  info,         \* ObjectInfo of each object created
  objects,      \* ObjectsState.objects
  epoch,        \* ObjectsState.epoch
  writer,       \* the ObjectsWriter: open, or gone with or without an error
  status,       \* each ObjectWriter, likewise
  readers,      \* the ObjectsReaders still in use
  seen,         \* ObjectsReader.epoch
  pending,      \* ObjectsReader.pending
  given,        \* the objects each reader was given
  ended,        \* how the track ended for each of them
  reading       \* the ObjectReaders each of them still reads from

cache == <<info, objects, epoch, writer, status>>
reads == <<readers, seen, pending, given, ended, reading>>
vars == <<cache, reads>>

Cached == {objects[i] : i \in DOMAIN objects}

Init ==
  /\ info = <<>>
  /\ objects = <<>>
  /\ epoch = 0
  /\ writer = "open"
  /\ status = [o \in Ids |-> "none"]
  /\ readers = Readers
  /\ seen = [r \in Readers |-> 0]
  /\ pending = [r \in Readers |-> {}]
  /\ given = [r \in Readers |-> {}]
  /\ ended = [r \in Readers |-> "open"]
  /\ reading = [r \in Readers |-> {}]

(***************************************************************************)
(* ObjectsWriter.                                                          *)
(***************************************************************************)
Outcome(err) == IF err THEN "failed" ELSE "done"

\* Mutant: the cache is never cleared.
MKept(g) == objects

\* The objects create keeps for an object of group g: a newer group clears the cache.
Kept(g) == IF objects # <<>> /\ g > info[objects[1]].group THEN <<>> ELSE objects

\* An object of an older group gets a writer nobody listens to.
Stale(g) == objects # <<>> /\ g < info[objects[1]].group

Create(o) ==
  /\ writer = "open" /\ readers # {}
  /\ Len(info) < MaxObjects
  /\ info' = Append(info, o)
  /\ status' = [status EXCEPT ![Len(info) + 1] = "open"]
  /\ \/ /\ ~Stale(o.group)
        /\ objects' = Append(Kept(o.group), Len(info) + 1)
        /\ epoch' = epoch + 1
     \/ /\ Stale(o.group)
        /\ UNCHANGED <<objects, epoch>>
  /\ UNCHANGED <<writer, reads>>

\* close(err) and drop both consume the writer.
EndTrack(err) ==
  /\ writer = "open"
  /\ writer' = Outcome(err)
  /\ UNCHANGED <<info, objects, epoch, status, reads>>

\* An ObjectWriter promises no size: dropping it is always a clean end.
EndObject(i, err) ==
  /\ status[i] = "open"
  /\ status' = [status EXCEPT ![i] = Outcome(err)]
  /\ UNCHANGED <<info, objects, epoch, writer, reads>>

(***************************************************************************)
(* ObjectsReader::next.                                                    *)
(***************************************************************************)
\* Mutant: an index that cannot be counted back is taken for nothing new.
MFresh(r) ==
  LET new == epoch - seen[r] IN
  IF new > Len(objects) THEN {} ELSE {objects[i] : i \in (Len(objects) - new + 1)..Len(objects)}

\* Mutant: the objects of the group are always pushed again.
MAllFresh(r) == IF seen[r] < epoch THEN Cached ELSE {}

\* What was pushed since this reader looked last: as many objects as the epoch moved,
\* or all of them if the cache was cleared in between.
Fresh(r) ==
  LET new == epoch - seen[r]
      first == IF new > Len(objects) THEN 0 ELSE Len(objects) - new
  IN {objects[i] : i \in (first + 1)..Len(objects)}

Pool(r) == pending[r] \cup Fresh(r)

\* Ord for ObjectReader: priority ascending, group descending, object ascending.
Before(i, j) ==
  LET a == info[i]  b == info[j] IN
  \/ a.priority < b.priority
  \/ a.priority = b.priority /\ a.group > b.group
  \/ a.priority = b.priority /\ a.group = b.group /\ a.object < b.object

NextObject(r) ==
  /\ r \in readers
  /\ \E i \in Pool(r) :
       /\ \A j \in Pool(r) : ~Before(j, i)
       /\ pending' = [pending EXCEPT ![r] = Pool(r) \ {i}]
       /\ given' = [given EXCEPT ![r] = @ \cup {i}]
       /\ reading' = [reading EXCEPT ![r] = @ \cup {i}]
  /\ seen' = [seen EXCEPT ![r] = epoch]
  /\ UNCHANGED <<cache, readers, ended>>

\* Mutant: the end is taken as soon as there is nothing new, with objects in the heap.
MExhausted(r) == seen[r] = epoch
Exhausted(r) == Pool(r) = {}

TrackEnds(r) ==
  /\ r \in readers
  /\ Exhausted(r)
  /\ writer # "open"
  /\ readers' = readers \ {r}
  /\ ended' = [ended EXCEPT ![r] = writer]
  /\ UNCHANGED <<cache, seen, pending, given, reading>>

\* The reader is dropped, with its heap.
Leave(r) ==
  /\ r \in readers
  /\ readers' = readers \ {r}
  /\ pending' = [pending EXCEPT ![r] = {}]
  /\ UNCHANGED <<cache, seen, given, ended, reading>>

\* Mutant: only an error wakes the reader of an object.
MObjectEnds(r, i) ==
  /\ i \in reading[r]
  /\ status[i] = "failed"
  /\ reading' = [reading EXCEPT ![r] = @ \ {i}]
  /\ UNCHANGED <<cache, readers, seen, pending, given, ended>>

\* ObjectReader::read returns every chunk, then the error or the end.
ObjectEnds(r, i) ==
  /\ i \in reading[r]
  /\ status[i] # "open"
  /\ reading' = [reading EXCEPT ![r] = @ \ {i}]
  /\ UNCHANGED <<cache, readers, seen, pending, given, ended>>

-----------------------------------------------------------------------------
Next ==
  \/ \E o \in Infos : Create(o)
  \/ \E err \in BOOLEAN : EndTrack(err) \/ \E i \in Ids : EndObject(i, err)
  \/ \E r \in Readers :
       \/ NextObject(r) \/ TrackEnds(r) \/ Leave(r)
       \/ \E i \in Ids : ObjectEnds(r, i)

\* Readers are polled when woken; writers promise nothing.
Fairness ==
  \A r \in Readers :
    /\ WF_vars(NextObject(r) \/ TrackEnds(r))
    /\ \A i \in Ids : WF_vars(ObjectEnds(r, i))

Spec == Init /\ [][Next]_vars
FairSpec == Spec /\ Fairness

-----------------------------------------------------------------------------
Status == {"none", "open", "done", "failed"}

TypeOK ==
  /\ info \in Seq(Infos)
  /\ objects \in Seq(DOMAIN info)
  /\ \A i, j \in Cached : info[i].group = info[j].group
  /\ epoch \in 0..Len(info)
  /\ writer \in Status
  /\ status \in [Ids -> Status]
  /\ readers \subseteq Readers
  /\ seen \in [Readers -> 0..epoch]
  /\ pending \in [Readers -> SUBSET DOMAIN info]
  /\ given \in [Readers -> SUBSET DOMAIN info]
  /\ ended \in [Readers -> Status]
  /\ reading \in [Readers -> SUBSET DOMAIN info]

(***************************************************************************)
(* No object is given to a reader twice, however the cache was cleared and *)
(* refilled between two looks.                                             *)
(***************************************************************************)
GivenOnce == \A r \in readers : Pool(r) \cap given[r] = {}

(***************************************************************************)
(* A reader loses objects only to a newer group: whatever is in the cache  *)
(* is in its heap, about to be put there, or was given to it.  In          *)
(* particular one told that the track ended has every object of the last   *)
(* group.                                                                  *)
(***************************************************************************)
NothingMissed ==
  /\ \A r \in readers : Cached \subseteq given[r] \cup Pool(r)
  /\ \A r \in Readers : ended[r] # "open" => Cached \subseteq given[r]

(***************************************************************************)
(* The cache is the whole newest group and nothing else: each object that  *)
(* no object of a newer group was created before or since, in whatever     *)
(* order the groups arrived.                                               *)
(***************************************************************************)
InNewestGroup(i) == \A j \in DOMAIN info : info[j].group <= info[i].group

CacheIsNewestGroup == Cached = {i \in DOMAIN info : InNewestGroup(i)}

(***************************************************************************)
(* An object left in the heap is given in the end, also after the writer   *)
(* closed the track, provided the more urgent ones stop arriving; and an   *)
(* object given is read to its end once its writer is gone.                *)
(***************************************************************************)
Delivered ==
  \A r \in Readers : \A i \in Ids :
    /\ i \in pending[r] ~> i \in given[r] \/ r \notin readers
    /\ i \in reading[r] /\ status[i] # "open" ~> i \notin reading[r]
=============================================================================
