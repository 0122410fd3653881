----------------------------- MODULE ServeGroups -----------------------------
(***************************************************************************)
(* A track in group mode (serve/group.rs): a cache of the latest group,    *)
(* which is a growing list of objects, each a growing list of chunks.      *)
(* Three nested shared states, each with one writer, which may be another  *)
(* task for every group and object, and any number of readers.             *)
(***************************************************************************)
EXTENDS Integers, Sequences, ServedObject

CONSTANTS
  Readers,      \* the clones of GroupsReader
  MaxGroups,    \* bound: groups ever created
  MaxId,        \* bound: the group ids create is called with are 0..MaxId
  MaxObjects    \* bound: objects created per group

ASSUME ServeGroupsAssumption ==
  MaxGroups \in Nat /\ MaxId \in Nat /\ MaxObjects \in Nat /\ Sizes \subseteq Nat

Groups == 1..MaxGroups        \* groups in the order they were created
None   == 0
Writers == {"none", "open", "done", "failed"}

VARIABLES
  made,         \* number of groups created
  id,           \* GroupInfo.group_id of each
  latest,       \* GroupsState.latest
  epoch,        \* GroupsState.epoch
  next,         \* GroupsWriter.next
  writer,       \* the GroupsWriter: open, or gone with or without an error
  group,        \* each GroupWriter, likewise
  objects,      \* GroupState.objects, with the state of each object
  nextObject,   \* GroupWriter.next
  readers,      \* the GroupsReaders still in use
  seen,         \* GroupsReader.epoch
  cur,          \* the group each GroupsReader returned last
  ended,        \* how the track ended for each of them
  following,    \* the GroupReaders each of them still reads from
  pos           \* GroupReader.index

track == <<made, id, latest, epoch, next, writer>>
content == <<group, objects, nextObject>>
reads == <<readers, seen, cur, ended, following, pos>>
vars == <<track, content, reads>>

Init ==
  /\ made = 0
  /\ id = [g \in Groups |-> 0]
  /\ latest = None
  /\ epoch = 0
  /\ next = 0
  /\ writer = "open"
  /\ group = [g \in Groups |-> "none"]
  /\ objects = [g \in Groups |-> <<>>]
  /\ nextObject = [g \in Groups |-> 0]
  /\ readers = Readers
  /\ seen = [r \in Readers |-> 0]
  /\ cur = [r \in Readers |-> None]
  /\ ended = [r \in Readers |-> "open"]
  /\ following = [r \in Readers |-> {}]
  /\ pos = [r \in Readers |-> [g \in Groups |-> 0]]

(***************************************************************************)
(* GroupsWriter.  With no GroupsReader left its state is dropped and every *)
(* call fails with Cancel.                                                 *)
(***************************************************************************)
\* A group older than the latest gets a writer nobody listens to; the same id is
\* refused as a Duplicate and changes nothing.
MNewer(n) == latest # None => n # id[latest]
Newer(n) == latest # None => n > id[latest]
Older(n) == latest # None /\ n < id[latest]

\* Mutant: the next id is not advanced past an id the caller chose.
MSetLatest(n) ==
  /\ latest' = made + 1
  /\ next' = next + 1
  /\ epoch' = epoch + 1

SetLatest(n) ==
  /\ latest' = made + 1
  /\ next' = n + 1
  /\ epoch' = epoch + 1

Create(n) ==
  /\ writer = "open" /\ readers # {}
  /\ made < MaxGroups
  /\ made' = made + 1
  /\ id' = [id EXCEPT ![made + 1] = n]
  /\ group' = [group EXCEPT ![made + 1] = "open"]
  /\ \/ Newer(n) /\ SetLatest(n)
     \/ Older(n) /\ UNCHANGED <<latest, next, epoch>>
  /\ UNCHANGED <<writer, objects, nextObject, reads>>

AppendGroup == next <= MaxId /\ Create(next)

Outcome(err) == IF err THEN "failed" ELSE "done"

\* close(err) and drop both consume the writer.
EndTrack(err) ==
  /\ writer = "open"
  /\ writer' = Outcome(err)
  /\ UNCHANGED <<made, id, latest, epoch, next, content, reads>>

(***************************************************************************)
(* GroupWriter.  Its state is dropped when the group is no longer the      *)
(* cached one and nobody reads it.                                         *)
(***************************************************************************)
Readable(g) ==
  \/ latest = g /\ (writer = "open" \/ readers # {})
  \/ \E r \in Readers : g \in following[r]

Pushed(g, size) ==
  IF Readable(g)
  THEN [objects EXCEPT ![g] = Append(@, NewObject(nextObject[g], size))]
  ELSE objects

\* Mutant: the id is not used up.
MCreateObject(g, size) ==
  /\ group[g] = "open"
  /\ Len(objects[g]) < MaxObjects
  /\ objects' = Pushed(g, size)
  /\ UNCHANGED <<track, group, nextObject, reads>>

\* The id is used up before the lock is taken, also when create fails with Cancel.
CreateObject(g, size) ==
  /\ group[g] = "open"
  /\ nextObject[g] < MaxObjects
  /\ nextObject' = [nextObject EXCEPT ![g] = @ + 1]
  /\ objects' = Pushed(g, size)
  /\ UNCHANGED <<track, group, reads>>

EndGroup(g, err) ==
  /\ group[g] = "open"
  /\ group' = [group EXCEPT ![g] = Outcome(err)]
  /\ UNCHANGED <<track, objects, nextObject, reads>>

\* What happens to an object nobody can reach is no step.
WriteChunk(g, i) ==
  /\ Readable(g)
  /\ CanWrite(objects[g][i])
  /\ objects' = [objects EXCEPT ![g][i] = Written(@)]
  /\ UNCHANGED <<track, group, nextObject, reads>>

EndObject(g, i, err) ==
  /\ Readable(g)
  /\ objects[g][i].status = "open"
  /\ objects' = [objects EXCEPT ![g][i] = Ended(@, err)]
  /\ UNCHANGED <<track, group, nextObject, reads>>

(***************************************************************************)
(* GroupsReader::next: skips to the latest group, however many it missed,  *)
(* and has a look at the end only when there is none.                      *)
(***************************************************************************)
Follow(r, g) ==
  /\ cur' = [cur EXCEPT ![r] = g]
  /\ following' = [following EXCEPT ![r] = @ \cup {g}]
  /\ pos' = [pos EXCEPT ![r][g] = 0]

NextGroup(r) ==
  /\ r \in readers
  /\ seen[r] # epoch
  /\ seen' = [seen EXCEPT ![r] = epoch]
  /\ Follow(r, latest)
  /\ UNCHANGED <<track, content, readers, ended>>

\* Mutant: the end is looked at first.
MTrackEnds(r) ==
  /\ r \in readers
  /\ writer # "open"
  /\ readers' = readers \ {r}
  /\ ended' = [ended EXCEPT ![r] = writer]
  /\ UNCHANGED <<track, content, seen, cur, following, pos>>

TrackEnds(r) ==
  /\ r \in readers
  /\ seen[r] = epoch
  /\ writer # "open"
  /\ readers' = readers \ {r}
  /\ ended' = [ended EXCEPT ![r] = writer]
  /\ UNCHANGED <<track, content, seen, cur, following, pos>>

\* The reader is dropped.
Leave(r) ==
  /\ r \in readers
  /\ readers' = readers \ {r}
  /\ UNCHANGED <<track, content, seen, cur, ended, following, pos>>

(***************************************************************************)
(* GroupReader::next, with the object read to its end before the next, as  *)
(* session/subscribed.rs does: an error ends the group.                    *)
(***************************************************************************)
Stop(r, g) == following' = [following EXCEPT ![r] = @ \ {g}]

NextObject(r, g) ==
  /\ g \in following[r]
  /\ pos[r][g] < Len(objects[g])
  /\ LET o == objects[g][pos[r][g] + 1] IN
     \/ /\ o.status = "done"
        /\ pos' = [pos EXCEPT ![r][g] = @ + 1]
        /\ UNCHANGED following
     \/ /\ o.status = "failed"
        /\ Stop(r, g)
        /\ UNCHANGED pos
  /\ UNCHANGED <<track, content, readers, seen, cur, ended>>

\* Mutant: the readers of a group closed with an error are not told.
MGroupEnds(r, g) ==
  /\ g \in following[r]
  /\ pos[r][g] = Len(objects[g])
  /\ group[g] = "done"
  /\ Stop(r, g)
  /\ UNCHANGED <<track, content, readers, seen, cur, ended, pos>>

\* The list is exhausted: the group's error, or a clean end.
GroupEnds(r, g) ==
  /\ g \in following[r]
  /\ pos[r][g] = Len(objects[g])
  /\ group[g] # "open"
  /\ Stop(r, g)
  /\ UNCHANGED <<track, content, readers, seen, cur, ended, pos>>

\* The reading task is dropped.
StopReading(r, g) ==
  /\ g \in following[r]
  /\ Stop(r, g)
  /\ UNCHANGED <<track, content, readers, seen, cur, ended, pos>>

-----------------------------------------------------------------------------
GroupStep(g) ==
  \/ \E size \in Sizes : CreateObject(g, size)
  \/ \E err \in BOOLEAN : EndGroup(g, err)
  \/ \E i \in DOMAIN objects[g] :
       WriteChunk(g, i) \/ \E err \in BOOLEAN : EndObject(g, i, err)

Writer ==
  \/ \E n \in 0..MaxId : Create(n)
  \/ AppendGroup
  \/ \E err \in BOOLEAN : EndTrack(err)
  \/ \E g \in Groups : GroupStep(g)

Read(r, g) == NextObject(r, g) \/ GroupEnds(r, g)

Reader(r) ==
  \/ NextGroup(r) \/ TrackEnds(r) \/ Leave(r)
  \/ \E g \in Groups : Read(r, g) \/ StopReading(r, g)

Next == Writer \/ \E r \in Readers : Reader(r)

\* Readers are polled when woken; writers promise nothing.
Fairness ==
  \A r \in Readers :
    /\ WF_vars(NextGroup(r) \/ TrackEnds(r))
    /\ \A g \in Groups : WF_vars(Read(r, g))

Spec == Init /\ [][Next]_vars
FairSpec == Spec /\ Fairness

-----------------------------------------------------------------------------
TypeOK ==
  /\ made \in 0..MaxGroups
  /\ id \in [Groups -> 0..MaxId]
  /\ latest \in 0..made
  /\ epoch \in Nat
  /\ next \in Nat
  /\ writer \in Writers \ {"none"}
  /\ group \in [Groups -> Writers]
  /\ objects \in [Groups -> Seq(Object)]
  /\ nextObject \in [Groups -> Nat]
  /\ readers \in SUBSET Readers
  /\ seen \in [Readers -> Nat]
  /\ cur \in [Readers -> 0..made]
  /\ ended \in [Readers -> Writers \ {"none"}]
  /\ following \in [Readers -> SUBSET (1..made)]
  /\ pos \in [Readers -> [Groups -> Nat]]

(***************************************************************************)
(* append never hands out an id that exists: it always makes the new       *)
(* latest group, also after create was called with ids of its own, and is  *)
(* never refused as a Duplicate or dropped as old.                         *)
(***************************************************************************)
AppendIsFresh == \A g \in 1..made : id[g] < next

(***************************************************************************)
(* Whoever follows a group sees the object ids 0, 1, 2...  An id used up   *)
(* by a create that failed must never show as a gap: no reader can come    *)
(* back to a group once it had none.                                       *)
(***************************************************************************)
ObjectIdsContiguous ==
  \A g \in Groups : \A i \in DOMAIN objects[g] : objects[g][i].id = i - 1

(***************************************************************************)
(* A truncated object never reads as complete: a reader that moves on to   *)
(* the next object, or to the end of the group, has every byte the headers *)
(* promised.                                                               *)
(***************************************************************************)
NoTruncation ==
  \A r \in Readers, g \in Groups : \A i \in 1..pos[r][g] : Complete(objects[g][i])

(***************************************************************************)
(* A reader never goes back: each group it is given is newer than the one  *)
(* before, whatever order the groups were created in.                      *)
(***************************************************************************)
NeverBack ==
  [][\A r \in Readers :
       cur'[r] # cur[r] /\ cur[r] # None => id[cur'[r]] > id[cur[r]]]_vars

(***************************************************************************)
(* To its readers the track is a cell with the latest group: no group is   *)
(* given twice, and the end of the track is given after the last group.    *)
(***************************************************************************)
Cell == INSTANCE LatestValue WITH
  value <- latest, given <- cur, closed <- writer # "open",
  ended <- {r \in Readers : ended[r] # "open"}
ImplementsLatestValue == Cell!Spec

(***************************************************************************)
(* A reader gets to the end of the track once its writer is gone, and to   *)
(* the end of each group it follows once the writers of the group are,     *)
(* however they went: none of them is left waiting.                        *)
(***************************************************************************)
Over(g) == group[g] # "open" /\ \A i \in DOMAIN objects[g] : objects[g][i].status # "open"

ReachesEnd ==
  \A r \in Readers :
    /\ writer # "open" ~> r \notin readers
    /\ \A g \in Groups : g \in following[r] /\ Over(g) ~> g \notin following[r]
=============================================================================
