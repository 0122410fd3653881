----------------------------- MODULE ServeStream -----------------------------
(***************************************************************************)
(* A track in stream mode (serve/stream.rs): one stream of objects, cut    *)
(* into groups, of which the latest is cached.  Unlike in group mode the   *)
(* writer can be cloned: the subscriber of a session keeps one clone and   *)
(* gives another to every track stream it receives.                        *)
(***************************************************************************)
EXTENDS Integers, Sequences, ServedObject

CONSTANTS
  Clones,       \* the clones of StreamWriter
  Readers,      \* the clones of StreamReader
  MaxGroups,    \* bound: groups ever created
  MaxId,        \* bound: the group ids create is called with are 0..MaxId
  MaxObjects    \* bound: objects created per group

ASSUME ServeStreamAssumption ==
  /\ Clones # {}      \* produce returns a writer
  /\ MaxGroups \in Nat /\ MaxId \in Nat /\ MaxObjects \in Nat /\ Sizes \subseteq Nat

None == 0
Idle == -1

VARIABLES
  ids,          \* the id of each StreamGroup, in the order of creation
  latest,       \* StreamState.latest, an index of ids
  epoch,        \* StreamState.epoch
  closed,       \* StreamState.closed is Err
  writers,      \* the StreamWriters that exist
  next,         \* the id each of them computed in append, before create
  group,        \* each StreamGroupWriter: open, or gone with or without an error
  objects,      \* StreamGroupState.objects, with the state of each object
  readers,      \* the StreamReaders still in use
  seen,         \* StreamReader.epoch
  cur,          \* the group each StreamReader returned last
  ended,        \* how the track ended for each of them
  following,    \* the StreamGroupReaders each of them still reads from
  pos           \* StreamGroupReader.index

stream == <<ids, latest, epoch, closed>>
content == <<group, objects>>
reads == <<readers, seen, cur, ended, following, pos>>
vars == <<stream, writers, next, content, reads>>

Groups == 1..MaxGroups
Status == {"none", "open", "done", "failed"}

Init ==
  /\ ids = <<>>
  /\ latest = None
  /\ epoch = 0
  /\ closed = FALSE
  /\ writers = Clones
  /\ next = [w \in Clones |-> Idle]
  /\ group = [g \in Groups |-> "none"]
  /\ objects = [g \in Groups |-> <<>>]
  /\ readers = Readers
  /\ seen = [r \in Readers |-> 0]
  /\ cur = [r \in Readers |-> None]
  /\ ended = [r \in Readers |-> "open"]
  /\ following = [r \in Readers |-> {}]
  /\ pos = [r \in Readers |-> [g \in Groups |-> 0]]

(***************************************************************************)
(* StreamWriter.  With no StreamReader left every call fails with Cancel.  *)
(***************************************************************************)
LatestId == ids[latest]

\* Mutant: older ids are accepted too.
MAccepts(n) == TRUE

\* create refuses an id older than the latest as a Duplicate; the latest id itself
\* is accepted, and its group replaced.
Accepts(n) == latest # None => LatestId <= n

\* Mutant: the epoch is not advanced when a group is replaced.
MNewGroup(n) ==
  /\ Accepts(n)
  /\ readers # {}
  /\ Len(ids) < MaxGroups
  /\ ids' = Append(ids, n)
  /\ latest' = Len(ids) + 1
  /\ epoch' = IF latest # None /\ n = LatestId THEN epoch ELSE epoch + 1
  /\ group' = [group EXCEPT ![Len(ids) + 1] = "open"]

NewGroup(n) ==
  /\ Accepts(n)
  /\ readers # {}
  /\ Len(ids) < MaxGroups
  /\ ids' = Append(ids, n)
  /\ latest' = Len(ids) + 1
  /\ epoch' = epoch + 1
  /\ group' = [group EXCEPT ![Len(ids) + 1] = "open"]

Create(w, n) ==
  /\ w \in writers /\ next[w] = Idle
  /\ NewGroup(n)
  /\ UNCHANGED <<closed, writers, next, objects, reads>>

\* append reads the latest id under one lock and calls create under another.
LookAppend(w) ==
  /\ w \in writers /\ next[w] = Idle
  /\ Len(ids) < MaxGroups
  /\ next' = [next EXCEPT ![w] = IF latest = None THEN 0 ELSE LatestId + 1]
  /\ UNCHANGED <<stream, writers, content, reads>>

EndAppend(w) ==
  /\ next[w] # Idle
  /\ next' = [next EXCEPT ![w] = Idle]
  /\ \/ NewGroup(next[w]) /\ UNCHANGED closed
     \/ ~(Accepts(next[w]) /\ readers # {}) /\ UNCHANGED <<stream, group>>
  /\ UNCHANGED <<writers, objects, reads>>

\* close(err) or drop of one clone.  The others go on: create does not look at closed.
DropClone(w, err) ==
  /\ w \in writers /\ next[w] = Idle
  /\ writers' = writers \ {w}
  /\ closed' = (closed \/ (err /\ readers # {}))
  /\ UNCHANGED <<ids, latest, epoch, next, content, reads>>

(***************************************************************************)
(* StreamGroupWriter and StreamObjectWriter.                               *)
(***************************************************************************)
Readable(g) ==
  \/ latest = g /\ writers \cup readers # {}
  \/ \E r \in Readers : g \in following[r]

\* The counter of object ids is never advanced: every object has id 0.
CreateObject(g, size) ==
  /\ group[g] = "open"
  /\ Readable(g)
  /\ Len(objects[g]) < MaxObjects
  /\ objects' = [objects EXCEPT ![g] = Append(@, NewObject(0, size))]
  /\ UNCHANGED <<stream, writers, next, group, reads>>

EndGroup(g, err) ==
  /\ group[g] = "open"
  /\ group' = [group EXCEPT ![g] = IF err THEN "failed" ELSE "done"]
  /\ UNCHANGED <<stream, writers, next, objects, reads>>

WriteChunk(g, i) ==
  /\ Readable(g)
  /\ CanWrite(objects[g][i])
  /\ objects' = [objects EXCEPT ![g][i] = Written(@)]
  /\ UNCHANGED <<stream, writers, next, group, reads>>

EndObject(g, i, err) ==
  /\ Readable(g)
  /\ objects[g][i].status = "open"
  /\ objects' = [objects EXCEPT ![g][i] = Ended(@, err)]
  /\ UNCHANGED <<stream, writers, next, group, reads>>

(***************************************************************************)
(* StreamReader::next.                                                     *)
(***************************************************************************)
\* Mutant: a reader that missed groups is given the one after the last it had.
MNextOf(r) == cur[r] + 1
NextOf(r) == latest

NextGroup(r) ==
  /\ r \in readers
  /\ seen[r] # epoch
  /\ seen' = [seen EXCEPT ![r] = epoch]
  /\ cur' = [cur EXCEPT ![r] = NextOf(r)]
  /\ following' = [following EXCEPT ![r] = @ \cup {NextOf(r)}]
  /\ pos' = [pos EXCEPT ![r][NextOf(r)] = 0]
  /\ UNCHANGED <<stream, writers, next, content, readers, ended>>

\* Mutant: the readers wait for an explicit error.
MStreamOver == closed

\* An explicit error, or the end once every clone is gone.
StreamOver == closed \/ writers = {}

StreamEnds(r) ==
  /\ r \in readers
  /\ seen[r] = epoch
  /\ StreamOver
  /\ readers' = readers \ {r}
  /\ ended' = [ended EXCEPT ![r] = IF closed THEN "failed" ELSE "done"]
  /\ UNCHANGED <<stream, writers, next, content, seen, cur, following, pos>>

\* The reader is dropped.
Leave(r) ==
  /\ r \in readers
  /\ readers' = readers \ {r}
  /\ UNCHANGED <<stream, writers, next, content, seen, cur, ended, following, pos>>

(***************************************************************************)
(* StreamGroupReader::next, with each object read to its end before the    *)
(* next.                                                                   *)
(***************************************************************************)
Stop(r, g) == following' = [following EXCEPT ![r] = @ \ {g}]

ReadObject(r, g) ==
  /\ g \in following[r]
  /\ pos[r][g] < Len(objects[g])
  /\ LET o == objects[g][pos[r][g] + 1] IN
     \/ /\ o.status = "done"
        /\ pos' = [pos EXCEPT ![r][g] = @ + 1]
        /\ UNCHANGED following
     \/ /\ o.status = "failed"
        /\ Stop(r, g)
        /\ UNCHANGED pos
  /\ UNCHANGED <<stream, writers, next, content, readers, seen, cur, ended>>

GroupEnds(r, g) ==
  /\ g \in following[r]
  /\ pos[r][g] = Len(objects[g])
  /\ group[g] # "open"
  /\ Stop(r, g)
  /\ UNCHANGED <<stream, writers, next, content, readers, seen, cur, ended, pos>>

-----------------------------------------------------------------------------
GroupStep(g) ==
  \/ \E size \in Sizes : CreateObject(g, size)
  \/ \E err \in BOOLEAN : EndGroup(g, err)
  \/ \E i \in DOMAIN objects[g] :
       WriteChunk(g, i) \/ \E err \in BOOLEAN : EndObject(g, i, err)

Writer ==
  \/ \E w \in Clones :
       \/ \E n \in 0..MaxId : Create(w, n)
       \/ LookAppend(w) \/ EndAppend(w)
       \/ \E err \in BOOLEAN : DropClone(w, err)
  \/ \E g \in Groups : GroupStep(g)

Read(r, g) == ReadObject(r, g) \/ GroupEnds(r, g)

Reader(r) == NextGroup(r) \/ StreamEnds(r) \/ Leave(r) \/ \E g \in Groups : Read(r, g)

Next == Writer \/ \E r \in Readers : Reader(r)

\* Readers are polled when woken; writers promise nothing.
Fairness ==
  \A r \in Readers :
    /\ WF_vars(NextGroup(r) \/ StreamEnds(r))
    /\ \A g \in Groups : WF_vars(Read(r, g))

Spec == Init /\ [][Next]_vars
FairSpec == Spec /\ Fairness

-----------------------------------------------------------------------------
TypeOK ==
  /\ ids \in Seq(Nat) /\ Len(ids) <= MaxGroups
  /\ latest = Len(ids)
  /\ epoch = Len(ids)
  /\ closed \in BOOLEAN
  /\ writers \subseteq Clones
  /\ next \in [Clones -> Nat \cup {Idle}]
  /\ group \in [Groups -> Status]
  /\ objects \in [Groups -> Seq(Object)]
  /\ readers \subseteq Readers
  /\ seen \in [Readers -> 0..epoch]
  /\ cur \in [Readers -> 0..latest]
  /\ ended \in [Readers -> Status]
  /\ following \in [Readers -> SUBSET Groups]
  /\ pos \in [Readers -> [Groups -> Nat]]

(***************************************************************************)
(* Whatever the clones do at the same time, a reader is never given a      *)
(* group older than one it already had.                                    *)
(***************************************************************************)
NeverOlder ==
  [][\A r \in Readers :
       cur'[r] # cur[r] /\ cur[r] # None => ids'[cur'[r]] >= ids[cur[r]]]_vars

(***************************************************************************)
(* A reader told that the track ended cleanly was given the last group,    *)
(* and no clone adds one afterwards.                                       *)
(***************************************************************************)
EndIsLast == \A r \in Readers : ended[r] = "done" => cur[r] = latest

(***************************************************************************)
(* To its readers the track is a cell with the latest group, as in group   *)
(* mode; but a clone that closed with an error neither ends the cell nor   *)
(* stops the others, and the readers it ended are only failed.             *)
(***************************************************************************)
Cell == INSTANCE LatestValue WITH
  value <- latest, given <- cur, closed <- writers = {},
  ended <- {r \in Readers : ended[r] = "done"}
ImplementsLatestValue == Cell!Spec

(***************************************************************************)
(* A reader gets to the end of the track once every clone of the writer is *)
(* gone, and to the end of each group once its writers are.                *)
(***************************************************************************)
Over(g) == group[g] # "open" /\ \A i \in DOMAIN objects[g] : objects[g][i].status # "open"

ReachesEnd ==
  \A r \in Readers :
    /\ writers = {} ~> r \notin readers
    /\ \A g \in Groups : g \in following[r] /\ Over(g) ~> g \notin following[r]
=============================================================================
