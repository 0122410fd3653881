------------------------------- MODULE Tracks -------------------------------
(***************************************************************************)
(* A broadcast of moq-transport (serve/tracks.rs, serve/track.rs) with the *)
(* request queue it is built on (watch/queue.rs).                          *)
(*                                                                         *)
(* Subscribers hold TracksReader handles and ask for tracks by name.  A    *)
(* name nobody asked for yet becomes a request: the TrackWriter is queued  *)
(* for the publisher, the TrackReader is cached so that later subscribers  *)
(* share it.  The publisher pops requests from its TracksRequest, creates  *)
(* tracks through its TracksWriter, and either half may be dropped at any  *)
(* time, by another thread than the one that subscribes.                   *)
(*                                                                         *)
(* A step is one critical section.  Every method locks one State at a time *)
(* except subscribe, which pushes to the queue while it holds the tracks:  *)
(* nothing else locks both, so that step is atomic too.  What a future     *)
(* waits for is a guard here; that no wakeup is lost is WatchState's part. *)
(***************************************************************************)
EXTENDS Naturals, Sequences, Functions

CONSTANTS
  Names,      \* the names subscribers ask for
  Readers,    \* the clones of TracksReader
  MaxTracks   \* bound: how many tracks are ever produced

ASSUME TracksAssumption == Names # {} /\ MaxTracks \in Nat

Ids     == 1..MaxTracks       \* one per Track::produce, in order
NoTrack == 0
Errors  == {"NotFound", "Failed"}    \* Failed: whatever the publisher closes with

VARIABLES
  made,       \* number of tracks produced so far
  name,       \* Track.name of each
  mode,       \* TrackState.mode is set
  closed,     \* TrackState.closed: "ok" or the error
  lookup,     \* TracksState.tracks
  queue,      \* the VecDeque of the request queue
  broken,     \* which shared states have `dropped == None`
  request,    \* where the TracksRequest handle is in its life and its Drop
  drained,    \* the Vec that Queue::close returned
  held,       \* TrackWriters the publishing side owns
  writer,     \* a TracksWriter handle exists
  readers,    \* the TracksReader handles that exist
  want,       \* the track whose mode() each subscriber awaits
  evicted,    \* history: tracks TracksWriter replaced or removed
  late,       \* history: requests pushed after the queue was drained
  taken       \* history: TrackWriters the publishing side has ever owned

vars == <<made, name, mode, closed, lookup, queue, broken, request, drained,
          held, writer, readers, want, evicted, late, taken>>

Init ==
  /\ made = 0
  /\ name = [t \in Ids |-> CHOOSE n \in Names : TRUE]
  /\ mode = [t \in Ids |-> FALSE]
  /\ closed = [t \in Ids |-> "ok"]
  /\ lookup = [n \in Names |-> NoTrack]
  /\ queue = <<>>
  /\ broken = {}
  /\ request = "live"
  /\ drained = {}
  /\ held = {}
  /\ writer = TRUE
  /\ readers = Readers
  /\ want = [r \in Readers |-> NoTrack]
  /\ evicted = {}
  /\ late = {}
  /\ taken = {}

(***************************************************************************)
(* The two halves of a track: a State is dropped once all the handles of   *)
(* one of its sides are.                                                   *)
(***************************************************************************)
Queued == Range(queue)

\* A TrackWriter exists somewhere; groups(), close() and the like consume it.
Writable(t) == t \in Queued \cup drained \cup held

\* A TrackReader exists: a subscriber's, or the cached one while the tracks live.
Readable(t) ==
  \/ \E r \in Readers : want[r] = t
  \/ lookup[name[t]] = t /\ (readers # {} \/ writer \/ request # "gone")

Produce(n) ==
  /\ made < MaxTracks
  /\ made' = made + 1
  /\ name' = [name EXCEPT ![made + 1] = n]

(***************************************************************************)
(* The subscribers.                                                        *)
(***************************************************************************)
\* A track the broadcast has, pending or closed as it may be.
SubscribeCached(r, n) ==
  /\ lookup[n] # NoTrack
  /\ want' = [want EXCEPT ![r] = lookup[n]]
  /\ UNCHANGED <<made, name, lookup, queue, late>>

\* Mutant: not inserted into the map.
MSubscribeRequest(r, n) ==
  /\ lookup[n] = NoTrack
  /\ broken = {}
  /\ Produce(n)
  /\ queue' = Append(queue, made + 1)
  /\ want' = [want EXCEPT ![r] = made + 1]
  /\ late' = IF request = "drained" THEN late \cup {made + 1} ELSE late
  /\ UNCHANGED lookup

\* A new request.  With either state broken nobody is left to serve the name, and
\* subscribe returns None with nothing changed.
SubscribeRequest(r, n) ==
  /\ lookup[n] = NoTrack
  /\ broken = {}
  /\ Produce(n)
  /\ queue' = Append(queue, made + 1)
  /\ lookup' = [lookup EXCEPT ![n] = made + 1]
  /\ want' = [want EXCEPT ![r] = made + 1]
  /\ late' = IF request = "drained" THEN late \cup {made + 1} ELSE late

Subscribe(r, n) ==
  /\ r \in readers
  /\ want[r] = NoTrack
  /\ SubscribeCached(r, n) \/ SubscribeRequest(r, n)
  /\ UNCHANGED <<mode, closed, broken, request, drained, held, writer, readers,
                 evicted, taken>>

\* TrackReader::mode returns the mode, else the error, else Done for a track whose
\* writer is gone; until then it waits.
Decided(t) == mode[t] \/ closed[t] # "ok" \/ ~Writable(t)

Mode(r) ==
  /\ want[r] # NoTrack
  /\ Decided(want[r])
  /\ want' = [want EXCEPT ![r] = NoTrack]
  /\ UNCHANGED <<made, name, mode, closed, lookup, queue, broken, request, drained,
                 held, writer, readers, evicted, late, taken>>

\* The subscriber drops the future, and the TrackReader with it.
Abandon(r) ==
  /\ want[r] # NoTrack
  /\ want' = [want EXCEPT ![r] = NoTrack]
  /\ UNCHANGED <<made, name, mode, closed, lookup, queue, broken, request, drained,
                 held, writer, readers, evicted, late, taken>>

\* The last TracksReader breaks both states; the VecDeque goes with the last
\* handle of its two sides, and the TrackWriters in it are dropped.
DropReader(r) ==
  /\ r \in readers
  /\ readers' = readers \ {r}
  /\ broken' = IF readers' = {} THEN {"tracks", "queue"} ELSE broken
  /\ queue' = IF readers' = {} /\ request \in {"closing", "gone"} THEN <<>> ELSE queue
  /\ UNCHANGED <<made, name, mode, closed, lookup, request, drained, held, writer,
                 want, evicted, late, taken>>

(***************************************************************************)
(* The publisher.                                                          *)
(***************************************************************************)
\* TracksRequest::next.  A queue the readers broke answers None, not its entries.
NextRequest ==
  /\ request = "live"
  /\ queue # <<>>
  /\ "queue" \notin broken
  /\ held' = held \cup {Head(queue)}
  /\ taken' = taken \cup {Head(queue)}
  /\ queue' = Tail(queue)
  /\ UNCHANGED <<made, name, mode, closed, lookup, broken, request, drained, writer,
                 readers, want, evicted, late>>

\* stream, groups, objects or datagrams; Err(Cancel) when no reader is left.
SetMode(t) ==
  /\ t \in held
  /\ mode' = IF Readable(t) THEN [mode EXCEPT ![t] = TRUE] ELSE mode
  /\ held' = held \ {t}
  /\ UNCHANGED <<made, name, closed, lookup, queue, broken, request, drained, writer,
                 readers, want, evicted, late, taken>>

CloseTrack(t) ==
  /\ t \in held
  /\ closed' = IF Readable(t) THEN [closed EXCEPT ![t] = "Failed"] ELSE closed
  /\ held' = held \ {t}
  /\ UNCHANGED <<made, name, mode, lookup, queue, broken, request, drained, writer,
                 readers, want, evicted, late, taken>>

DropTrack(t) ==
  /\ t \in held
  /\ held' = held \ {t}
  /\ UNCHANGED <<made, name, mode, closed, lookup, queue, broken, request, drained,
                 writer, readers, want, evicted, late, taken>>

\* TracksWriter::create overwrites what was there.
Create(n) ==
  /\ writer
  /\ "tracks" \notin broken
  /\ Produce(n)
  /\ lookup' = [lookup EXCEPT ![n] = made + 1]
  /\ evicted' = evicted \cup ({lookup[n]} \ {NoTrack})
  /\ held' = held \cup {made + 1}
  /\ taken' = taken \cup {made + 1}
  /\ UNCHANGED <<mode, closed, queue, broken, request, drained, writer, readers,
                 want, late>>

Remove(n) ==
  /\ writer
  /\ "tracks" \notin broken
  /\ lookup[n] # NoTrack
  /\ lookup' = [lookup EXCEPT ![n] = NoTrack]
  /\ evicted' = evicted \cup {lookup[n]}
  /\ UNCHANGED <<made, name, mode, closed, queue, broken, request, drained, held,
                 writer, readers, want, late, taken>>

DropWriter ==
  /\ writer
  /\ writer' = FALSE
  /\ broken' = IF request = "gone" THEN broken \cup {"tracks"} ELSE broken
  /\ UNCHANGED <<made, name, mode, closed, lookup, queue, request, drained, held,
                 readers, want, evicted, late, taken>>

(***************************************************************************)
(* Drop of TracksRequest: Queue::close drains under the lock and lets its  *)
(* handle go only afterwards; then each drained track is closed; the       *)
(* tracks' State is a field, dropped after the body of drop.               *)
(***************************************************************************)
\* Mutant, without the drain: the handle goes, the entries stay.
MDropRequest ==
  /\ request = "live"
  /\ request' = "drained"
  /\ UNCHANGED <<made, name, mode, closed, lookup, queue, broken, drained, held,
                 writer, readers, want, evicted, late, taken>>

DropRequest ==
  /\ request = "live"
  /\ request' = "drained"
  /\ drained' = IF "queue" \in broken THEN {} ELSE Queued
  /\ queue' = IF "queue" \in broken THEN queue ELSE <<>>
  /\ UNCHANGED <<made, name, mode, closed, lookup, broken, held, writer, readers,
                 want, evicted, late, taken>>

DropQueue ==
  /\ request = "drained"
  /\ request' = "closing"
  /\ broken' = broken \cup {"queue"}
  /\ queue' = IF readers = {} THEN <<>> ELSE queue
  /\ UNCHANGED <<made, name, mode, closed, lookup, drained, held, writer, readers,
                 want, evicted, late, taken>>

\* Mutant, without the close: the Vec and its TrackWriters are just dropped.
MCloseDrained(t) ==
  /\ request = "closing"
  /\ t \in drained
  /\ drained' = drained \ {t}
  /\ UNCHANGED <<made, name, mode, closed, lookup, queue, broken, request, held,
                 writer, readers, want, evicted, late, taken>>

CloseDrained(t) ==
  /\ request = "closing"
  /\ t \in drained
  /\ closed' = IF Readable(t) THEN [closed EXCEPT ![t] = "NotFound"] ELSE closed
  /\ drained' = drained \ {t}
  /\ UNCHANGED <<made, name, mode, lookup, queue, broken, request, held, writer,
                 readers, want, evicted, late, taken>>

DropTracksState ==
  /\ request = "closing"
  /\ drained = {}
  /\ request' = "gone"
  /\ broken' = IF writer THEN broken ELSE broken \cup {"tracks"}
  /\ UNCHANGED <<made, name, mode, closed, lookup, queue, drained, held, writer,
                 readers, want, evicted, late, taken>>

-----------------------------------------------------------------------------
Subscriber(r) ==
  \/ \E n \in Names : Subscribe(r, n)
  \/ Mode(r)
  \/ Abandon(r)
  \/ DropReader(r)

Settle(t) == SetMode(t) \/ CloseTrack(t) \/ DropTrack(t)

Teardown == DropQueue \/ (\E t \in Ids : CloseDrained(t)) \/ DropTracksState

Publisher ==
  \/ NextRequest
  \/ \E t \in Ids : Settle(t)
  \/ \E n \in Names : Create(n) \/ Remove(n)
  \/ DropWriter
  \/ DropRequest
  \/ Teardown

Next == Publisher \/ \E r \in Readers : Subscriber(r)

(***************************************************************************)
(* The runtime polls a woken future; the owner of a TracksRequest keeps    *)
(* calling next until it drops it, after which Rust runs the whole drop;   *)
(* and whoever owns a TrackWriter sets a mode, closes it or drops it.      *)
(***************************************************************************)
Fairness ==
  /\ \A r \in Readers : WF_vars(Mode(r))
  /\ WF_vars(NextRequest \/ DropRequest)
  /\ WF_vars(Teardown)
  /\ \A t \in Ids : WF_vars(Settle(t))

Spec == Init /\ [][Next]_vars
FairSpec == Spec /\ Fairness

-----------------------------------------------------------------------------
TypeOK ==
  /\ made \in 0..MaxTracks
  /\ name \in [Ids -> Names]
  /\ mode \in [Ids -> BOOLEAN]
  /\ closed \in [Ids -> {"ok"} \cup Errors]
  /\ lookup \in [Names -> {NoTrack} \cup 1..made]
  /\ queue \in Seq(1..made)
  /\ broken \in SUBSET {"tracks", "queue"}
  /\ request \in {"live", "drained", "closing", "gone"}
  /\ drained \in SUBSET (1..made)
  /\ held \in SUBSET (1..made)
  /\ writer \in BOOLEAN
  /\ readers \in SUBSET Readers
  /\ want \in [Readers -> {NoTrack} \cup 1..made]
  /\ evicted \in SUBSET (1..made)
  /\ late \in SUBSET (1..made)
  /\ taken \in SUBSET (1..made)

(***************************************************************************)
(* "We requested the track sucessfully so we can deduplicate it": as long  *)
(* as the writer half does not interfere, no two outstanding TrackWriters  *)
(* carry the same name, whoever holds them.                                *)
(***************************************************************************)
Deduplicated ==
  \A t, u \in (Queued \cup drained \cup held) \ evicted : name[t] = name[u] => t = u

(***************************************************************************)
(* Dropping the TracksRequest answers NotFound: a track that was still in  *)
(* the queue never ends silently (Done, to a reader of mode()) under       *)
(* anyone who could still read it.  Only the side that took the TrackWriter *)
(* may do that, or the readers by leaving the broadcast themselves.        *)
(***************************************************************************)
Silent(t) == ~mode[t] /\ closed[t] = "ok" /\ ~Writable(t)

NotFoundUnlessTaken ==
  \A t \in 1..made : Silent(t) /\ Readable(t) => t \in taken \/ readers = {}

(***************************************************************************)
(* A subscriber that waits is answered: with the mode the publisher chose, *)
(* its error, NotFound or Done.  The exception is a request pushed between *)
(* the drain and the drop of the queue in Queue::close.                    *)
(***************************************************************************)
Answered ==
  \A r \in Readers : \A t \in Ids : want[r] = t ~> want[r] # t \/ t \in late

\* What the comment on Queue::close promises, without the exception: the
\* queue takes no new entry once it is closed, so every waiter is answered.
AlwaysAnswered ==
  \A r \in Readers : \A t \in Ids : want[r] = t ~> want[r] # t
=============================================================================
