# A TLA+ specification of moq-shareplay

moq-shareplay streams video and keeps its viewers in step over Media over QUIC
(MoQ). Most of what can go wrong in it goes wrong in three places:
`repos/moq-rs/moq-transport`, the library every program of the repository is built
on, with shared caches that several tasks read and write at once, request queues, and
a session protocol whose two ends change their minds at the same time; the relay,
which routes between sessions and keeps itself registered at an API; and the
publisher that plays a recording while the leader of a room pauses and seeks it. This
directory holds TLA+ modules of these, the TLC runs that check them on small
instances, and TLAPS proofs of the properties that matter most.

Paths below are relative to `src/`; `mt/` stands for
`repos/moq-rs/moq-transport/src/`, `relay/`, `api/` and `pub/` for
`repos/moq-rs/moq-relay/src/`, `moq-api/src/` and `moq-pub/src/` beside it. PROJECT.json
maps every definition to the lines it models.

## 1. Inventory

| component | state | operations | hard because |
|---|---|---|---|
| `mt/watch` | a mutex around a value, an epoch, wakers, a dropped flag; two counted sides | lock, modified, poll, mutate, drop; push, pop, close of the queue | a task looks, unlocks and only then registers its waker; `close` drains and drops in two steps |
| `mt/serve/tracks.rs`, `track.rs` | the tracks of a broadcast by name, the request queue, the mode and error of each track | subscribe, next, create, remove, choose a mode, close, drop of any handle | subscribers and publisher run in different tasks, and either may leave at any point |
| `mt/serve/group.rs` | the latest group, its objects and their chunks | append, create, write, close, drop; next and read | QUIC streams arrive in any order and break off anywhere; readers miss groups |
| `mt/serve/stream.rs` | the latest group of one stream | the same, by clones of the writer | append is two critical sections; one clone may close while others write |
| `mt/serve/object.rs` | the objects of the newest group; a heap per reader | create, write, close; next | index arithmetic on an epoch; priorities overtake |
| `mt/serve/datagram.rs` | the latest datagram | write, close, read | readers miss values |
| `mt/session/announce*.rs` | per namespace: the Announce, the Announced | announce, ok, drop on both sides | the ends cross on the wire; entries are keyed by namespace, not by announcement |
| `mt/session/subscri*.rs` | per id: the Subscribe, the Subscribed, what was answered | subscribe, serve, reject, drop on both sides | four ends race to give the last answer; data overtakes control |
| `mt/session/publisher.rs`, `subscriber.rs` | the maps of the above, the outgoing queue | the handlers of every message and stream | maps and queues are separate critical sections |
| `mt/session/mod.rs`, `mt/setup` | roles and versions | connect, accept, dispatch | the server sends before the client knows its role |
| `mt/coding`, `mt/message`, `mt/data` | none | encode and decode | boundaries of the variable length integer |
| `mt/util`, `mt/serve/broadcast.rs` | | | not compiled: no `mod` names them |
| `relay/local.rs`, `consumer.rs`, `api.rs` | local broadcasts by namespace, the refresh of each origin | announce, register, forward, refresh, drop | the API is a second source of truth; a refresh outlives what it stands for |
| `relay/producer.rs`, `remote.rs` | remote origins by URL, remote tracks by key | route, subscribe, connect, serve, drop | entries outlive what they point to, and are removed by key |
| `api/` | an origin per namespace, with a time to live | get, set, patch, delete | set is two commands and does not renew; delete asks nothing |
| `moq-dir` | a listing, as snapshots and deltas | insert, remove, next | the reader must reach the writer's set whatever it missed |
| `pub/main.rs`, `media.rs`, `subtosync.rs` | position in the recording, open groups, the last message of the leader | play, pause, seek, start over | a channel that keeps only the last value, read between batches; counters beside a list |
| `moq-sub`, `moq-clock`, `moq-native`, `moq-catalog` | | | loops around I/O, configuration, types |
| `moq-js/lib/transport` | the announcements and subscriptions of the browser | as above | its own answers to the same protocol |
| `moq-js/lib/playback`, `common` | a ring of samples shared with the audio worklet, the timeline of segments | write, read, clear; pull | two threads on one ring; a race of two reads |
| `moq-js/lib/contribute` | | | streams of the platform |
| `moq-js/web` | rooms, roles and namespaces of the room server | join, disconnect, announce | who leads a room |

How they interact. A program opens a session (`session/mod.rs`) and gets a
Publisher, a Subscriber or both. A Publisher announces a broadcast (`tracks.rs`) and
answers SUBSCRIBE by asking the broadcast for the track, which is a request in a
queue (`watch/queue.rs`) if nobody asked for it before; whoever owns the other half of
the broadcast takes the request and fills the track in one of four modes (`group.rs`,
`stream.rs`, `object.rs`, `datagram.rs`). A Subscriber turns SUBSCRIBE_OK, streams and
datagrams into writes to such a track. A relay is both, and passes requests on from
one to the other. All of these share state only through `watch/state.rs`.
moq-pub (`pub/main.rs`) writes the tracks of a recording to a broadcast and reads the
sync track of the room's leader, whose messages steer it.

What makes each part correct, and the properties that say so, is in section 3; what
could go wrong where is the list of hazards in PROJECT.json.

## 2. Modules

| module | models | how |
|---|---|---|
| `WatchQueue` | `watch/state.rs`, `watch/queue.rs` | every critical section is a step; a pop is look, wait, poll |
| `ClosableQueue` | what `queue.rs` promises | the abstract FIFO `WatchQueue` implements |
| `Tracks` | `serve/tracks.rs`, `serve/track.rs` and their use of the queue | every method and every drop, in the order Rust drops fields |
| `ServedObject` | an object of a group | operators used by the next two |
| `ServeGroups` | `serve/group.rs` | one track: groups, objects, chunks |
| `LatestValue` | what a track promises its readers; `serve/datagram.rs` | the abstract cell `ServeGroups` and `ServeStream` implement |
| `ServeStream` | `serve/stream.rs` | the same with cloned writers and append in two steps |
| `ServeObjects` | `serve/object.rs` | the cache and the heaps |
| `SessionAnnounce` | `session/announce.rs`, `announced.rs`, their handlers | both ends and the two message queues between them |
| `SessionSubscribe` | `session/subscribe.rs`, `subscribed.rs`, their handlers | both ends, messages, the groups or objects in flight, and data streams that overtake the messages |
| `SessionSetup` | `session/mod.rs`, `setup/` | the handshake of roles, then messages by kind |
| `Origins` | `relay/consumer.rs`, `local.rs`, `api.rs`, `api/server.rs` | the relays, the API and the announcements of one namespace, with time |
| `Remotes` | `relay/remote.rs`, `producer.rs` | one relay's requests, the Remotes they make, and the tracks of these |
| `Playback` | `pub/main.rs`, `media.rs`, `subtosync.rs` | the loop as a program counter; the leader as messages |
| `MC...` | | the instances TLC checks |
| `..._proofs` | | theorems (section 5) |

`Broadcast_proofs` is about `Tracks` and the `WatchQueue` below it, `Session_proofs` about
`SessionSetup` and `SessionAnnounce`, `Relay_proofs` about `Origins` and `Remotes`. Where two
modules are proved about in one, the specification of one of them carries its name:
`QueueInit`, `QueueNext` and `QueueSpec` of `WatchQueue`, `SetupSpec` of `SessionSetup`,
`OriginsSpec` of `Origins`.

**Granularity.** `WatchQueue` alone looks inside a wait. It shows that a task which
waits for a change is woken by it; everywhere else "wait until" is the guard of an
action. In the other modules a step is one critical section, so that code which takes
a lock twice is two steps: `append` of a stream (`LookAppend`, `EndAppend`), the drop of an
Announce (`LookDrop`, `RemoveAnnounce`, `Unannounce`), the drop of a TracksRequest
(`DropRequest`, `DropQueue`, `CloseDrained`, `DropTracksState`), SUBSCRIBE and the
insertion of its entry (`Subscribe`, `Insert`), GET and SET of an origin (`Get`, `Set`),
the end of a remote's task and the removal of its entry (`SessionEnds`, `Reap`), the end
of a subscription and of what it has in flight (`SetDone`, `EndTask`, `Finish`), a message of the channel seen and read (`See`, `Resume`, `Obey`). A step that fails with Cancel because
nobody is left to read is left out where nothing can see it, and kept where it has an
effect (`CreateObject` uses up an id).

**Data.** Names, namespaces and ids are model values or small numbers, a chunk is
one unit long, all errors but NotFound are one. Logging, formatting and the payloads
are left out. `Remotes` names a Remote, or a track, by the request that made it. `Playback`
counts positions in atoms, as the code does: the file of atom p is p + 2, after ftyp and
moov.

**How the modules meet.** `Origins` answers what a relay is told by the API; `Remotes`
takes any answer, so it holds for whatever `Origins` does. A Remote's tracks are `Tracks`
seen from outside: requested, taken, served. `Playback` writes groups as `ServeGroups`
has them, and hears the leader through a stream (`ServeStream`).

**Drop.** Rust runs destructors at known points, and half of the protocol is in them.
A handle is a member of a set (`readers`, `held`, `writers`) or a status; the action that
takes it out does what the destructor does. `Readable` and `Writable` say when the last
handle of a side is gone, which is when `StateDrop` breaks the state.

**History.** `late`, `taken`, `evicted`, `answers`, `sent`, `given` and `overrun` record what
happened for the properties; no guard reads them except `Last`, whose condition
(`ok` was sent) the code keeps in the Subscribed.

## 3. Runs

All passing runs check the specification with its fairness. `CHECK_DEADLOCK FALSE`
except in `origins` and `playback`, where time and the film go on: elsewhere, when every
handle is dropped, or every bound is reached, nothing is left to do, and a quiet system is
legal. A type invariant that is proved (section 5) is not among the properties of a run.

| run | properties | what they show |
|---|---|---|
| `tracks` | `Deduplicated`, `NotFoundUnlessTaken`, `Answered` | one request per name whoever asks; dropping the request half answers NotFound; every waiter is answered, but one case |
| `tracks_stranded` | `AlwaysAnswered` (violated) | that case: see findings |
| `watch_queue` | `NoLostWakeup`, `PopReturns`, `QueueIsSuffix`, `ImplementsQueue` | no wakeup lost or spent on a cancelled pop; a FIFO that can be closed |
| `serve_groups` | `AppendIsFresh`, `ObjectIdsContiguous`, `NoTruncation`, `NeverBack`, `ImplementsLatestValue`, `ReachesEnd` | append never collides; gaps never show; truncated objects never read as complete; a reader moves forward, gets the last group, then the end |
| `serve_stream` | `EndIsLast`, `NeverOlder`, `ImplementsLatestValue`, `ReachesEnd` | the same under clones that race, and the same cell |
| `serve_objects` | `GivenOnce`, `NothingMissed`, `CacheIsNewestGroup`, `Delivered` | the cache is the newest group written, whole and alone; the epoch arithmetic gives each object once and loses none but to a newer group |
| `session_announce` | `Sound`, `EndUnderWay`, `BothLearn` | crossing ends never cost the session; an end that one side has not heard of is under way to it; both sides learn, the subscriber for good and for reused namespaces too |
| `session_announce_reuse` | `RemovesOwnEntry` (violated) | see findings |
| `session_subscribe` | `AnsweredOnce`, `EndUnderWay`, `SubscriberLearns`, `UnsubscribeStops` | exactly one last answer, which matches the first; an end that one side has not heard of is under way to it; an end that was sent reaches the subscriber; a dropped subscription stops at the publisher, unless something that does not look at the cancellation holds it for ever |
| `origins` | `LocalOwner`, `NeverTaken`, `OriginHeals`, `OneServes` | a relay routes to what it serves and nothing else; the key never changes hands; whatever deletes it, a relay that serves is found again; of two relays that both serve one gives up |
| `remotes` | `RemoteOnce`, `NoStaleTrack`, `Answered` | one connection per relay; no key without readers; every request is answered, but those in the queue of a Remote that died |
| `playback` | `Decodable`, `Playable`, `QuietWhenPaused`, `Obeys`, `KeepsPlaying` | what is published starts at a keyframe and has no gap, over seeks and new starts; no pair is refused; a pause holds; commands take effect unless overwritten; the film goes on for ever, as long as no seek put the counters at odds with the list |

**Bounds and why they are enough.** Every bound is a CONSTANT and a guard.

- `tracks`: two names, two subscribers, two tracks. Two subscribers meet on one name;
  two tracks allow a request and a replacement by `create`, a request after the drain,
  and the same name requested again after `remove`.
- `watch_queue`: two producers, two consumers, three entries of two values. A wakeup
  meant for one consumer can be spent by the other; either side can close.
- `serve_groups`: two groups with ids 0 and 1 in either order, two objects of one
  chunk, one reader. Readers do not affect each other (a reader writes only its own
  state; the writer asks only whether any is left), so one shows what each sees.
  The two objects let an id be used up while no one reads.
- `serve_stream`: two clones, two groups, one object: two appends can overlap.
- `serve_objects`: three objects of two groups with opposite orders of id and
  priority: the cache is cleared with objects unread, refilled, and stale ones come.
- `session_announce`: two announcements over two namespaces, so of one or of two.
- `session_subscribe`: two subscriptions, so that one message can be about another
  subscription than the one before, and each with at most one group or object in flight
  (`MaxTasks`): the loop that serves them asks only whether any is.
- `origins`: two relays, two announcements at one and one at the other. One relay sees a
  duplicate of its own (the second announcement of a namespace), and two relays compete.
  Time is counted in the 300 seconds between refreshes, so a key lives two periods; a
  period does not end while a refresh due in it has not been sent.
- `remotes`: two URLs, three requests for one track. Two requests share a Remote and a
  track, and a third comes while the first is torn down; the origin moves between them.
- `playback`: six fragments of two tracks, keyframes at the first and the fourth, so that
  a batch of two pairs crosses a keyframe and the end; a table with a second for each
  keyframe, one marked -1 and one beyond it; up to two messages in a batch (`MaxBurst`),
  so that one overwrites another, and any number while paused.

**Fairness.** A future that is ready is polled (the tokio runtime); a handler takes the
next message (the run loop of the session selects over all its tasks); a destructor
once begun finishes (Rust). Owners of writers promise nothing, except in `Tracks`,
where whoever took a TrackWriter disposes of it in the end: the alternative is a
publisher that keeps a subscriber waiting by intent. In `SessionSubscribe` the application
need not read the unknown queue, and a writer need not choose a mode, nor end its track, a
group or an object. What is fair is that `announce` takes what is queued, and that the
`select!` of `serve_groups` and `serve_objects` takes a `closed()` that is ready (it polls
its branches in a random order) and leaves when nothing is in flight. That loop is all that
looks at the cancellation: `mode()`, a stream and datagrams do not, and neither does a
group or object in flight, whose `update_max` does not ask for `closed`. So
`UnsubscribeStops` promises an end only to a subscription that none of these holds for
ever, and says which they are (`Held`). In `Origins` requests are answered or
fail, timers fire and tasks run; nobody has to announce or to take it back, and failures
are not fair. In `Remotes` the tasks of the relay run and a connection attempt ends;
nothing is expected of the relay upstream or of subscribers. In `Playback` the loop runs,
and the leader writes what and when he likes.

## 4. Findings

- **A request can be stranded** (`tracks_stranded`). `Queue::close` drains the entries
  under the lock, releases it, and drops its handle afterwards. A subscriber in between
  pushes a request that nobody takes or closes. `queue.rs:40` says "Prevent any new
  entries from being added". `Answered` holds for all other requests.
- **An entry is removed for the wrong announcement** (`session_announce_reuse`). Terminal
  messages remove the entry of the namespace. An Announced dropped after its namespace was
  unannounced and announced again removes the entry of its successor, whose `closed()`
  returns although nobody ended it. `subscriber.rs:77` says "Remove our entry".

Other behaviour met while modelling, which no run refutes a document with:

- *Library.* `StreamWriter::create` compares with `>`, so the latest id itself passes and
  replaces its group; `track.rs:6` says a duplicate is an error. Two clones that append at
  once could meet this, but of the two that `subscribe.rs:173` makes one is only kept to be
  closed. Object ids of streams are all 0. Groups end cleanly after a reset. Entries are
  left behind by an early answer (`late` in `SubscriberLearns`). After UNSUBSCRIBE a publisher takes no new group or object,
  but those in flight are served to their end: one that its writer leaves open, as a paused
  moq-pub does, keeps the subscription, its entry and the answer for as long. An Announce
  that is dropped frees its namespace before it queues UNANNOUNCE (`publisher.rs:262`), so
  the same namespace announced in between reaches the subscriber first, is a duplicate
  there, and costs the session. `Session::connect` unwraps
  both halves, and so panics if the server asks for one of them only; those of this
  repository ask for both.
- *Relay.* A session that is lost leaves its consumer waiting, with the registration and
  the refresh: the origin stays for ever (`session.rs:25`). A `set_origin` that is refused
  drops a Refresh, whose drop deletes the origin, whoever's it is; refreshing heals it
  (`OriginHeals`). So does one that only seemed to fail, and is still done by the server
  later (`Abandon`), perhaps after that deletion. Refreshing never renews the time to live, although `server.rs:107`
  says "the origin needs to keep refreshing it": the key expires and is set anew. A Remote
  that dies before its queue is taken strands the requests in it (`Stranded` in
  `Answered`), and two tracks of one key can exist after one is dropped, whose destructor removes the key of
  the other. A
  relay told by the API that it is itself the origin connects to itself.
- *Publisher.* A seek to a second without a keyframe (log: "skipping seek") resets the
  counters but not the list: the film jumps back to where it was last sought, and after
  that stops at its end (the condition of `KeepsPlaying` leaves this case out). A chat message while paused plays one batch. A pause during the
  last batch of a recording is forgotten by the outer loop. A `play` that comes right
  after a chat message has ended the wait is taken for nothing. One pair before the end is
  never shown. A table entry of 0 or 1 would underflow (`main.rs:375`). The syncer drops
  its Subscribe at once, so that UNSUBSCRIBE follows SUBSCRIBE_OK: the leader is heard only
  because a stream is served without a look at the cancellation.

## 5. Proofs

TLC shows a property for the instance of a `.cfg`; the theorems hold for every value of the
constants, under the named assumption of the module they are about:

- `TracksAssumption`, `WatchAssumption`, `ServeGroupsAssumption`, `ServeObjectsAssumption`,
  `ServeStreamAssumption`, `SessionAnnounceAssumption`: bounds, ids and sizes are natural
  numbers; there is a name, a producer and a consumer, and a writer to begin with
  (`Stream::produce` returns one);
- `SessionSubscribeAssumption`: the bound on what is in flight is a natural number;
- `OriginsAssumption`, `RemotesAssumption`: Nobody is no relay, None no URL and no request;
- `PlaybackAssumption`: a recording is whole pairs, its first fragment a keyframe of the
  video, and the table of seconds leads to keyframes.

`SessionSetup` needs none. Every proof has the same shape:
`Init => IInv`, `IInv /\ [Next]_vars => IInv'` with one lemma or step per action,
`IInv => P`, and one temporal step. `SessionSetup` has no run: it has no parameter and few
states, and its three theorems say all there is.

| module | about | theorems | what they state |
|---|---|---|---|
| `Broadcast_proofs` | `Tracks` | `TypeCorrect`, `RequestsDeduplicated`, `NotFound`, `OnlyLateAreLeft` | `TypeOK`, `Deduplicated`, `NotFoundUnlessTaken`, `LeftInQueue` |
| | `WatchQueue` | `QueueTypeCorrect`, `NoWakeupIsLost`, `Fifo`, `QueueRefinement` | `QueueTypeOK`, `NoLostWakeup`, `QueueIsSuffix`, `ImplementsQueue` |
| `ServeGroups_proofs` | | `TypeCorrect`, `AppendFresh`, `Contiguous`, `WholeObjects`, `Forward`, `Refinement` | `TypeOK`, `AppendIsFresh`, `ObjectIdsContiguous`, `NoTruncation`, `NeverBack`, `ImplementsLatestValue` |
| `ServeStream_proofs` | | `TypeCorrect`, `CleanEnd`, `NoStepBack`, `Refinement` | `TypeOK`, `EndIsLast`, `NeverOlder`, `ImplementsLatestValue` |
| `ServeObjects_proofs` | | `TypeCorrect`, `NeverTwice`, `CacheIsCovered`, `WholeNewestGroup` | `TypeOK`, `GivenOnce`, `NothingMissed`, `CacheIsNewestGroup` |
| `Session_proofs` | `SessionSetup` | `RolesFit`, `NoRoleViolation`, `BothOrNeither` | `RolesMatch`, `NoViolation`, `NeverHalfOpen` |
| | `SessionAnnounce` | `TypeCorrect`, `AnnouncementsSound`, `NoEndLost` | `TypeOK`, `Sound`, `EndUnderWay` |
| `SessionSubscribe_proofs` | | `TypeCorrect`, `OneAnswer`, `NoEndLost` | `TypeOK`, `AnsweredOnce`, `EndUnderWay` |
| `Relay_proofs` | `Origins` | `OriginsTypeCorrect`, `OriginsLocalOwner`, `OriginsNeverTaken` | `OriginsTypeOK`, `LocalOwner`, `NeverTaken` |
| | `Remotes` | `RemotesTypeOK`, `RemotesOnce`, `RemotesNoStaleTrack`, `RequestsInHand` | `TypeOK`, `RemoteOnce`, `NoStaleTrack`, `WaitingInHand` |
| `Playback_proofs` | | `TypeCorrect`, `PlaysDecodable`, `NeverRefused`, `PausedIsQuiet` | `TypeOK`, `Decodable`, `Playable`, `QuietWhenPaused` |

With this every invariant that a run checks is proved, and the action properties
`NeverBack`, `NeverOlder` and `NeverTaken`. Few are inductive as they stand. What was added:

- `Tracks`. `Cached` (a track that was not replaced or removed is the one the lookup has
  under its name) makes requests deduplicated. `HeldTaken` and `LiveUndrained` (nothing is
  drained before the `TracksRequest` is dropped) give `NotFoundUnlessTaken`. `LeftInv`
  follows the drop of the `TracksRequest`: the queue breaks with its handle or with the
  last reader (`Broken`), and what is in it between the drain and that was pushed in the
  window (`DrainedQueue`).
- `WatchQueue`. `Behind`, `Fresh` and `Registered` relate the epoch of the state, the
  epoch each waiting consumer looked at and the list of wakers: a consumer asleep is in the
  list for the current epoch, and looked at an empty open queue.
- `ServeGroups`. `Track`: `next` is one past the id of the latest group, which is the
  highest. `Reading`: a reader whose epoch is the state's was given the latest group, and
  one that is behind was given an older id; `NeverBack` and the refinement both need it.
  `Content`: *while anyone can come to a group*, its ids used up are as many as its
  objects. This is why an id burnt by a `create` that failed with `Cancel` is never seen as
  a gap: a group with no reader that is not the latest one cannot get a reader again.
  `Whole`: what a reader went past is done, and what is done is complete.
- `ServeStream`. `Order`: the ids never go down, since `create` compares with the id
  the lock finds, not with the one `append` read before. `Appending`: only a clone that
  exists is between the two locks of `append`, so none adds a group once all are gone.
  `Reading`: the epoch of a reader is the group it was given, and a clean end comes when no
  clone is left and the reader has the latest group.
- `ServeObjects`. `Known`: of the objects in the cache a reader took exactly the first
  ones, up to the index counted back from the epoch (`First`). Clearing the cache keeps it
  because the epoch has then moved further than the new cache is long. `Newest`: the
  cache is empty only before the first object.
- `SessionAnnounce`. `Named`: an entry is that of an announcement of its namespace.
  `Fresh`: an ANNOUNCE is under way only to a subscriber that has not heard of it, once.
  `Replied`: an ANNOUNCE_OK is under way only for a namespace that was accepted. For
  `EndUnderWay`, `Told`: an open Announce of a namespace announced once has the entry, and
  an Announced on its way out has none (`OwnEntries`); what ends an Announce was sent by an
  Announced that is gone (`Ends`); once an Announce was
  dropped, an UNANNOUNCE follows its ANNOUNCE, or is under way to its entry (`Behind`).
- `SessionSubscribe`. `Fresh`: a SUBSCRIBE is under way only to a publisher that has not
  heard of its id, and once. `Answers`: how far a `Subscribed` is in its life says which
  answers it has sent. `Entered`: a live Subscribe has its entry, so an answer that finds
  none finds a Subscribe that failed, was dropped, or is not inserted yet.
- `SessionSetup`. `EarlySetup` and `LateSetup`, before and after the server has agreed: the
  role the client will end with is already determined when the server opens, so what the
  server sends before the client knows its role is for a half the client will have.
- `Origins`. Only `LocalOwner` itself, with the types.
- `Remotes`. `RequestOrder`: a request makes its Remote when it is routed and its track when
  it subscribes, never before. `QueuedOnce`: a Remote is queued once and not started yet,
  so one task runs it and one removal follows. `OwnTrack`: the key of a Remote's map is of a
  track requested of it. `HandInv` follows a TrackWriter from the queue of its Remote to a
  session that runs and to its mode or its end, and a Remote from its request to its task.
- `Playback`. `Placed`: the list starts at a keyframe, the count is even and within the
  list, and what is open ends where the count is. It makes `Decodable` inductive: the next
  fragment follows the last one or is a keyframe. `Quiet`: a paused loop past its wait was
  woken by a message.

The refinements are step by step. In `ServeGroups` and `ServeStream`, a `create` or
`append` that makes a new latest group is `Write`, dropping the last writer is `Close`, `next`
of a reader is `Read` or `End`, and every other step (objects, chunks, a `create` with an
old id, the first half of `append`) leaves the cell alone. In `WatchQueue` the locked
half of push, pop and close is the step of the FIFO, and looking, waiting and waking leave
it alone.

**Liveness.** No theorem is about fairness. What four of the leads-to properties rest on
is proved as an invariant, that nothing is ever waited for which nobody still owes:
`EndUnderWay` for `BothLearn`, and for `SubscriberLearns` and `UnsubscribeStops`; `WaitingInHand`
for the `Answered` of `Remotes`; and `LeftInQueue` says that the exception in the `Answered`
of `Tracks` is the only one. That these debts are paid in the end is what TLC shows.

Only model-checked: liveness under fairness, which is out of the prover's reach (`Answered`
of `Tracks` and `Remotes`, `PopReturns`, `ReachesEnd`, `Delivered`, `BothLearn`,
`SubscriberLearns`, `UnsubscribeStops`, `OriginHeals`, `OneServes`, `Obeys`,
`KeepsPlaying`), and the two properties of the findings, which do not hold.

## 6. Not modelled

- *I/O, parsing, types.* `session/reader.rs`, `writer.rs`, `mt/coding`, `mt/message`,
  `mt/data`: field by field encodings without state. The MP4 parsing of `media.rs`,
  `moq-native`, TLS, `relay/web.rs`, `moq-catalog`.
- *Code nobody runs.* `mt/util` and `serve/broadcast.rs` are not compiled; the other loops
  of `pub/main.rs` (`run_media`, `run_media_from_group`, its `_2` and the old one),
  `Media::reset` and `parse` have no caller, nor has `patch_origin`.
- *In modelled components.* Track status requests; the maximum group and object a
  Subscribed reports; the writer a Subscribe takes for its mode and its datagrams, which no
  program here sends; `StateWeak`; the chunks of `object.rs`. The promise of `datagram.rs`
  is `LatestValue` itself. The forward session of a relay is a failure that may happen.
  The WebSocket task of `pub/main.rs`, which replaces the syncer: what it changes for the
  loop is only who writes the messages.
- *Other programs.* `moq-dir` (no program here reads its listings), `moq-sub` and
  `moq-clock` (loops to the standard output).
- *The browser.* `moq-js/lib/transport` speaks the protocol whose two ends are modelled
  from the Rust side; `lib/playback`, `lib/contribute` are built around streams and codecs of
  the platform; the room server is one thread that keeps who is in a room. Of the watch
  page, `Playback` has the messages a leader writes.
