------------------------------- MODULE Remotes -------------------------------
(***************************************************************************)
(* What a relay fetches from other relays (producer.rs and remote.rs).  A  *)
(* request for a track that is not served locally asks the API for the     *)
(* relay to fetch it from, takes the Remote of that URL or makes one, and  *)
(* takes the track from it or requests it.  A task per Remote connects,    *)
(* and hands the tracks requested to its session.                          *)
(*                                                                         *)
(* A Remote, and a track, is named here by the request that made it.  The  *)
(* requests are for one track, of one namespace: its key in the map of     *)
(* each Remote.  What the API answers is any relay or none (see Origins).  *)
(***************************************************************************)
EXTENDS Integers, Sequences

CONSTANTS
  Urls,             \* the relays a namespace may have its origin at
  Requests,         \* the subscriptions ever made to this relay
  None

ASSUME RemotesAssumption == None \notin Urls \cup Requests

VARIABLES
  req,              \* where Producer::serve is, per request
  url,              \* the origin each was told
  via,              \* the Remote each took
  track,            \* the track each reads
  lookup,           \* RemotesState.lookup
  requested,        \* RemotesState.requested: the Remotes no task runs yet
  remote,           \* each Remote: none, requested, connecting, running, dead or gone
  tracks,           \* RemoteState.tracks of each Remote, at the key
  queue,            \* RemoteState.requested of each Remote
  writer,           \* the TrackWriter of each track
  dropping          \* tracks without readers, whose RemoteTrackDrop is to run

requests == <<req, url, via, track>>
vars == <<requests, lookup, requested, remote, tracks, queue, writer, dropping>>

Init ==
  /\ req = [q \in Requests |-> "new"]
  /\ url = [q \in Requests |-> None]
  /\ via = [q \in Requests |-> None]
  /\ track = [q \in Requests |-> None]
  /\ lookup = [u \in Urls |-> None]
  /\ requested = <<>>
  /\ remote = [r \in Requests |-> "none"]
  /\ tracks = [r \in Requests |-> None]
  /\ queue = [r \in Requests |-> <<>>]
  /\ writer = [t \in Requests |-> "none"]
  /\ dropping = {}

\* The requests that hold the RemoteTrackReader of track t.
Readers(t) == {q \in Requests : track[q] = t}

\* A Remote whose RemoteProducer was dropped: its state cannot be changed any more.
Dropped(r) == remote[r] \in {"dead", "gone"}

(***************************************************************************)
(* Producer::serve, up to the SubscribeOk; then it waits for the track.    *)
(***************************************************************************)
\* A track this relay has a publisher of is served from it (see Tracks).
ServeLocal(q) ==
  /\ req[q] = "new"
  /\ req' = [req EXCEPT ![q] = "local"]
  /\ UNCHANGED <<url, via, track, lookup, requested, remote, tracks, queue, writer, dropping>>

\* RemotesConsumer::route asks the API, and waits for the answer: no origin, or a
\* request that fails, is a SubscribeError.
GetOrigin(q) ==
  /\ req[q] = "new"
  /\ \/ \E u \in Urls :
          /\ url' = [url EXCEPT ![q] = u]
          /\ req' = [req EXCEPT ![q] = "told"]
     \/ req' = [req EXCEPT ![q] = "refused"] /\ UNCHANGED url
  /\ UNCHANGED <<via, track, lookup, requested, remote, tracks, queue, writer, dropping>>

\* Mutant: the lookup is made before the API is asked, and then forgotten.
MRoute(q) ==
  /\ req[q] = "told"
  /\ req' = [req EXCEPT ![q] = "routed"]
  /\ via' = [via EXCEPT ![q] = q]
  /\ lookup' = [lookup EXCEPT ![url[q]] = q]
  /\ requested' = Append(requested, q)
  /\ remote' = [remote EXCEPT ![q] = "requested"]
  /\ UNCHANGED <<url, track, tracks, queue, writer, dropping>>

\* Then it looks the URL up, under the lock: the Remote there, whatever became of
\* it, or a new one, queued for a task.
Route(q) ==
  /\ req[q] = "told"
  /\ req' = [req EXCEPT ![q] = "routed"]
  /\ \/ /\ lookup[url[q]] # None
        /\ via' = [via EXCEPT ![q] = lookup[url[q]]]
        /\ UNCHANGED <<lookup, requested, remote>>
     \/ /\ lookup[url[q]] = None
        /\ via' = [via EXCEPT ![q] = q]
        /\ lookup' = [lookup EXCEPT ![url[q]] = q]
        /\ requested' = Append(requested, q)
        /\ remote' = [remote EXCEPT ![q] = "requested"]
  /\ UNCHANGED <<url, track, tracks, queue, writer, dropping>>

\* RemoteConsumer::subscribe, under the lock of the Remote.
\* The entry of the key is weak: it counts only if someone still reads the track.
Found(r) == tracks[r] # None /\ Readers(tracks[r]) # {}

Join(q, r) ==
  /\ Found(r)
  /\ track' = [track EXCEPT ![q] = tracks[r]]
  /\ req' = [req EXCEPT ![q] = "waiting"]
  /\ UNCHANGED <<tracks, queue, writer>>

Request(q, r) ==
  /\ ~Found(r) /\ ~Dropped(r)
  /\ tracks' = [tracks EXCEPT ![r] = q]
  /\ queue' = [queue EXCEPT ![r] = Append(@, q)]
  /\ writer' = [writer EXCEPT ![q] = "queued"]
  /\ track' = [track EXCEPT ![q] = q]
  /\ req' = [req EXCEPT ![q] = "waiting"]

\* No track to be had of a Remote that died: NotFound.
Miss(q, r) ==
  /\ ~Found(r) /\ Dropped(r)
  /\ req' = [req EXCEPT ![q] = "refused"]
  /\ UNCHANGED <<track, tracks, queue, writer>>

Subscribe(q) ==
  /\ req[q] = "routed"
  /\ LET r == via[q] IN Join(q, r) \/ Request(q, r) \/ Miss(q, r)
  /\ UNCHANGED <<url, via, lookup, requested, remote, dropping>>

\* TrackReader::mode returns once the writer has a mode, or is gone without.
Learn(q) ==
  /\ req[q] = "waiting"
  /\ writer[track[q]] \in {"serving", "closed"}
  /\ req' = [req EXCEPT ![q] = "served"]
  /\ UNCHANGED <<url, via, track, lookup, requested, remote, tracks, queue, writer, dropping>>

\* Serving ends, for any reason; the last reader of a track drops its RemoteTrackDrop.
Leave(q) ==
  /\ req[q] = "served"
  /\ req' = [req EXCEPT ![q] = "over"]
  /\ track' = [track EXCEPT ![q] = None]
  /\ dropping' = IF Readers(track[q]) = {q} THEN dropping \cup {track[q]} ELSE dropping
  /\ UNCHANGED <<url, via, lookup, requested, remote, tracks, queue, writer>>

\* Mutant: the destructor finds the lock taken and gives up.
MDropTrack(t) ==
  /\ t \in dropping
  /\ dropping' = dropping \ {t}
  /\ UNCHANGED <<requests, lookup, requested, remote, tracks, queue, writer>>

\* RemoteTrackDrop::drop: the key is removed, whatever track is under it by now.
DropTrack(t) ==
  /\ t \in dropping
  /\ dropping' = dropping \ {t}
  /\ tracks' = IF Dropped(via[t]) THEN tracks ELSE [tracks EXCEPT ![via[t]] = None]
  /\ UNCHANGED <<requests, lookup, requested, remote, queue, writer>>

(***************************************************************************)
(* RemotesProducer::run, and a task RemoteProducer::run per Remote.        *)
(***************************************************************************)
Start ==
  /\ requested # <<>>
  /\ requested' = Tail(requested)
  /\ remote' = [remote EXCEPT ![Head(requested)] = "connecting"]
  /\ UNCHANGED <<requests, lookup, tracks, queue, writer, dropping>>

\* The QUIC connection and the SETUP exchange succeed, or fail, or time out.
Connect(r) ==
  /\ remote[r] = "connecting"
  /\ \E s \in {"running", "dead"} : remote' = [remote EXCEPT ![r] = s]
  /\ UNCHANGED <<requests, lookup, requested, tracks, queue, writer, dropping>>

\* Mutant: the last track in the queue is left there.
MTake(r) ==
  /\ remote[r] = "running"
  /\ Len(queue[r]) > 1
  /\ queue' = [queue EXCEPT ![r] = Tail(@)]
  /\ writer' = [writer EXCEPT ![Head(queue[r])] = "taken"]
  /\ UNCHANGED <<requests, lookup, requested, remote, tracks, dropping>>

\* The next track requested goes to the session, which subscribes upstream.
Take(r) ==
  /\ remote[r] = "running"
  /\ queue[r] # <<>>
  /\ queue' = [queue EXCEPT ![r] = Tail(@)]
  /\ writer' = [writer EXCEPT ![Head(queue[r])] = "taken"]
  /\ UNCHANGED <<requests, lookup, requested, remote, tracks, dropping>>

\* Upstream sends the first data, or refuses or ends the subscription.
Upstream(t) ==
  /\ writer[t] = "taken"
  /\ \E w \in {"serving", "closed"} : writer' = [writer EXCEPT ![t] = w]
  /\ UNCHANGED <<requests, lookup, requested, remote, tracks, queue, dropping>>

\* The session fails.  The writers it was given go with it, those in the queue stay:
\* the readers themselves keep the state they are in.
SessionEnds(r) ==
  /\ remote[r] = "running"
  /\ remote' = [remote EXCEPT ![r] = "dead"]
  /\ writer' = [t \in Requests |->
                  IF via[t] = r /\ writer[t] \in {"taken", "serving"}
                  THEN "closed" ELSE writer[t]]
  /\ UNCHANGED <<requests, lookup, requested, tracks, queue, dropping>>

\* The task is over, its RemoteProducer dropped; run removes the entry of its URL.
Reap(r) ==
  /\ remote[r] = "dead"
  /\ remote' = [remote EXCEPT ![r] = "gone"]
  /\ lookup' = [lookup EXCEPT ![url[r]] = None]
  /\ UNCHANGED <<requests, requested, tracks, queue, writer, dropping>>

-----------------------------------------------------------------------------
Next ==
  \/ Start
  \/ \E q \in Requests :
       \/ ServeLocal(q) \/ GetOrigin(q) \/ Route(q) \/ Subscribe(q)
       \/ Learn(q) \/ Leave(q) \/ DropTrack(q)
       \/ Connect(q) \/ Take(q) \/ Upstream(q) \/ SessionEnds(q) \/ Reap(q)

\* Tasks run, the API answers and a connection attempt ends; nothing is expected of
\* upstream, nor of the subscribers.
Fairness ==
  /\ WF_vars(Start)
  /\ \A q \in Requests :
       /\ WF_vars(GetOrigin(q)) /\ WF_vars(Route(q)) /\ WF_vars(Subscribe(q))
       /\ WF_vars(Learn(q)) /\ WF_vars(DropTrack(q))
       /\ WF_vars(Connect(q)) /\ WF_vars(Take(q)) /\ WF_vars(Reap(q))

Spec == Init /\ [][Next]_vars
FairSpec == Spec /\ Fairness

-----------------------------------------------------------------------------
TypeOK ==
  /\ req \in [Requests -> {"new", "local", "told", "routed", "waiting",
                            "served", "refused", "over"}]
  /\ url \in [Requests -> Urls \cup {None}]
  /\ via \in [Requests -> Requests \cup {None}]
  /\ track \in [Requests -> Requests \cup {None}]
  /\ lookup \in [Urls -> Requests \cup {None}]
  /\ requested \in Seq(Requests)
  /\ remote \in [Requests -> {"none", "requested", "connecting", "running", "dead", "gone"}]
  /\ tracks \in [Requests -> Requests \cup {None}]
  /\ queue \in [Requests -> Seq(Requests)]
  /\ writer \in [Requests -> {"none", "queued", "taken", "serving", "closed"}]
  /\ dropping \in SUBSET Requests

(***************************************************************************)
(* There is one Remote at a time to each URL, from its request to the end  *)
(* of its task, and it is the one in the lookup: a task that ends, and     *)
(* removes the entry of its URL, never removes that of a later Remote.     *)
(***************************************************************************)
RemoteOnce ==
  \A u \in Urls, r \in Requests :
    lookup[u] = r <=> url[r] = u /\ remote[r] \notin {"none", "gone"}

(***************************************************************************)
(* A live Remote does not keep the key of a track nobody reads, however    *)
(* the destructor of its last reader interleaves with new requests: the    *)
(* entry is read, or its destructor is still to run.                       *)
(***************************************************************************)
NoStaleTrack ==
  \A r \in Requests :
    tracks[r] # None /\ ~Dropped(r) =>
      Readers(tracks[r]) # {} \/ tracks[r] \in dropping

\* The track of q was requested of a Remote that died before a session took it.
Stranded(q) ==
  /\ req[q] = "waiting"
  /\ writer[track[q]] = "queued"
  /\ Dropped(via[q])

(***************************************************************************)
(* A request gets its answer from this relay's side of it: it is refused,  *)
(* or the track comes, or is upstream's to send - or the Remote it was     *)
(* requested of died with the request in its queue, the one way to wait    *)
(* for ever.                                                               *)
(***************************************************************************)
Answered ==
  \A q \in Requests :
    req[q] \in {"told", "routed", "waiting"} ~>
      \/ req[q] \in {"served", "refused", "over"}
      \/ req[q] = "waiting" /\ writer[track[q]] = "taken"
      \/ Stranded(q)
=============================================================================
