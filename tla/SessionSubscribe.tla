--------------------------- MODULE SessionSubscribe ---------------------------
(***************************************************************************)
(* The subscriptions of one session to the tracks of one namespace         *)
(* (session/subscribe.rs, subscribed.rs and the handlers of publisher.rs   *)
(* and subscriber.rs): SUBSCRIBE, its answer SUBSCRIBE_OK then             *)
(* SUBSCRIBE_DONE, or SUBSCRIBE_ERROR, and UNSUBSCRIBE on the control      *)
(* stream; the data on streams of its own, which overtake it and are       *)
(* overtaken.                                                              *)
(***************************************************************************)
EXTENDS Integers, Sequences

CONSTANTS
  Ids,              \* the subscribe ids; subscribe_next never gives one twice
  MaxTasks          \* bound: groups or objects of one subscription in flight

ASSUME SessionSubscribeAssumption == MaxTasks \in Nat

VARIABLES
  subscribe,        \* each Subscribe: sent, live, failed (closed is Err) or dropped
  entries,          \* Subscriber.subscribes
  late,             \* history: answered before the entry was inserted
  toPub,            \* messages to the publisher
  toSub,            \* messages to the subscriber
  streams,          \* data streams on their way
  announced,        \* the publisher's announce() of the namespace is running
  subscribed,       \* each Subscribed: queued or unknown; in serve() waiting for the
                    \* mode of the track, serving, or ending; dropping or gone
  viaAnnounce,      \* those announce() serves
  blind,            \* those whose track mode does not watch for the end of them
  tasks,            \* how many groups or objects of each are in flight
  cancelled,        \* SubscribedState.closed is Err
  answers           \* history: the messages sent about each

subscriber == <<subscribe, entries, late>>
serving == <<subscribed, viaAnnounce, blind, tasks>>
publisher == <<announced, serving, cancelled, answers>>
vars == <<subscriber, publisher, toPub, toSub, streams>>

Init ==
  /\ subscribe = [i \in Ids |-> "none"]
  /\ entries = {}
  /\ late = {}
  /\ toPub = <<>>
  /\ toSub = <<>>
  /\ streams = {}
  /\ announced = FALSE
  /\ subscribed = [i \in Ids |-> "none"]
  /\ viaAnnounce = {}
  /\ blind = {}
  /\ tasks = [i \in Ids |-> 0]
  /\ cancelled = {}
  /\ answers = [i \in Ids |-> <<>>]

ToPub(type, i) == toPub' = Append(toPub, [type |-> type, id |-> i])

ToSub(type, i) ==
  /\ toSub' = Append(toSub, [type |-> type, id |-> i])
  /\ answers' = [answers EXCEPT ![i] = Append(@, type)]

(***************************************************************************)
(* The subscriber.                                                         *)
(***************************************************************************)
\* Subscribe::new sends the message; the entry is inserted after that.
Subscribe(i) ==
  /\ subscribe[i] = "none"
  /\ subscribe' = [subscribe EXCEPT ![i] = "sent"]
  /\ ToPub("Subscribe", i)
  /\ UNCHANGED <<entries, late, publisher, toSub, streams>>

Insert(i) ==
  /\ subscribe[i] = "sent"
  /\ subscribe' = [subscribe EXCEPT ![i] = "live"]
  /\ entries' = entries \cup {i}
  /\ UNCHANGED <<late, publisher, toPub, toSub, streams>>

\* Mutant: the Subscribe is not told.
MFail(i) ==
  /\ entries' = entries \ {i}
  /\ UNCHANGED subscribe

\* The entry goes and its error() closes the track and the Subscribe.
Fail(i) ==
  /\ entries' = entries \ {i}
  /\ subscribe' = [subscribe EXCEPT ![i] = IF @ = "live" THEN "failed" ELSE @]

\* recv_subscribe_error, recv_subscribe_done; recv_subscribe_ok changes nothing the
\* rest depends on.
RecvSub ==
  /\ toSub # <<>>
  /\ toSub' = Tail(toSub)
  /\ LET m == Head(toSub) IN
     \/ /\ m.type = "SubscribeOk"
        /\ UNCHANGED subscriber
     \/ /\ m.type # "SubscribeOk" /\ m.id \in entries
        /\ Fail(m.id)
        /\ UNCHANGED late
     \/ /\ m.type # "SubscribeOk" /\ m.id \notin entries
        /\ late' = IF subscribe[m.id] = "sent" THEN late \cup {m.id} ELSE late
        /\ UNCHANGED <<subscribe, entries>>
  /\ UNCHANGED <<publisher, toPub, streams>>

\* recv_stream: NotFound without an entry; with one, the data goes to the track or
\* the track refuses it, as one nobody reads any more does, and the entry fails.
RecvStream(i) ==
  /\ i \in streams
  /\ streams' = streams \ {i}
  /\ \/ UNCHANGED subscriber
     \/ i \in entries /\ Fail(i) /\ UNCHANGED late
  /\ UNCHANGED <<publisher, toPub, toSub>>

\* subscribe() returns with the error, or is dropped by its caller.  Either way the
\* Subscribe is, and says so; the entry stays.
End(i) ==
  /\ subscribe' = [subscribe EXCEPT ![i] = "dropped"]
  /\ ToPub("Unsubscribe", i)
  /\ UNCHANGED <<entries, late, publisher, toSub, streams>>

Return(i) == subscribe[i] = "failed" /\ End(i)
Drop(i) == subscribe[i] = "live" /\ End(i)

(***************************************************************************)
(* The publisher.                                                          *)
(***************************************************************************)
\* recv_subscribe: to the queue of the announcement or to that of the unknown.
RecvSubscribe(i) ==
  /\ subscribed' = [subscribed EXCEPT ![i] = IF announced THEN "queued" ELSE "unknown"]
  /\ viaAnnounce' = IF announced THEN viaAnnounce \cup {i} ELSE viaAnnounce
  /\ UNCHANGED cancelled

\* Mutant: only a subscription that is being served is told.
MRecvUnsubscribe(i) ==
  /\ cancelled' = IF subscribed[i] = "serving" THEN cancelled \cup {i} ELSE cancelled
  /\ UNCHANGED <<subscribed, viaAnnounce>>

\* recv_unsubscribe: only what still has an entry.
RecvUnsubscribe(i) ==
  /\ cancelled' = IF subscribed[i] = "gone" THEN cancelled ELSE cancelled \cup {i}
  /\ UNCHANGED <<subscribed, viaAnnounce>>

RecvPub ==
  /\ toPub # <<>>
  /\ toPub' = Tail(toPub)
  /\ LET m == Head(toPub) IN
     \/ m.type = "Subscribe" /\ RecvSubscribe(m.id)
     \/ m.type = "Unsubscribe" /\ RecvUnsubscribe(m.id)
  /\ UNCHANGED <<subscriber, toSub, streams, announced, blind, tasks, answers>>

\* announce() takes from its queue, the application from the unknown queue.
Waiting(i) == subscribed[i] \in {"queued", "unknown"}

\* serve(): SUBSCRIBE_OK at once, and then the wait for the writer to choose a mode.
Serve(i) ==
  /\ Waiting(i)
  /\ subscribed' = [subscribed EXCEPT ![i] = "mode"]
  /\ ToSub("SubscribeOk", i)
  /\ UNCHANGED <<subscriber, toPub, streams, announced, viaAnnounce, blind, tasks, cancelled>>

\* Groups and objects are served until the end of the track or of the subscription;
\* a stream and datagrams only until the end of the track.
Mode(i, watches) ==
  /\ subscribed[i] = "mode"
  /\ subscribed' = [subscribed EXCEPT ![i] = "serving"]
  /\ blind' = IF watches THEN blind ELSE blind \cup {i}
  /\ UNCHANGED <<subscriber, toPub, toSub, streams, announced, viaAnnounce, tasks,
                 cancelled, answers>>

\* The last message: an error if it was not served before.
Last(i) == IF answers[i] = <<>> THEN "SubscribeError" ELSE "SubscribeDone"

\* Subscribed::drop sends the last message and removes the entry.
DropSubscribed(i) ==
  /\ subscribed' = [subscribed EXCEPT ![i] = "gone"]
  /\ ToSub(Last(i), i)
  /\ UNCHANGED <<subscriber, toPub, streams, announced, viaAnnounce, blind, tasks, cancelled>>

\* No such track, or the application has no use for it.
Reject(i) == Waiting(i) /\ DropSubscribed(i)

Blind(i) == subscribed[i] = "serving" /\ i \in blind
Watching(i) == subscribed[i] = "serving" /\ i \notin blind

\* mode(), next() or read() fails or returns the end, or a stream breaks off.
TrackEnds(i) ==
  /\ subscribed[i] = "mode" \/ Blind(i)
  /\ DropSubscribed(i)

\* The loop of serve_groups and serve_objects sets done and takes no more groups or
\* objects, but goes on until those in flight have ended.
SetDone(i) ==
  /\ Watching(i)
  /\ subscribed' = [subscribed EXCEPT ![i] = "ending"]
  /\ UNCHANGED <<subscriber, announced, viaAnnounce, blind, tasks, cancelled, answers,
                 toPub, toSub, streams>>

\* next() fails or returns the end.
NoMore(i) == SetDone(i)

\* Mutant: the end of the subscription is not looked at.
MSeesCancel(i) == FALSE
SeesCancel(i) == i \in cancelled

\* closed() returns.
ServeCancelled(i) == SeesCancel(i) /\ SetDone(i)

\* The else branch: done, and nothing in flight.
Finish(i) == subscribed[i] = "ending" /\ tasks[i] = 0 /\ DropSubscribed(i)

\* The next group or object gets a task of its own ...
StartTask(i) ==
  /\ Watching(i)
  /\ tasks[i] < MaxTasks
  /\ tasks' = [tasks EXCEPT ![i] = @ + 1]
  /\ UNCHANGED <<subscriber, announced, subscribed, viaAnnounce, blind, cancelled, answers,
                 toPub, toSub, streams>>

\* ... which ends with it, or with an error of its stream, and looks at nothing else.
EndTask(i) ==
  /\ tasks[i] > 0
  /\ tasks' = [tasks EXCEPT ![i] = @ - 1]
  /\ UNCHANGED <<subscriber, announced, subscribed, viaAnnounce, blind, cancelled, answers,
                 toPub, toSub, streams>>

\* A task opens the stream of its group or object, serve_track that of the track.
OpenStream(i) ==
  /\ tasks[i] > 0 \/ Blind(i)
  /\ i \notin streams
  /\ streams' = streams \cup {i}
  /\ UNCHANGED <<subscriber, publisher, toPub, toSub>>

StartAnnounce ==
  /\ ~announced
  /\ announced' = TRUE
  /\ UNCHANGED <<subscriber, serving, cancelled, answers, toPub, toSub, streams>>

\* announce() ends, by an error or because it is dropped: so are its tasks, with what they have in
\* flight, and then what was left in its queue.
\* Mutant: the queue is lost with the announcement.
MEndAnnounce ==
  /\ announced
  /\ announced' = FALSE
  /\ subscribed' = [i \in Ids |->
       IF subscribed[i] = "queued" THEN "gone"
       ELSE IF i \in viaAnnounce /\ subscribed[i] # "gone" THEN "dropping" ELSE subscribed[i]]
  /\ tasks' = [i \in Ids |-> IF i \in viaAnnounce THEN 0 ELSE tasks[i]]
  /\ UNCHANGED <<subscriber, viaAnnounce, blind, cancelled, answers, toPub, toSub, streams>>

EndAnnounce ==
  /\ announced
  /\ announced' = FALSE
  /\ subscribed' = [i \in Ids |->
       IF i \in viaAnnounce /\ subscribed[i] # "gone" THEN "dropping" ELSE subscribed[i]]
  /\ tasks' = [i \in Ids |-> IF i \in viaAnnounce THEN 0 ELSE tasks[i]]
  /\ UNCHANGED <<subscriber, viaAnnounce, blind, cancelled, answers, toPub, toSub, streams>>

Dropped(i) == subscribed[i] = "dropping" /\ DropSubscribed(i)

-----------------------------------------------------------------------------
Subscriber ==
  \/ \E i \in Ids : Subscribe(i) \/ Insert(i) \/ Return(i) \/ Drop(i) \/ RecvStream(i)
  \/ RecvSub

Publisher ==
  \/ RecvPub \/ StartAnnounce \/ EndAnnounce
  \/ \E i \in Ids :
       \/ Serve(i) \/ \E watches \in BOOLEAN : Mode(i, watches)
       \/ StartTask(i) \/ EndTask(i) \/ OpenStream(i)
       \/ Reject(i) \/ TrackEnds(i) \/ NoMore(i) \/ ServeCancelled(i) \/ Finish(i) \/ Dropped(i)

Next == Subscriber \/ Publisher

\* Messages arrive; subscribe() runs on; announce() takes what is queued; the loop of
\* serve_groups and serve_objects sees an end, and its own; a drop is finished.  Nobody
\* need read the unknown queue, choose a mode, or end a track, a group or an object.
Handled(i) ==
  \/ subscribed[i] = "queued" /\ (Reject(i) \/ Serve(i))
  \/ ServeCancelled(i) \/ Finish(i) \/ Dropped(i)

Fairness ==
  /\ WF_vars(RecvPub) /\ WF_vars(RecvSub)
  /\ \A i \in Ids : WF_vars(Insert(i)) /\ WF_vars(Return(i)) /\ WF_vars(Handled(i))

Spec == Init /\ [][Next]_vars
FairSpec == Spec /\ Fairness

-----------------------------------------------------------------------------
TypeOK ==
  /\ subscribe \in [Ids -> {"none", "sent", "live", "failed", "dropped"}]
  /\ entries \subseteq Ids
  /\ late \subseteq Ids
  /\ toPub \in Seq([type : {"Subscribe", "Unsubscribe"}, id : Ids])
  /\ toSub \in Seq([type : {"SubscribeOk", "SubscribeError", "SubscribeDone"}, id : Ids])
  /\ streams \subseteq Ids
  /\ announced \in BOOLEAN
  /\ subscribed \in
       [Ids -> {"none", "queued", "unknown", "mode", "serving", "ending", "dropping", "gone"}]
  /\ viaAnnounce \subseteq Ids
  /\ blind \subseteq Ids
  /\ tasks \in [Ids -> 0..MaxTasks]
  /\ cancelled \subseteq Ids
  /\ answers \in [Ids -> Seq({"SubscribeOk", "SubscribeError", "SubscribeDone"})]

(***************************************************************************)
(* Every subscription is answered once: with an error, or with Ok and then *)
(* Done.  No end of an announcement, of a track or of the subscription,    *)
(* however they meet, answers twice or loses the answer.                   *)
(***************************************************************************)
Whole == {<<"SubscribeError">>, <<"SubscribeOk", "SubscribeDone">>}

AnsweredOnce ==
  \A i \in Ids :
    /\ answers[i] \in Whole \cup {<<>>, <<"SubscribeOk">>}
    /\ subscribed[i] = "gone" <=> answers[i] \in Whole

(***************************************************************************)
(* The end of a subscription is not lost between the two sides: when the   *)
(* Subscribed is gone its last message is under way, or has closed the     *)
(* Subscribe and removed the entry, or came before the entry; and when the *)
(* Subscribe is dropped its UNSUBSCRIBE is under way, or has closed the    *)
(* Subscribed, or met one that was gone.                                   *)
(***************************************************************************)
LastSent(i) == \E k \in DOMAIN toSub : toSub[k].id = i /\ toSub[k].type # "SubscribeOk"

UnsubscribeSent(i) == \E k \in DOMAIN toPub : toPub[k] = [type |-> "Unsubscribe", id |-> i]

Learned(i) == i \notin entries /\ subscribe[i] \in {"failed", "dropped"}

EndUnderWay ==
  \A i \in Ids :
    /\ subscribed[i] = "gone" => LastSent(i) \/ Learned(i) \/ i \in late
    /\ subscribe[i] = "dropped" =>
         UnsubscribeSent(i) \/ i \in cancelled \/ subscribed[i] = "gone"

(***************************************************************************)
(* The subscriber learns of the end: subscribe() returns and its entry is  *)
(* removed, unless the answer came before the entry was inserted; then     *)
(* both are left behind.                                                   *)
(***************************************************************************)
SubscriberLearns ==
  \A i \in Ids :
    subscribed[i] = "gone" ~>
      (subscribe[i] = "dropped" /\ i \notin entries) \/ i \in late

(***************************************************************************)
(* A subscription that is dropped stops at the publisher, and its entry    *)
(* goes away.  Nothing can keep it but to be held for ever by what does    *)
(* not look at the cancellation: the unknown queue nobody reads, a track   *)
(* whose writer never chooses a mode, a stream or datagrams that do not    *)
(* end, or a group or object in flight that does not.                      *)
(***************************************************************************)
Held(i) ==
  \/ subscribed[i] \in {"unknown", "mode"}
  \/ Blind(i)
  \/ subscribed[i] = "ending" /\ tasks[i] > 0

UnsubscribeStops ==
  \A i \in Ids :
    subscribe[i] = "dropped" ~>
      \/ subscribed[i] = "gone" /\ (i \notin entries \/ i \in late)
      \/ []Held(i)
=============================================================================
