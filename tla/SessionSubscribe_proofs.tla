----------------------- MODULE SessionSubscribe_proofs -----------------------
(***************************************************************************)
(* Proofs about SessionSubscribe, for any number of subscriptions: its     *)
(* types, that every subscription is answered exactly once, and that no    *)
(* end of one is lost between the two sides.                               *)
(***************************************************************************)
EXTENDS SessionSubscribe, SequenceTheorems, TLAPS

(***************************************************************************)
(* The inductive invariant.  Fresh: a SUBSCRIBE is under way only to a     *)
(* publisher that has not heard of its id, and only once.  Answers: how    *)
(* far a Subscribed is in its life is how much it has answered.            *)
(***************************************************************************)
Answers ==
  \A i \in Ids :
    /\ subscribed[i] \in {"none", "queued", "unknown"} => answers[i] = <<>>
    /\ subscribed[i] \in {"mode", "serving", "ending"} => answers[i] = <<"SubscribeOk">>
    /\ subscribed[i] = "dropping" => answers[i] \in {<<>>, <<"SubscribeOk">>}
    /\ subscribed[i] = "gone" => answers[i] \in Whole

Fresh ==
  /\ \A i \in Ids : subscribe[i] = "none" => subscribed[i] = "none"
  /\ \A i \in viaAnnounce : subscribed[i] # "none"
  /\ \A k \in 1..Len(toPub) : toPub[k].type = "Subscribe" =>
       /\ subscribed[toPub[k].id] = "none"
       /\ subscribe[toPub[k].id] # "none"
       /\ \A l \in 1..Len(toPub) : toPub[l] = toPub[k] => l = k

IInv == TypeOK /\ Fresh /\ Answers

-----------------------------------------------------------------------------
(***************************************************************************)
(* Sequences.                                                              *)
(***************************************************************************)
LEMMA AppendFacts ==
  ASSUME NEW S, NEW s \in Seq(S), NEW x \in S
  PROVE  /\ Append(s, x) \in Seq(S)
         /\ Len(Append(s, x)) = Len(s) + 1
         /\ \A k \in 1..Len(s) : Append(s, x)[k] = s[k]
         /\ Append(s, x)[Len(s) + 1] = x
  OBVIOUS

LEMMA TailFacts ==
  ASSUME NEW S, NEW s \in Seq(S), s # <<>>
  PROVE  /\ Head(s) \in S
         /\ Head(s) = s[1]
         /\ Tail(s) \in Seq(S)
         /\ Len(Tail(s)) = Len(s) - 1
         /\ Len(s) \in Nat \ {0}
         /\ \A k \in 1..Len(Tail(s)) : Tail(s)[k] = s[k + 1]
  OBVIOUS

LEMMA OneElement == ASSUME NEW x PROVE Append(<<>>, x) = <<x>>
  OBVIOUS

LEMMA TwoElements ==
  ASSUME NEW S, NEW x \in S, NEW y \in S
  PROVE  Append(<<x>>, y) = <<x, y>>
  <1> DEFINE s == Append(<<x>>, y)
  <1>1. <<x>> \in Seq(S) /\ Len(<<x>>) = 1 /\ <<x>>[1] = x
    OBVIOUS
  <1>2. s \in Seq(S) /\ Len(s) = 2 /\ s[1] = x /\ s[2] = y
    BY <1>1
  <1>3. /\ <<x, y>> \in Seq(S) /\ Len(<<x, y>>) = 2
        /\ <<x, y>>[1] = x /\ <<x, y>>[2] = y
    OBVIOUS
  <1> HIDE DEF s
  <1>4. \A k \in 1..Len(s) : s[k] = <<x, y>>[k]
    BY <1>2, <1>3
  <1>5. s = <<x, y>>
    BY <1>2, <1>3, <1>4, SeqEqual
  <1> QED
    BY <1>5 DEF s

LEMMA AnswersDiffer ==
  /\ <<>> # <<"SubscribeOk">>
  /\ <<>> \notin Whole
  /\ <<"SubscribeOk">> \notin Whole
  <1>1. /\ Len(<<>>) = 0 /\ Len(<<"SubscribeOk">>) = 1
        /\ Len(<<"SubscribeError">>) = 1 /\ Len(<<"SubscribeOk", "SubscribeDone">>) = 2
    OBVIOUS
  <1>2. <<"SubscribeOk">>[1] # <<"SubscribeError">>[1]
    OBVIOUS
  <1> QED
    BY <1>1, <1>2 DEF Whole

ReqMsg == [type : {"Subscribe", "Unsubscribe"}, id : Ids]
AnsMsg == [type : {"SubscribeOk", "SubscribeError", "SubscribeDone"}, id : Ids]
AnsType == {"SubscribeOk", "SubscribeError", "SubscribeDone"}

LEMMA EmptyIsSeq == ASSUME NEW S PROVE <<>> \in Seq(S)
  OBVIOUS

(***************************************************************************)
(* Types.                                                                  *)
(***************************************************************************)
LEMMA InitType == Init => TypeOK
  <1> SUFFICES ASSUME Init PROVE TypeOK
    OBVIOUS
  <1>1. toPub \in Seq(ReqMsg) /\ toSub \in Seq(AnsMsg)
    BY EmptyIsSeq DEF Init
  <1>2. answers \in [Ids -> Seq(AnsType)]
    BY EmptyIsSeq DEF Init
  <1>3. tasks \in [Ids -> 0..MaxTasks]
    BY SessionSubscribeAssumption DEF Init
  <1> QED
    BY <1>1, <1>2, <1>3 DEF Init, TypeOK, ReqMsg, AnsMsg, AnsType

LEMMA ToPubType ==
  ASSUME TypeOK, NEW i \in Ids, NEW t \in {"Subscribe", "Unsubscribe"}, ToPub(t, i)
  PROVE  toPub' \in Seq(ReqMsg)
  <1>1. toPub \in Seq(ReqMsg) /\ [type |-> t, id |-> i] \in ReqMsg
    BY DEF TypeOK, ReqMsg
  <1> QED
    BY <1>1, AppendFacts DEF ToPub

LEMMA ToSubType ==
  ASSUME TypeOK, NEW i \in Ids, NEW t \in AnsType, ToSub(t, i)
  PROVE  toSub' \in Seq(AnsMsg) /\ answers' \in [Ids -> Seq(AnsType)]
  <1>1. toSub \in Seq(AnsMsg) /\ [type |-> t, id |-> i] \in AnsMsg
    BY DEF TypeOK, AnsMsg, AnsType
  <1>2. answers \in [Ids -> Seq(AnsType)]
    BY DEF TypeOK, AnsType
  <1>3. Append(answers[i], t) \in Seq(AnsType)
    BY <1>2, AppendFacts
  <1>4. answers' \in [Ids -> Seq(AnsType)]
    BY <1>2, <1>3 DEF ToSub
  <1>5. toSub' \in Seq(AnsMsg)
    BY <1>1, AppendFacts DEF ToSub
  <1> QED
    BY <1>4, <1>5

LEMMA LastType == \A i \in Ids : Last(i) \in AnsType
  BY DEF Last, AnsType

LEMMA NextType == TypeOK /\ [Next]_vars => TypeOK'
  <1> SUFFICES ASSUME TypeOK, [Next]_vars PROVE TypeOK'
    OBVIOUS
  <1> USE DEF TypeOK, ReqMsg, AnsMsg, AnsType
  <1>1. ASSUME NEW i \in Ids, Subscribe(i) PROVE TypeOK'
    <2>1. toPub' \in Seq(ReqMsg)
      BY <1>1, ToPubType DEF Subscribe
    <2> QED
      BY <1>1, <2>1 DEF Subscribe, publisher, serving
  <1>2. ASSUME NEW i \in Ids, Insert(i) PROVE TypeOK'
    BY <1>2 DEF Insert, publisher, serving
  <1>3. ASSUME NEW i \in Ids, Return(i) \/ Drop(i) PROVE TypeOK'
    <2>1. End(i)
      BY <1>3 DEF Return, Drop
    <2>2. toPub' \in Seq(ReqMsg)
      BY <2>1, ToPubType DEF End
    <2> QED
      BY <2>1, <2>2 DEF End, publisher, serving
  <1>4. ASSUME NEW i \in Ids, RecvStream(i) PROVE TypeOK'
    BY <1>4 DEF RecvStream, Fail, publisher, serving, subscriber
  <1>5. ASSUME RecvSub PROVE TypeOK'
    <2>1. toSub' \in Seq(AnsMsg) /\ Head(toSub) \in AnsMsg
      BY <1>5, TailFacts DEF RecvSub
    <2> QED
      BY <1>5, <2>1 DEF RecvSub, Fail, publisher, serving, subscriber
  <1>6. ASSUME RecvPub PROVE TypeOK'
    <2>1. toPub' \in Seq(ReqMsg) /\ Head(toPub) \in ReqMsg
      BY <1>6, TailFacts DEF RecvPub
    <2> QED
      BY <1>6, <2>1 DEF RecvPub, RecvSubscribe, RecvUnsubscribe, subscriber
  <1>7. ASSUME StartAnnounce \/ EndAnnounce PROVE TypeOK'
    <2>1. 0 \in 0..MaxTasks
      BY SessionSubscribeAssumption DEF SessionSubscribeAssumption
    <2>2. CASE StartAnnounce
      BY <2>2 DEF StartAnnounce, subscriber, serving
    <2>3. CASE EndAnnounce
      <3>1. tasks' \in [Ids -> 0..MaxTasks]
        BY <2>1, <2>3 DEF EndAnnounce
      <3> QED
        BY <2>3, <3>1 DEF EndAnnounce, subscriber
    <2> QED
      BY <1>7, <2>2, <2>3
  <1>8. ASSUME NEW i \in Ids, Serve(i) PROVE TypeOK'
    <2>1. toSub' \in Seq(AnsMsg) /\ answers' \in [Ids -> Seq(AnsType)]
      BY <1>8, ToSubType DEF Serve
    <2> QED
      BY <1>8, <2>1 DEF Serve, subscriber
  <1>9. ASSUME NEW i \in Ids, DropSubscribed(i) PROVE TypeOK'
    <2>1. toSub' \in Seq(AnsMsg) /\ answers' \in [Ids -> Seq(AnsType)]
      BY <1>9, ToSubType, LastType DEF DropSubscribed
    <2> QED
      BY <1>9, <2>1 DEF DropSubscribed, subscriber
  <1>10. ASSUME NEW i \in Ids, OpenStream(i) PROVE TypeOK'
    BY <1>10 DEF OpenStream, subscriber, publisher, serving
  <1>11. ASSUME UNCHANGED vars PROVE TypeOK'
    BY <1>11 DEF vars, subscriber, publisher, serving
  <1>12. ASSUME NEW i \in Ids, NEW w \in BOOLEAN, Mode(i, w) PROVE TypeOK'
    BY <1>12 DEF Mode, subscriber
  <1>13. ASSUME NEW i \in Ids, SetDone(i) PROVE TypeOK'
    BY <1>13 DEF SetDone, subscriber
  <1>14. ASSUME NEW i \in Ids, StartTask(i) \/ EndTask(i) PROVE TypeOK'
    <2>1. tasks[i] \in 0..MaxTasks /\ MaxTasks \in Nat
      BY SessionSubscribeAssumption
    <2>2. \E n \in 0..MaxTasks : tasks' = [tasks EXCEPT ![i] = n]
      BY <1>14, <2>1 DEF StartTask, EndTask
    <2> QED
      BY <1>14, <2>2 DEF StartTask, EndTask, subscriber
  <1> QED
    BY <1>1, <1>2, <1>3, <1>4, <1>5, <1>6, <1>7, <1>8, <1>9, <1>10, <1>11, <1>12, <1>13, <1>14
    DEF Next, Subscriber, Publisher, Reject, TrackEnds, NoMore, ServeCancelled, Finish, Dropped

-----------------------------------------------------------------------------
(***************************************************************************)
(* A Subscribed is dropped on its way, and not before or again.            *)
(***************************************************************************)
Dropping(i) == DropSubscribed(i) /\ subscribed[i] \notin {"none", "gone"}

LEMMA DropIsDropping ==
  ASSUME NEW i \in Ids, Reject(i) \/ TrackEnds(i) \/ Finish(i) \/ Dropped(i)
  PROVE  Dropping(i)
  BY DEF Reject, TrackEnds, Finish, Dropped, Waiting, Blind, Dropping

(***************************************************************************)
(* Fresh.                                                                  *)
(***************************************************************************)
LEMMA FreshKept ==
  ASSUME Fresh, toPub' = toPub, UNCHANGED viaAnnounce,
         subscribe \in [Ids -> {"none", "sent", "live", "failed", "dropped"}],
         toPub \in Seq(ReqMsg),
         \A i \in Ids : (subscribed'[i] = "none") <=> (subscribed[i] = "none"),
         \A i \in Ids : (subscribe'[i] = "none") <=> (subscribe[i] = "none"),
         viaAnnounce \subseteq Ids
  PROVE  Fresh'
  <1>1. \A k \in 1..Len(toPub) : toPub[k] \in ReqMsg
    OBVIOUS
  <1>2. \A k \in 1..Len(toPub) : toPub[k].id \in Ids
    BY <1>1 DEF ReqMsg
  <1> QED
    BY <1>2 DEF Fresh

LEMMA FreshUnsubscribe ==
  ASSUME TypeOK, Fresh, NEW i \in Ids, End(i), subscribe[i] # "none"
  PROVE  Fresh'
  <1> DEFINE m == [type |-> "Unsubscribe", id |-> i]
  <1>1. toPub \in Seq(ReqMsg) /\ m \in ReqMsg /\ m.type # "Subscribe"
    BY DEF TypeOK, ReqMsg
  <1>2. toPub' = Append(toPub, m)
    BY DEF End, ToPub
  <1>3. Len(toPub') = Len(toPub) + 1 /\ toPub'[Len(toPub) + 1] = m
    BY <1>1, <1>2, AppendFacts
  <1>4. \A k \in 1..Len(toPub) : toPub'[k] = toPub[k] /\ toPub[k] \in ReqMsg
    BY <1>1, <1>2, AppendFacts
  <1>5. \A j \in Ids : (subscribe'[j] = "none") <=> (subscribe[j] = "none")
    BY DEF End, TypeOK
  <1>6. subscribed' = subscribed /\ viaAnnounce' = viaAnnounce
    BY DEF End, publisher, serving
  <1>7. \A k \in 1..Len(toPub') : toPub'[k].type = "Subscribe" => k \in 1..Len(toPub)
    <2> SUFFICES ASSUME NEW k \in 1..Len(toPub'), k \notin 1..Len(toPub)
                 PROVE  toPub'[k].type # "Subscribe"
      OBVIOUS
    <2>1. k = Len(toPub) + 1
      BY <1>1, <1>3
    <2> QED
      BY <2>1, <1>1, <1>3
  <1>8. ASSUME NEW k \in 1..Len(toPub'), toPub'[k].type = "Subscribe"
        PROVE  /\ subscribed'[toPub'[k].id] = "none"
               /\ subscribe'[toPub'[k].id] # "none"
               /\ \A l \in 1..Len(toPub') : toPub'[l] = toPub'[k] => l = k
    <2>1. k \in 1..Len(toPub) /\ toPub'[k] = toPub[k] /\ toPub[k].id \in Ids
      BY <1>8, <1>7, <1>4 DEF ReqMsg
    <2>2. ASSUME NEW l \in 1..Len(toPub'), toPub'[l] = toPub'[k] PROVE l = k
      <3>1. l \in 1..Len(toPub)
        BY <2>2, <1>8, <1>7
      <3> QED
        BY <3>1, <2>1, <2>2, <1>4, <1>8 DEF Fresh
    <2> QED
      BY <1>8, <2>1, <2>2, <1>5, <1>6 DEF Fresh
  <1>9. /\ \A j \in Ids : subscribe'[j] = "none" => subscribed'[j] = "none"
        /\ \A j \in viaAnnounce' : subscribed'[j] # "none"
    BY <1>5, <1>6 DEF Fresh
  <1> QED
    BY <1>8, <1>9 DEF Fresh

LEMMA FreshSubscribe ==
  ASSUME TypeOK, Fresh, NEW i \in Ids, Subscribe(i)
  PROVE  Fresh'
  <1> DEFINE m == [type |-> "Subscribe", id |-> i]
  <1>1. toPub \in Seq(ReqMsg) /\ m \in ReqMsg /\ m.id = i
    BY DEF TypeOK, ReqMsg
  <1>2. toPub' = Append(toPub, m)
    BY DEF Subscribe, ToPub
  <1>3. Len(toPub') = Len(toPub) + 1 /\ toPub'[Len(toPub) + 1] = m
    BY <1>1, <1>2, AppendFacts
  <1>4. \A k \in 1..Len(toPub) : toPub'[k] = toPub[k] /\ toPub[k] \in ReqMsg
    BY <1>1, <1>2, AppendFacts
  <1>5. /\ subscribe[i] = "none" /\ subscribe'[i] = "sent"
        /\ \A j \in Ids \ {i} : subscribe'[j] = subscribe[j]
    BY DEF Subscribe, TypeOK
  <1>6. subscribed' = subscribed /\ viaAnnounce' = viaAnnounce
    BY DEF Subscribe, publisher, serving
  <1>7. \A k \in 1..Len(toPub) : toPub[k] # m
    BY <1>5, <1>1 DEF Fresh
  <1>8. ASSUME NEW k \in 1..Len(toPub'), toPub'[k].type = "Subscribe"
        PROVE  /\ subscribed'[toPub'[k].id] = "none"
               /\ subscribe'[toPub'[k].id] # "none"
               /\ \A l \in 1..Len(toPub') : toPub'[l] = toPub'[k] => l = k
    <2>1. CASE k \in 1..Len(toPub)
      <3>1. toPub'[k] = toPub[k] /\ toPub[k].id \in Ids /\ toPub[k] # m
        BY <2>1, <1>4, <1>7 DEF ReqMsg
      <3>2. \A l \in 1..Len(toPub') : l \in 1..Len(toPub) \/ l = Len(toPub) + 1
        BY <1>1, <1>3
      <3>3. \A l \in 1..Len(toPub') : toPub'[l] = toPub'[k] => l = k
        BY <3>1, <3>2, <1>3, <1>4, <1>8, <2>1 DEF Fresh
      <3>4. subscribed[toPub[k].id] = "none" /\ subscribe[toPub[k].id] # "none"
        BY <3>1, <1>8, <2>1 DEF Fresh
      <3>5. subscribe'[toPub[k].id] # "none"
        BY <3>1, <3>4, <1>5
      <3> QED
        BY <3>1, <3>3, <3>4, <3>5, <1>6
    <2>2. CASE k \notin 1..Len(toPub)
      <3>1. k = Len(toPub) + 1 /\ toPub'[k] = m
        BY <2>2, <1>1, <1>3
      <3>2. \A l \in 1..Len(toPub') : l \in 1..Len(toPub) \/ l = k
        BY <3>1, <1>1, <1>3
      <3>3. \A l \in 1..Len(toPub') : toPub'[l] = toPub'[k] => l = k
        BY <3>1, <3>2, <1>4, <1>7
      <3>4. subscribed[i] = "none"
        BY <1>5 DEF Fresh
      <3> QED
        BY <3>1, <3>3, <3>4, <1>1, <1>5, <1>6
    <2> QED
      BY <2>1, <2>2
  <1>9. /\ \A j \in Ids : subscribe'[j] = "none" => subscribed'[j] = "none"
        /\ \A j \in viaAnnounce' : subscribed'[j] # "none"
    BY <1>5, <1>6 DEF Fresh
  <1> QED
    BY <1>8, <1>9 DEF Fresh

LEMMA FreshRecvPub ==
  ASSUME TypeOK, Fresh, RecvPub
  PROVE  Fresh'
  <1> DEFINE m == Head(toPub)
  <1>1. toPub \in Seq(ReqMsg) /\ toPub # <<>> /\ toPub' = Tail(toPub)
    BY DEF TypeOK, ReqMsg, RecvPub
  <1>2. /\ m \in ReqMsg /\ m = toPub[1] /\ 1 \in 1..Len(toPub)
        /\ Len(toPub') = Len(toPub) - 1 /\ Len(toPub) \in Nat
        /\ \A k \in 1..Len(toPub') : toPub'[k] = toPub[k + 1]
    BY <1>1, TailFacts
  <1>3. m.id \in Ids
    BY <1>2 DEF ReqMsg
  <1>4. subscribe' = subscribe
    BY DEF RecvPub, subscriber
  <1>5. /\ \A j \in Ids \ {m.id} : subscribed'[j] = subscribed[j]
        /\ m.type # "Subscribe" => subscribed' = subscribed /\ viaAnnounce' = viaAnnounce
        /\ m.type = "Subscribe" => subscribed'[m.id] # "none"
        /\ viaAnnounce' \subseteq viaAnnounce \cup {m.id}
    <2>1. CASE m.type = "Subscribe"
      BY <2>1, <1>3 DEF RecvPub, RecvSubscribe, TypeOK
    <2>2. CASE m.type # "Subscribe"
      BY <2>2, <1>3 DEF RecvPub, RecvUnsubscribe
    <2> QED
      BY <2>1, <2>2
  <1>6. m.type = "Subscribe" => subscribe[m.id] # "none"
    BY <1>2 DEF Fresh
  <1>7. ASSUME NEW k \in 1..Len(toPub'), toPub'[k].type = "Subscribe"
        PROVE  /\ subscribed'[toPub'[k].id] = "none"
               /\ subscribe'[toPub'[k].id] # "none"
               /\ \A l \in 1..Len(toPub') : toPub'[l] = toPub'[k] => l = k
    <2>1. k + 1 \in 1..Len(toPub) /\ toPub'[k] = toPub[k + 1] /\ toPub[k + 1] \in ReqMsg
      BY <1>1, <1>2
    <2>2. toPub[k + 1].id \in Ids
      BY <2>1 DEF ReqMsg
    <2>3. /\ subscribed[toPub[k + 1].id] = "none"
          /\ subscribe[toPub[k + 1].id] # "none"
          /\ \A l \in 1..Len(toPub) : toPub[l] = toPub[k + 1] => l = k + 1
      BY <2>1, <1>7 DEF Fresh
    <2>4. ASSUME NEW l \in 1..Len(toPub'), toPub'[l] = toPub'[k] PROVE l = k
      <3>1. l + 1 \in 1..Len(toPub) /\ toPub[l + 1] = toPub[k + 1]
        BY <2>4, <2>1, <1>2
      <3>2. l + 1 = k + 1
        BY <3>1, <2>3
      <3> QED
        BY <3>2
    <2>5. subscribed'[toPub[k + 1].id] = "none"
      <3>1. CASE m.type # "Subscribe"
        BY <3>1, <1>5, <2>3
      <3>2. CASE m.type = "Subscribe" /\ toPub[k + 1].id # m.id
        BY <3>2, <1>5, <2>2, <2>3
      <3>3. CASE m.type = "Subscribe" /\ toPub[k + 1].id = m.id
        <4>1. toPub[k + 1] = m
          BY <3>3, <2>1, <1>2, <1>7 DEF ReqMsg
        <4>2. 1 = k + 1
          BY <4>1, <1>2, <2>3
        <4> QED
          BY <4>2
      <3> QED
        BY <3>1, <3>2, <3>3
    <2> QED
      BY <2>1, <2>3, <2>4, <2>5, <1>4
  <1>8. \A j \in Ids : subscribe'[j] = "none" => subscribed'[j] = "none"
    BY <1>4, <1>5, <1>6 DEF Fresh
  <1>9. \A j \in viaAnnounce' : subscribed'[j] # "none"
    <2>1. viaAnnounce \subseteq Ids
      BY DEF TypeOK
    <2> QED
      BY <2>1, <1>3, <1>5 DEF Fresh
  <1> QED
    BY <1>7, <1>8, <1>9 DEF Fresh

LEMMA NextFresh == TypeOK /\ Fresh /\ [Next]_vars => Fresh'
  <1> SUFFICES ASSUME TypeOK, Fresh, [Next]_vars PROVE Fresh'
    OBVIOUS
  <1> DEFINE Same(f, g) == \A i \in Ids : (g[i] = "none") <=> (f[i] = "none")
  <1>0. /\ subscribe \in [Ids -> {"none", "sent", "live", "failed", "dropped"}]
        /\ toPub \in Seq(ReqMsg) /\ viaAnnounce \subseteq Ids
    BY DEF TypeOK, ReqMsg
  <1>1. ASSUME NEW i \in Ids, Subscribe(i) PROVE Fresh'
    BY <1>1, FreshSubscribe
  <1>2. ASSUME NEW i \in Ids, Insert(i) \/ RecvStream(i) PROVE Fresh'
    <2>1. /\ toPub' = toPub /\ viaAnnounce' = viaAnnounce /\ subscribed' = subscribed
          /\ Same(subscribe, subscribe')
      BY <1>2 DEF Insert, RecvStream, Fail, TypeOK, publisher, serving, subscriber
    <2> QED
      BY <2>1, <1>0, FreshKept
  <1>3. ASSUME NEW i \in Ids, Return(i) \/ Drop(i) PROVE Fresh'
    BY <1>3, FreshUnsubscribe DEF Return, Drop
  <1>4. ASSUME RecvSub PROVE Fresh'
    <2>1. /\ toPub' = toPub /\ viaAnnounce' = viaAnnounce /\ subscribed' = subscribed
          /\ Same(subscribe, subscribe')
      BY <1>4 DEF RecvSub, Fail, TypeOK, publisher, serving, subscriber
    <2> QED
      BY <2>1, <1>0, FreshKept
  <1>5. ASSUME RecvPub PROVE Fresh'
    BY <1>5, FreshRecvPub
  <1>6. ASSUME StartAnnounce \/ EndAnnounce PROVE Fresh'
    <2>1. /\ toPub' = toPub /\ viaAnnounce' = viaAnnounce /\ subscribe' = subscribe
          /\ Same(subscribed, subscribed')
      BY <1>6 DEF StartAnnounce, EndAnnounce, Fresh, TypeOK, serving, subscriber
    <2> QED
      BY <2>1, <1>0, FreshKept
  <1>7. ASSUME NEW i \in Ids, Serve(i) \/ (\E w \in BOOLEAN : Mode(i, w)) \/ SetDone(i)
                              \/ Dropping(i)
        PROVE  Fresh'
    <2>1. /\ toPub' = toPub /\ viaAnnounce' = viaAnnounce /\ subscribe' = subscribe
      BY <1>7 DEF Serve, Mode, SetDone, Dropping, DropSubscribed, subscriber
    <2>2. Same(subscribed, subscribed')
      BY <1>7 DEF Serve, Mode, SetDone, Dropping, DropSubscribed, Waiting, Watching, TypeOK
    <2> QED
      BY <2>1, <2>2, <1>0, FreshKept
  <1>8. ASSUME NEW i \in Ids, OpenStream(i) \/ StartTask(i) \/ EndTask(i) PROVE Fresh'
    BY <1>8, <1>0, FreshKept DEF OpenStream, StartTask, EndTask, publisher, serving, subscriber
  <1>9. ASSUME UNCHANGED vars PROVE Fresh'
    BY <1>9, <1>0, FreshKept DEF vars, publisher, serving, subscriber
  <1> QED
    BY <1>1, <1>2, <1>3, <1>4, <1>5, <1>6, <1>7, <1>8, <1>9, DropIsDropping
    DEF Next, Subscriber, Publisher, NoMore, ServeCancelled

-----------------------------------------------------------------------------
(***************************************************************************)
(* Answers.                                                                *)
(***************************************************************************)
LEMMA AnswerAdded ==
  ASSUME TypeOK, NEW i \in Ids, NEW t \in AnsType, ToSub(t, i)
  PROVE  /\ answers'[i] = Append(answers[i], t)
         /\ \A j \in Ids \ {i} : answers'[j] = answers[j]
         /\ answers[i] = <<>> => answers'[i] = <<t>>
         /\ answers[i] = <<"SubscribeOk">> => answers'[i] = <<"SubscribeOk", t>>
  <1>1. /\ answers'[i] = Append(answers[i], t)
        /\ \A j \in Ids \ {i} : answers'[j] = answers[j]
    BY DEF ToSub, TypeOK
  <1>2. Append(<<>>, t) = <<t>>
    BY OneElement
  <1>3. Append(<<"SubscribeOk">>, t) = <<"SubscribeOk", t>>
    BY TwoElements DEF AnsType
  <1> QED
    BY <1>1, <1>2, <1>3

LEMMA NextAnswers == TypeOK /\ Fresh /\ Answers /\ [Next]_vars => Answers'
  <1> SUFFICES ASSUME TypeOK, Fresh, Answers, [Next]_vars PROVE Answers'
    OBVIOUS
  <1>1. ASSUME answers' = answers, subscribed' = subscribed PROVE Answers'
    BY <1>1 DEF Answers, Whole
  <1>2. ASSUME RecvPub PROVE Answers'
    <2> DEFINE m == Head(toPub)
    <2>1. /\ toPub \in Seq(ReqMsg) /\ toPub # <<>> /\ answers' = answers
      BY <1>2 DEF RecvPub, TypeOK, ReqMsg
    <2>2. m \in ReqMsg /\ m = toPub[1] /\ 1 \in 1..Len(toPub)
      BY <2>1, TailFacts
    <2>3. CASE m.type # "Subscribe"
      BY <2>1, <2>3, <1>1, <1>2 DEF RecvPub, RecvUnsubscribe
    <2>4. CASE m.type = "Subscribe"
      <3>1. m.id \in Ids /\ subscribed[m.id] = "none"
        BY <2>2, <2>4 DEF Fresh, ReqMsg
      <3>2. answers[m.id] = <<>>
        BY <3>1 DEF Answers
      <3>3. /\ subscribed'[m.id] \in {"queued", "unknown"}
            /\ \A j \in Ids \ {m.id} : subscribed'[j] = subscribed[j]
        BY <1>2, <2>4, <3>1 DEF RecvPub, RecvSubscribe, TypeOK
      <3>4. ASSUME NEW j \in Ids
            PROVE  /\ subscribed'[j] \in {"none", "queued", "unknown"} => answers[j] = <<>>
                   /\ subscribed'[j] \in {"mode", "serving", "ending"} =>
                        answers[j] = <<"SubscribeOk">>
                   /\ subscribed'[j] = "dropping" => answers[j] \in {<<>>, <<"SubscribeOk">>}
                   /\ subscribed'[j] = "gone" => answers[j] \in Whole
        BY <3>2, <3>3 DEF Answers
      <3> QED
        BY <3>4, <2>1 DEF Answers, Whole
    <2> QED
      BY <2>3, <2>4
  <1>3. ASSUME EndAnnounce PROVE Answers'
    <2>1. answers' = answers
      BY <1>3 DEF EndAnnounce
    <2>2. ASSUME NEW j \in Ids
          PROVE  \/ subscribed'[j] = subscribed[j]
                 \/ subscribed'[j] = "dropping" /\ subscribed[j] \notin {"none", "gone"}
      <3>1. subscribed' = [x \in Ids |->
              IF x \in viaAnnounce /\ subscribed[x] # "gone" THEN "dropping" ELSE subscribed[x]]
        BY <1>3 DEF EndAnnounce
      <3>2. j \in viaAnnounce => subscribed[j] # "none"
        BY DEF Fresh
      <3>3. subscribed'[j] =
              IF j \in viaAnnounce /\ subscribed[j] # "gone" THEN "dropping" ELSE subscribed[j]
        BY <3>1
      <3> QED
        BY <3>2, <3>3
    <2>3. \A j \in Ids : subscribed[j] \in
            {"none", "queued", "unknown", "mode", "serving", "ending", "dropping", "gone"}
      BY DEF TypeOK
    <2>4. ASSUME NEW j \in Ids
          PROVE  /\ subscribed'[j] \in {"none", "queued", "unknown"} => answers[j] = <<>>
                 /\ subscribed'[j] \in {"mode", "serving", "ending"} =>
                      answers[j] = <<"SubscribeOk">>
                 /\ subscribed'[j] = "dropping" => answers[j] \in {<<>>, <<"SubscribeOk">>}
                 /\ subscribed'[j] = "gone" => answers[j] \in Whole
      BY <2>2, <2>3 DEF Answers
    <2> QED
      BY <2>1, <2>4 DEF Answers, Whole
  <1>4. ASSUME NEW i \in Ids, Serve(i) PROVE Answers'
    <2>1. answers[i] = <<>> /\ ToSub("SubscribeOk", i)
      BY <1>4 DEF Serve, Waiting, Answers
    <2>2. answers'[i] = <<"SubscribeOk">> /\ \A j \in Ids \ {i} : answers'[j] = answers[j]
      BY <2>1, AnswerAdded DEF AnsType
    <2>3. subscribed'[i] = "mode" /\ \A j \in Ids \ {i} : subscribed'[j] = subscribed[j]
      BY <1>4 DEF Serve, TypeOK
    <2> QED
      BY <2>2, <2>3 DEF Answers, Whole
  <1>5. ASSUME NEW i \in Ids, Dropping(i) PROVE Answers'
    <2>1. /\ subscribed'[i] = "gone" /\ \A j \in Ids \ {i} : subscribed'[j] = subscribed[j]
          /\ ToSub(Last(i), i)
      BY <1>5 DEF Dropping, DropSubscribed, TypeOK
    <2>2. subscribed[i] \in {"queued", "unknown", "mode", "serving", "ending", "dropping"}
      BY <1>5 DEF Dropping, TypeOK
    <2>3. answers[i] = <<>> \/ answers[i] = <<"SubscribeOk">>
      BY <2>2 DEF Answers
    <2>4. answers'[i] \in Whole
      <3>1. CASE answers[i] = <<>>
        BY <3>1, <2>1, AnswerAdded, LastType DEF Last, Whole
      <3>2. CASE answers[i] = <<"SubscribeOk">>
        <4>1. Last(i) = "SubscribeDone"
          BY <3>2, AnswersDiffer DEF Last
        <4> QED
          BY <3>2, <4>1, <2>1, AnswerAdded, LastType DEF Whole
      <3> QED
        BY <2>3, <3>1, <3>2
    <2>5. \A j \in Ids \ {i} : answers'[j] = answers[j]
      BY <2>1, AnswerAdded, LastType
    <2> QED
      BY <2>1, <2>4, <2>5 DEF Answers, Whole
  <1>6. ASSUME NEW i \in Ids, SetDone(i) \/ \E w \in BOOLEAN : Mode(i, w) PROVE Answers'
    <2>1. /\ subscribed[i] \in {"mode", "serving"} /\ subscribed'[i] \in {"serving", "ending"}
          /\ \A j \in Ids \ {i} : subscribed'[j] = subscribed[j]
          /\ answers' = answers
      BY <1>6 DEF SetDone, Mode, Watching, TypeOK
    <2> QED
      BY <2>1 DEF Answers, Whole
  <1>7. ASSUME \/ Subscriber \/ StartAnnounce \/ UNCHANGED vars
               \/ \E i \in Ids : OpenStream(i) \/ StartTask(i) \/ EndTask(i)
        PROVE  Answers'
    <2>1. answers' = answers /\ subscribed' = subscribed
      <3>1. CASE Subscriber
        BY <3>1 DEF Subscriber, Subscribe, Insert, Return, Drop, End, RecvStream, RecvSub,
                    publisher, serving
      <3>2. CASE StartAnnounce \/ UNCHANGED vars
        BY <3>2 DEF StartAnnounce, vars, publisher, serving
      <3>3. CASE \E i \in Ids : OpenStream(i) \/ StartTask(i) \/ EndTask(i)
        BY <3>3 DEF OpenStream, StartTask, EndTask, publisher, serving
      <3> QED
        BY <1>7, <3>1, <3>2, <3>3
    <2> QED
      BY <2>1, <1>1
  <1> QED
    BY <1>2, <1>3, <1>4, <1>5, <1>6, <1>7, DropIsDropping
    DEF Next, Publisher, NoMore, ServeCancelled

-----------------------------------------------------------------------------
LEMMA InitIInv == Init => IInv
  <1> SUFFICES ASSUME Init PROVE IInv
    OBVIOUS
  <1>1. TypeOK
    BY InitType
  <1>2. Fresh
    BY DEF Init, Fresh
  <1>3. Answers
    BY DEF Init, Answers
  <1> QED
    BY <1>1, <1>2, <1>3 DEF IInv

LEMMA NextIInv == IInv /\ [Next]_vars => IInv'
  BY NextType, NextFresh, NextAnswers DEF IInv

LEMMA AnswersGiveOnce == TypeOK /\ Answers => AnsweredOnce
  <1> SUFFICES ASSUME TypeOK, Answers, NEW i \in Ids
               PROVE  /\ answers[i] \in Whole \cup {<<>>, <<"SubscribeOk">>}
                      /\ subscribed[i] = "gone" <=> answers[i] \in Whole
    BY DEF AnsweredOnce
  <1>1. subscribed[i] \in
          {"none", "queued", "unknown", "mode", "serving", "ending", "dropping", "gone"}
    BY DEF TypeOK
  <1> QED
    BY <1>1, AnswersDiffer DEF Answers

(***************************************************************************)
(* The variables of a session's subscriptions keep their types.            *)
(***************************************************************************)
THEOREM TypeCorrect == Spec => []TypeOK
  <1>1. IInv => TypeOK
    BY DEF IInv
  <1> QED
    BY <1>1, InitIInv, NextIInv, PTL DEF Spec

(***************************************************************************)
(* Each SUBSCRIBE is answered once, with an error or with Ok and then      *)
(* Done, whichever of the ends in subscribed.rs and publisher.rs wins.     *)
(***************************************************************************)
THEOREM OneAnswer == Spec => []AnsweredOnce
  <1>1. IInv => AnsweredOnce
    BY AnswersGiveOnce DEF IInv
  <1> QED
    BY <1>1, InitIInv, NextIInv, PTL DEF Spec

-----------------------------------------------------------------------------
(***************************************************************************)
(* No end is lost: EndUnderWay is inductive with the entries.  A live      *)
(* Subscribe has its entry, and an entry is that of a Subscribe that was   *)
(* inserted and has not failed.                                            *)
(***************************************************************************)
Entered ==
  \A i \in Ids :
    /\ subscribe[i] = "live" => i \in entries
    /\ i \in entries => subscribe[i] \in {"live", "dropped"}

\* The steps of a Subscribe itself.
StepOf(i) ==
  /\ \A j \in Ids \ {i} : subscribe'[j] = subscribe[j]
  /\ \/ subscribe[i] = "none" /\ subscribe'[i] = "sent" /\ entries' = entries
     \/ subscribe[i] = "sent" /\ subscribe'[i] = "live" /\ entries' = entries \cup {i}
     \/ /\ subscribe[i] \in {"live", "failed"} /\ subscribe'[i] = "dropped"
        /\ entries' = entries

LEMMA OwnStep ==
  ASSUME TypeOK, NEW i \in Ids, Subscribe(i) \/ Insert(i) \/ Return(i) \/ Drop(i)
  PROVE  StepOf(i) /\ subscribed' = subscribed /\ toSub' = toSub /\ late' = late
  <1>1. subscribe \in [Ids -> {"none", "sent", "live", "failed", "dropped"}]
    BY DEF TypeOK
  <1>2. CASE Subscribe(i)
    BY <1>1, <1>2 DEF Subscribe, StepOf, publisher, serving
  <1>3. CASE Insert(i)
    BY <1>1, <1>3 DEF Insert, StepOf, publisher, serving
  <1>4. CASE Return(i) \/ Drop(i)
    BY <1>1, <1>4 DEF Return, Drop, End, StepOf, publisher, serving
  <1> QED
    BY <1>2, <1>3, <1>4

LEMMA NextEntered == TypeOK /\ Entered /\ [Next]_vars => Entered'
  <1> SUFFICES ASSUME TypeOK, Entered, [Next]_vars PROVE Entered'
    OBVIOUS
  <1>1. ASSUME NEW i \in Ids, Subscribe(i) \/ Insert(i) \/ Return(i) \/ Drop(i)
        PROVE  Entered'
    <2>1. StepOf(i)
      BY <1>1, OwnStep
    <2> QED
      BY <2>1 DEF StepOf, Entered
  <1>2. ASSUME NEW i \in Ids, Fail(i) PROVE Entered'
    BY <1>2 DEF Fail, Entered, TypeOK
  <1>3. ASSUME UNCHANGED <<subscribe, entries>> PROVE Entered'
    BY <1>3 DEF Entered
  <1>4. ASSUME RecvSub PROVE Entered'
    <2>1. Head(toSub) \in AnsMsg
      BY <1>4, TailFacts DEF RecvSub, TypeOK, AnsMsg
    <2>2. Head(toSub).id \in Ids
      BY <2>1 DEF AnsMsg
    <2> QED
      BY <1>2, <1>3, <1>4, <2>2 DEF RecvSub, subscriber
  <1>5. ASSUME NEW i \in Ids, RecvStream(i) PROVE Entered'
    BY <1>2, <1>3, <1>5 DEF RecvStream, subscriber
  <1>6. ASSUME Publisher \/ UNCHANGED vars PROVE Entered'
    <2>1. UNCHANGED <<subscribe, entries>>
      BY <1>6 DEF Publisher, RecvPub, StartAnnounce, EndAnnounce, Serve, Mode, StartTask,
                  EndTask, Reject, TrackEnds, NoMore, ServeCancelled, SetDone, Finish, Dropped,
                  DropSubscribed, OpenStream, vars, subscriber
    <2> QED
      BY <2>1, <1>3
  <1> QED
    BY <1>1, <1>4, <1>5, <1>6 DEF Next, Subscriber

(***************************************************************************)
(* A message stays where it is until it is taken.                          *)
(***************************************************************************)
LEMMA MessageStays ==
  ASSUME NEW S, NEW s \in Seq(S), NEW m \in S
  PROVE  \A k \in DOMAIN s : k \in DOMAIN Append(s, m) /\ Append(s, m)[k] = s[k]
  <1>1. DOMAIN s = 1..Len(s) /\ Len(s) \in Nat
    OBVIOUS
  <1>2. Append(s, m) \in Seq(S) /\ Len(Append(s, m)) = Len(s) + 1
    BY AppendFacts
  <1>3. DOMAIN Append(s, m) = 1..(Len(s) + 1)
    BY <1>2
  <1> QED
    BY <1>1, <1>3, AppendFacts

LEMMA MessageAdded ==
  ASSUME NEW S, NEW s \in Seq(S), NEW m \in S
  PROVE  \E k \in DOMAIN Append(s, m) : Append(s, m)[k] = m
  <1>1. Append(s, m) \in Seq(S) /\ Len(Append(s, m)) = Len(s) + 1 /\ Len(s) \in Nat
    BY AppendFacts
  <1>2. Len(s) + 1 \in DOMAIN Append(s, m)
    BY <1>1
  <1> QED
    BY <1>2, AppendFacts

LEMMA MessageTaken ==
  ASSUME NEW S, NEW s \in Seq(S), s # <<>>
  PROVE  \A k \in DOMAIN s :
           s[k] = Head(s) \/ \E l \in DOMAIN Tail(s) : Tail(s)[l] = s[k]
  <1>1. DOMAIN s = 1..Len(s) /\ DOMAIN Tail(s) = 1..Len(Tail(s))
    BY TailFacts
  <1> SUFFICES ASSUME NEW k \in DOMAIN s, k # 1
               PROVE  \E l \in DOMAIN Tail(s) : Tail(s)[l] = s[k]
    BY TailFacts
  <1>2. k - 1 \in DOMAIN Tail(s) /\ k = (k - 1) + 1
    BY <1>1, TailFacts
  <1>3. Tail(s)[k - 1] = s[k]
    BY <1>1, <1>2, TailFacts
  <1> QED
    BY <1>2, <1>3

Unsubscribe(i) == [type |-> "Unsubscribe", id |-> i]

LEMMA SentStays ==
  ASSUME TypeOK, NEW i \in Ids
  PROVE  /\ toSub' = toSub => (LastSent(i) => LastSent(i)')
         /\ toPub' = toPub => (UnsubscribeSent(i) => UnsubscribeSent(i)')
         /\ \A t \in AnsType, j \in Ids : ToSub(t, j) => (LastSent(i) => LastSent(i)')
         /\ \A t \in {"Subscribe", "Unsubscribe"}, j \in Ids :
              ToPub(t, j) => (UnsubscribeSent(i) => UnsubscribeSent(i)')
  <1>1. toSub \in Seq(AnsMsg) /\ toPub \in Seq(ReqMsg)
    BY DEF TypeOK, AnsMsg, ReqMsg
  <1>2. /\ toSub' = toSub => (LastSent(i) => LastSent(i)')
        /\ toPub' = toPub => (UnsubscribeSent(i) => UnsubscribeSent(i)')
    BY DEF LastSent, UnsubscribeSent
  <1>3. ASSUME NEW t \in AnsType, NEW j \in Ids, ToSub(t, j), LastSent(i) PROVE LastSent(i)'
    <2>1. [type |-> t, id |-> j] \in AnsMsg
      BY DEF AnsMsg, AnsType
    <2>2. \A k \in DOMAIN toSub : k \in DOMAIN toSub' /\ toSub'[k] = toSub[k]
      BY <1>1, <1>3, <2>1, MessageStays DEF ToSub
    <2> QED
      BY <1>3, <2>2 DEF LastSent
  <1>4. ASSUME NEW t \in {"Subscribe", "Unsubscribe"}, NEW j \in Ids, ToPub(t, j),
               UnsubscribeSent(i)
        PROVE  UnsubscribeSent(i)'
    <2>1. [type |-> t, id |-> j] \in ReqMsg
      BY DEF ReqMsg
    <2>2. \A k \in DOMAIN toPub : k \in DOMAIN toPub' /\ toPub'[k] = toPub[k]
      BY <1>1, <1>4, <2>1, MessageStays DEF ToPub
    <2> QED
      BY <1>4, <2>2 DEF UnsubscribeSent
  <1> QED
    BY <1>2, <1>3, <1>4

\* What a step has to keep of one subscription.
Closing(i) == subscribed[i] = "gone" => LastSent(i) \/ Learned(i) \/ i \in late

Stopping(i) ==
  subscribe[i] = "dropped" => UnsubscribeSent(i) \/ i \in cancelled \/ subscribed[i] = "gone"

LEMMA ClosingStays ==
  ASSUME NEW i \in Ids, Closing(i),
         subscribed'[i] = "gone" => subscribed[i] = "gone",
         LastSent(i) => LastSent(i)',
         Learned(i) => Learned(i)',
         late \subseteq late'
  PROVE  Closing(i)'
  BY DEF Closing

LEMMA StoppingStays ==
  ASSUME NEW i \in Ids, Stopping(i),
         subscribe'[i] = "dropped" => subscribe[i] = "dropped",
         UnsubscribeSent(i) => UnsubscribeSent(i)',
         cancelled \subseteq cancelled',
         subscribed[i] = "gone" => subscribed'[i] = "gone"
  PROVE  Stopping(i)'
  BY DEF Stopping

-----------------------------------------------------------------------------
(***************************************************************************)
(* The last message reaches the subscriber, or what it finds there already *)
(* knows.                                                                  *)
(***************************************************************************)
LEMMA NextClosing ==
  ASSUME TypeOK, Fresh, Answers, Entered, [Next]_vars, NEW i \in Ids, Closing(i)
  PROVE  Closing(i)'
  <1>0. /\ toSub \in Seq(AnsMsg)
        /\ subscribe[i] \in {"none", "sent", "live", "failed", "dropped"}
    BY DEF TypeOK, AnsMsg
  <1>1. ASSUME NEW j \in Ids, Subscribe(j) \/ Insert(j) \/ Return(j) \/ Drop(j)
        PROVE  Closing(i)'
    <2>1. StepOf(j) /\ subscribed' = subscribed /\ toSub' = toSub /\ late' = late
      BY <1>1, OwnStep
    <2>2. Learned(i) => Learned(i)'
      BY <2>1 DEF Learned, StepOf
    <2>3. LastSent(i) => LastSent(i)'
      BY <2>1, SentStays
    <2> QED
      BY <2>1, <2>2, <2>3, ClosingStays
  <1>2. ASSUME NEW j \in Ids, RecvStream(j) PROVE Closing(i)'
    <2>1. /\ subscribed' = subscribed /\ toSub' = toSub /\ late' = late
          /\ UNCHANGED <<subscribe, entries>> \/ Fail(j)
      BY <1>2 DEF RecvStream, publisher, serving, subscriber
    <2>2. Learned(i) => Learned(i)'
      BY <2>1 DEF Learned, Fail, TypeOK
    <2>3. LastSent(i) => LastSent(i)'
      BY <2>1, SentStays
    <2> QED
      BY <2>1, <2>2, <2>3, ClosingStays
  <1>3. ASSUME RecvSub PROVE Closing(i)'
    <2> DEFINE m == Head(toSub)
    <2>1. /\ m \in AnsMsg /\ toSub # <<>> /\ toSub' = Tail(toSub) /\ subscribed' = subscribed
      BY <1>0, <1>3, TailFacts DEF RecvSub, publisher, serving
    <2>2. m.id \in Ids
      BY <2>1 DEF AnsMsg
    <2>3. /\ late \subseteq late'
          /\ Learned(i) => Learned(i)'
      BY <1>3, <2>2 DEF RecvSub, Fail, Learned, subscriber, TypeOK
    <2>4. LastSent(i) /\ ~(m.id = i /\ m.type # "SubscribeOk") => LastSent(i)'
      <3>1. \A k \in DOMAIN toSub :
              toSub[k] = m \/ \E l \in DOMAIN toSub' : toSub'[l] = toSub[k]
        BY <1>0, <2>1, MessageTaken
      <3> QED
        BY <3>1 DEF LastSent
    <2>5. ASSUME m.id = i, m.type # "SubscribeOk", subscribed[i] = "gone"
          PROVE  Learned(i)' \/ i \in late'
      <3>1. CASE i \in entries
        <4>1. Fail(i) /\ subscribe[i] \in {"live", "dropped"}
          BY <1>3, <2>5, <3>1 DEF RecvSub, Entered
        <4> QED
          BY <4>1 DEF Fail, Learned, TypeOK
      <3>2. CASE i \notin entries
        <4>1. subscribe[i] \notin {"none", "live"}
          BY <2>5, <3>2 DEF Fresh, Entered
        <4>2. /\ UNCHANGED <<subscribe, entries>>
              /\ late' = IF subscribe[i] = "sent" THEN late \cup {i} ELSE late
          BY <1>3, <2>5, <3>2 DEF RecvSub
        <4> QED
          BY <1>0, <3>2, <4>1, <4>2 DEF Learned
      <3> QED
        BY <3>1, <3>2
    <2> QED
      BY <2>1, <2>3, <2>4, <2>5 DEF Closing
  <1>4. ASSUME RecvPub PROVE Closing(i)'
    <2>1. /\ UNCHANGED <<subscribe, entries, late, toSub>>
          /\ subscribed'[i] = "gone" => subscribed[i] = "gone"
      BY <1>4 DEF RecvPub, RecvSubscribe, RecvUnsubscribe, subscriber, TypeOK
    <2> QED
      BY <2>1, SentStays, ClosingStays DEF Learned
  <1>5. ASSUME StartAnnounce \/ EndAnnounce PROVE Closing(i)'
    <2>1. /\ UNCHANGED <<subscribe, entries, late, toSub>>
          /\ subscribed'[i] = "gone" => subscribed[i] = "gone"
      BY <1>5 DEF StartAnnounce, EndAnnounce, subscriber, serving, TypeOK
    <2> QED
      BY <2>1, SentStays, ClosingStays DEF Learned
  <1>6. ASSUME NEW j \in Ids, Serve(j) PROVE Closing(i)'
    <2>1. /\ UNCHANGED <<subscribe, entries, late>> /\ ToSub("SubscribeOk", j)
          /\ subscribed'[i] = "gone" => subscribed[i] = "gone"
      BY <1>6 DEF Serve, subscriber, TypeOK
    <2>2. LastSent(i) => LastSent(i)'
      BY <2>1, SentStays DEF AnsType
    <2> QED
      BY <2>1, <2>2, ClosingStays DEF Learned
  <1>7. ASSUME NEW j \in Ids, DropSubscribed(j) PROVE Closing(i)'
    <2> DEFINE m == [type |-> Last(j), id |-> j]
    <2>1. /\ UNCHANGED <<subscribe, entries, late>> /\ ToSub(Last(j), j)
          /\ i # j => subscribed'[i] = subscribed[i]
      BY <1>7 DEF DropSubscribed, subscriber, TypeOK
    <2>2. Last(j) \in AnsType /\ Last(j) # "SubscribeOk"
      BY DEF Last, AnsType
    <2>3. LastSent(i) => LastSent(i)'
      BY <2>1, <2>2, SentStays
    <2>4. CASE i # j
      BY <2>1, <2>3, <2>4, ClosingStays DEF Learned
    <2>5. CASE i = j
      <3>1. m \in AnsMsg /\ toSub' = Append(toSub, m)
        BY <2>1, <2>2 DEF AnsMsg, AnsType, ToSub
      <3>2. \E k \in DOMAIN toSub' : toSub'[k] = m
        BY <1>0, <3>1, MessageAdded
      <3>3. LastSent(i)'
        BY <2>2, <2>5, <3>2 DEF LastSent
      <3> QED
        BY <3>3 DEF Closing
    <2> QED
      BY <2>4, <2>5
  <1>8. ASSUME \/ UNCHANGED vars
               \/ \E j \in Ids : \/ OpenStream(j) \/ StartTask(j) \/ EndTask(j) \/ SetDone(j)
                                 \/ \E w \in BOOLEAN : Mode(j, w)
        PROVE  Closing(i)'
    <2>1. /\ UNCHANGED <<subscribe, entries, late, toSub>>
          /\ subscribed'[i] = "gone" => subscribed[i] = "gone"
      BY <1>8 DEF OpenStream, StartTask, EndTask, SetDone, Mode, vars, subscriber, publisher,
                  serving, TypeOK
    <2> QED
      BY <2>1, SentStays, ClosingStays DEF Learned
  <1> QED
    BY <1>1, <1>2, <1>3, <1>4, <1>5, <1>6, <1>7, <1>8
    DEF Next, Subscriber, Publisher, Reject, TrackEnds, NoMore, ServeCancelled, Finish, Dropped

(***************************************************************************)
(* The UNSUBSCRIBE reaches the publisher.                                  *)
(***************************************************************************)
LEMMA NextStopping ==
  ASSUME TypeOK, Fresh, [Next]_vars, NEW i \in Ids, Stopping(i)
  PROVE  Stopping(i)'
  <1>0. toPub \in Seq(ReqMsg)
    BY DEF TypeOK, ReqMsg
  <1>1. ASSUME NEW j \in Ids, Subscribe(j) \/ Insert(j) PROVE Stopping(i)'
    <2>1. /\ UNCHANGED <<subscribed, cancelled>>
          /\ toPub' = toPub \/ ToPub("Subscribe", j)
          /\ subscribe'[i] = "dropped" => subscribe[i] = "dropped"
      BY <1>1 DEF Subscribe, Insert, publisher, serving, TypeOK
    <2>2. UnsubscribeSent(i) => UnsubscribeSent(i)'
      BY <2>1, SentStays
    <2> QED
      BY <2>1, <2>2, StoppingStays
  <1>2. ASSUME NEW j \in Ids, End(j) PROVE Stopping(i)'
    <2>1. /\ UNCHANGED <<subscribed, cancelled>> /\ ToPub("Unsubscribe", j)
          /\ i # j => subscribe'[i] = subscribe[i]
      BY <1>2 DEF End, publisher, serving, TypeOK
    <2>2. UnsubscribeSent(i) => UnsubscribeSent(i)'
      BY <2>1, SentStays
    <2>3. CASE i # j
      BY <2>1, <2>2, <2>3, StoppingStays
    <2>4. CASE i = j
      <3>1. Unsubscribe(i) \in ReqMsg /\ toPub' = Append(toPub, Unsubscribe(i))
        BY <2>1, <2>4 DEF ReqMsg, ToPub, Unsubscribe
      <3>2. UnsubscribeSent(i)'
        BY <1>0, <3>1, MessageAdded DEF UnsubscribeSent, Unsubscribe
      <3> QED
        BY <3>2 DEF Stopping
    <2> QED
      BY <2>3, <2>4
  <1>3. ASSUME RecvSub \/ \E j \in Ids : RecvStream(j) PROVE Stopping(i)'
    <2>1. /\ UNCHANGED <<subscribed, cancelled, toPub>>
          /\ subscribe'[i] = "dropped" => subscribe[i] = "dropped"
      BY <1>3 DEF RecvSub, RecvStream, Fail, publisher, serving, subscriber, TypeOK
    <2> QED
      BY <2>1, SentStays, StoppingStays
  <1>4. ASSUME RecvPub PROVE Stopping(i)'
    <2> DEFINE m == Head(toPub)
    <2>1. /\ m \in ReqMsg /\ m = toPub[1] /\ 1 \in 1..Len(toPub)
          /\ toPub # <<>> /\ toPub' = Tail(toPub) /\ subscribe' = subscribe
      BY <1>0, <1>4, TailFacts DEF RecvPub, subscriber
    <2>2. m.id \in Ids
      BY <2>1 DEF ReqMsg
    <2>3. UnsubscribeSent(i) /\ m # Unsubscribe(i) => UnsubscribeSent(i)'
      <3>1. \A k \in DOMAIN toPub :
              toPub[k] = m \/ \E l \in DOMAIN toPub' : toPub'[l] = toPub[k]
        BY <1>0, <2>1, MessageTaken
      <3> QED
        BY <3>1 DEF UnsubscribeSent, Unsubscribe
    <2>4. cancelled \subseteq cancelled'
      BY <1>4 DEF RecvPub, RecvSubscribe, RecvUnsubscribe
    <2>5. subscribed[i] = "gone" => subscribed'[i] = "gone"
      <3>1. m.type = "Subscribe" => subscribed[m.id] = "none"
        BY <2>1 DEF Fresh
      <3> QED
        BY <1>4, <2>2, <3>1 DEF RecvPub, RecvSubscribe, RecvUnsubscribe, TypeOK
    <2>6. m = Unsubscribe(i) => i \in cancelled' \/ subscribed'[i] = "gone"
      BY <1>4 DEF RecvPub, RecvUnsubscribe, Unsubscribe
    <2> QED
      BY <2>1, <2>3, <2>4, <2>5, <2>6 DEF Stopping
  <1>5. ASSUME \/ StartAnnounce \/ EndAnnounce \/ UNCHANGED vars
               \/ \E j \in Ids : OpenStream(j) \/ StartTask(j) \/ EndTask(j)
        PROVE  Stopping(i)'
    <2>1. /\ UNCHANGED <<subscribe, cancelled, toPub>>
          /\ subscribed[i] = "gone" => subscribed'[i] = "gone"
      BY <1>5 DEF StartAnnounce, EndAnnounce, OpenStream, StartTask, EndTask, vars,
                  subscriber, publisher, serving, TypeOK
    <2> QED
      BY <2>1, SentStays, StoppingStays
  <1>6. ASSUME NEW j \in Ids, \/ DropSubscribed(j) \/ Serve(j) \/ SetDone(j)
                              \/ \E w \in BOOLEAN : Mode(j, w)
        PROVE  Stopping(i)'
    <2>1. /\ UNCHANGED <<subscribe, cancelled, toPub>>
          /\ subscribed[i] = "gone" => subscribed'[i] = "gone"
      BY <1>6 DEF DropSubscribed, Serve, SetDone, Mode, Waiting, Watching, subscriber, TypeOK
    <2> QED
      BY <2>1, SentStays, StoppingStays
  <1> QED
    BY <1>1, <1>2, <1>3, <1>4, <1>5, <1>6
    DEF Next, Subscriber, Publisher, Return, Drop, Reject, TrackEnds, NoMore, ServeCancelled,
        Finish, Dropped

LEMMA InitEnds == Init => Entered /\ EndUnderWay
  BY DEF Init, Entered, EndUnderWay

LEMMA NextEnds == IInv /\ Entered /\ EndUnderWay /\ [Next]_vars => Entered' /\ EndUnderWay'
  <1> SUFFICES ASSUME IInv, Entered, EndUnderWay, [Next]_vars PROVE Entered' /\ EndUnderWay'
    OBVIOUS
  <1>1. Entered'
    BY NextEntered DEF IInv
  <1>2. \A i \in Ids : Closing(i) /\ Stopping(i)
    BY DEF EndUnderWay, Closing, Stopping
  <1>3. \A i \in Ids : Closing(i)' /\ Stopping(i)'
    BY <1>2, NextClosing, NextStopping DEF IInv
  <1>4. EndUnderWay'
    BY <1>3 DEF EndUnderWay, Closing, Stopping
  <1> QED
    BY <1>1, <1>4

(***************************************************************************)
(* However the ends of a subscription cross on the control stream, what    *)
(* one side ended the other has ended too, or a message that ends it is    *)
(* under way, or the answer came before the entry was inserted.            *)
(***************************************************************************)
THEOREM NoEndLost == Spec => []EndUnderWay
  BY InitIInv, NextIInv, InitEnds, NextEnds, PTL DEF Spec
=============================================================================
