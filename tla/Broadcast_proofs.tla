-------------------------- MODULE Broadcast_proofs --------------------------
(***************************************************************************)
(* How a broadcast hands over its requests: the queue of watch/            *)
(* (WatchQueue), and the tracks of serve/tracks.rs that are requested      *)
(* through it (Tracks).  The queue, for any producers, consumers and       *)
(* entries: its types, that no wakeup is lost, and that it implements      *)
(* ClosableQueue.  The tracks, for any names, subscribers and number of    *)
(* tracks: their types, that requests are deduplicated, that dropping the  *)
(* TracksRequest never ends a queued request silently, and which requests  *)
(* it leaves behind.                                                       *)
(***************************************************************************)
EXTENDS Tracks, WatchQueue, TLAPS

LEMMA EmptySeq == <<>> \in Seq(Items)
OBVIOUS

LEMMA AppendSeq ==
  ASSUME NEW S, NEW q \in Seq(S), NEW x \in S
  PROVE  /\ Append(q, x) \in Seq(S)
         /\ Len(Append(q, x)) = Len(q) + 1
         /\ Append(q, x)[Len(q) + 1] = x
         /\ \A i \in 1..Len(q) : Append(q, x)[i] = q[i]
OBVIOUS

LEMMA QueueTypeInit == QueueInit => QueueTypeOK
<1> SUFFICES ASSUME QueueInit PROVE QueueTypeOK
  OBVIOUS
<1>1. sent \in Seq(Items) /\ deque \in Seq(Items)
  BY EmptySeq DEF QueueInit
<1>2. /\ pc \in [Consumers -> {"idle", "look", "poll", "asleep", "closing"}]
      /\ seen \in [Consumers -> Nat]
  BY DEF QueueInit
<1>3. QED  BY <1>1, <1>2 DEF QueueInit, QueueTypeOK

LEMMA NotifyType ==
  ASSUME QueueTypeOK, Notify
  PROVE  epoch' \in Nat /\ woken' \in SUBSET Consumers /\ wakers' \in SUBSET Consumers
BY DEF Notify, QueueTypeOK

\* The drop of a handle, the last of its side or not.
LEMMA LastHandleType ==
  ASSUME QueueTypeOK, NEW side, LastHandle(side)
  PROVE  /\ dropped' \in BOOLEAN /\ epoch' \in Nat
         /\ woken' \in SUBSET Consumers /\ wakers' \in SUBSET Consumers
<1>1. CASE side = {}
  <2>1. dropped' = TRUE /\ Notify
    BY <1>1 DEF LastHandle
  <2>2. QED  BY <2>1, NotifyType
<1>2. CASE side # {}
  BY <1>2 DEF LastHandle, QueueTypeOK
<1>3. QED  BY <1>1, <1>2

LEMMA QueueTypeNext == QueueTypeOK /\ [QueueNext]_queueVars => QueueTypeOK'
<1> SUFFICES ASSUME QueueTypeOK, [QueueNext]_queueVars PROVE QueueTypeOK'
  OBVIOUS
<1> USE DEF QueueTypeOK, Notify
<1>1. ASSUME NEW p \in Producers, NEW x \in Items, Push(p, x) PROVE QueueTypeOK'
  <2>1. deque' \in Seq(Items) /\ sent' \in Seq(Items)
    BY <1>1, AppendSeq DEF Push
  <2>2. QED  BY <1>1, <2>1 DEF Push
<1>2. ASSUME NEW p \in Producers, DropProducer(p) PROVE QueueTypeOK'
  <2>1. /\ dropped' \in BOOLEAN /\ epoch' \in Nat
        /\ woken' \in SUBSET Consumers /\ wakers' \in SUBSET Consumers
    BY <1>2, LastHandleType DEF DropProducer
  <2>2. QED  BY <1>2, <2>1 DEF DropProducer
<1>3. ASSUME NEW c \in Consumers, Call(c) \/ Cancel(c) PROVE QueueTypeOK'
  BY <1>3 DEF Call, Cancel
<1>4. ASSUME NEW c \in Consumers, Look(c) PROVE QueueTypeOK'
  <2>1. CASE LookPop(c)
    <3>1. deque' \in Seq(Items)
      BY <2>1 DEF LookPop
    <3>2. QED  BY <1>4, <2>1, <3>1 DEF Look, LookPop
  <2>2. CASE LookDropped(c)
    BY <1>4, <2>2 DEF Look, LookDropped
  <2>3. CASE LookEmpty(c)
    BY <1>4, <2>3 DEF Look, LookEmpty
  <2>4. QED  BY <1>4, <2>1, <2>2, <2>3 DEF Look
<1>5. ASSUME NEW c \in Consumers, Poll(c) PROVE QueueTypeOK'
  BY <1>5 DEF Poll
<1>6. ASSUME NEW c \in Consumers, Drain(c) PROVE QueueTypeOK'
  <2>1. deque' \in Seq(Items)
    BY <1>6, EmptySeq DEF Drain
  <2>2. QED  BY <1>6, <2>1 DEF Drain
<1>7. ASSUME NEW c \in Consumers, DropConsumer(c) PROVE QueueTypeOK'
  <2>1. /\ dropped' \in BOOLEAN /\ epoch' \in Nat
        /\ woken' \in SUBSET Consumers /\ wakers' \in SUBSET Consumers
    BY <1>7, LastHandleType DEF DropConsumer
  <2>2. pc' \in [Consumers -> {"idle", "look", "poll", "asleep", "closing"}]
    BY <1>7 DEF DropConsumer
  <2>3. QED  BY <1>7, <2>1, <2>2 DEF DropConsumer
<1>8. CASE UNCHANGED queueVars
  BY <1>8 DEF queueVars
<1>9. QED  BY <1>1, <1>2, <1>3, <1>4, <1>5, <1>6, <1>7, <1>8 DEF QueueNext

\* QueueTypeOK holds for any number of tasks and entries.
THEOREM QueueTypeCorrect == QueueSpec => []QueueTypeOK
BY QueueTypeInit, QueueTypeNext, PTL DEF QueueSpec

-----------------------------------------------------------------------------
(***************************************************************************)
(* No lost wakeup.  A future that remembers the current epoch looked at    *)
(* the value as it is now (Fresh), and a task that is truly asleep has its *)
(* waker registered for the epoch it remembers (Registered).  Notify       *)
(* breaks neither: it moves the epoch away and empties the wakers into     *)
(* woken in one step.                                                      *)
(***************************************************************************)
Behind == \A c \in Consumers : seen[c] <= epoch

Fresh ==
  \A c \in Consumers :
    pc[c] \in {"poll", "asleep"} /\ seen[c] = epoch => deque = <<>> /\ ~dropped

Registered == \A c \in Consumers : Asleep(c) => c \in wakers /\ seen[c] = epoch

QueueInv == QueueTypeOK /\ Behind /\ Fresh /\ Registered

LEMMA WakeNext == QueueInv /\ [QueueNext]_queueVars => QueueInv'
<1> SUFFICES ASSUME QueueInv, [QueueNext]_queueVars PROVE Behind' /\ Fresh' /\ Registered'
  BY QueueTypeNext DEF QueueInv
<1> USE DEF QueueInv, QueueTypeOK, Behind, Fresh, Registered, Asleep, Notify
<1>1. ASSUME NEW p \in Producers, NEW x \in Items, Push(p, x)
      PROVE  Behind' /\ Fresh' /\ Registered'
  BY <1>1 DEF Push
<1>2. ASSUME NEW p \in Producers, DropProducer(p)
      PROVE  Behind' /\ Fresh' /\ Registered'
  BY <1>2 DEF DropProducer, LastHandle
<1>3. ASSUME NEW c \in Consumers, Call(c) \/ Cancel(c)
      PROVE  Behind' /\ Fresh' /\ Registered'
  BY <1>3 DEF Call, Cancel
<1>4. ASSUME NEW c \in Consumers, Look(c)
      PROVE  Behind' /\ Fresh' /\ Registered'
  <2>1. CASE LookPop(c)
    BY <1>4, <2>1 DEF Look, LookPop
  <2>2. CASE LookDropped(c)
    BY <1>4, <2>2 DEF Look, LookDropped
  <2>3. CASE LookEmpty(c)
    BY <1>4, <2>3 DEF Look, LookEmpty
  <2>4. QED  BY <1>4, <2>1, <2>2, <2>3 DEF Look
<1>5. ASSUME NEW c \in Consumers, Poll(c)
      PROVE  Behind' /\ Fresh' /\ Registered'
  <2>1. CASE Changed(c)
    BY <1>5, <2>1 DEF Poll
  <2>2. CASE ~Changed(c)
    <3>1. seen[c] = epoch
      BY <2>2 DEF Changed
    <3>2. QED  BY <1>5, <2>2, <3>1 DEF Poll
  <2>3. QED  BY <2>1, <2>2
<1>6. ASSUME NEW c \in Consumers, Drain(c)
      PROVE  Behind' /\ Fresh' /\ Registered'
  BY <1>6 DEF Drain
<1>7. ASSUME NEW c \in Consumers, DropConsumer(c)
      PROVE  Behind' /\ Fresh' /\ Registered'
  BY <1>7 DEF DropConsumer, LastHandle
<1>8. CASE UNCHANGED queueVars
  BY <1>8 DEF queueVars
<1>9. QED  BY <1>1, <1>2, <1>3, <1>4, <1>5, <1>6, <1>7, <1>8 DEF QueueNext

\* A task sleeps unwoken only while there is nothing for it to see.
THEOREM NoWakeupIsLost == QueueSpec => []NoLostWakeup
<1>1. QueueInit => QueueInv
  BY QueueTypeInit DEF QueueInit, QueueInv, Behind, Fresh, Registered, Asleep
<1>2. QueueInv => NoLostWakeup
  BY DEF QueueInv, Fresh, Registered, NoLostWakeup, Asleep
<1>3. QED  BY <1>1, <1>2, WakeNext, PTL DEF QueueSpec

-----------------------------------------------------------------------------
(***************************************************************************)
(* QueueRefinement.  The deque always holds the newest entries of sent, so a    *)
(* pop gives out the oldest entry not given out yet.                       *)
(***************************************************************************)
LEMMA SuffixInit == QueueInit => QueueIsSuffix
BY DEF QueueInit, QueueIsSuffix

LEMMA SuffixNext == QueueTypeOK /\ QueueIsSuffix /\ [QueueNext]_queueVars => QueueIsSuffix'
<1> SUFFICES ASSUME QueueTypeOK, QueueIsSuffix, [QueueNext]_queueVars PROVE QueueIsSuffix'
  OBVIOUS
<1> USE DEF QueueTypeOK, QueueIsSuffix
<1>1. ASSUME NEW p \in Producers, NEW x \in Items, Push(p, x) PROVE QueueIsSuffix'
  BY <1>1 DEF Push
<1>2. ASSUME NEW c \in Consumers, LookPop(c), UNCHANGED sent PROVE QueueIsSuffix'
  <2>1. /\ Len(deque) \in Nat /\ Len(deque) > 0
        /\ Len(deque') = Len(deque) - 1
        /\ \A i \in 1..Len(deque') : deque'[i] = deque[i + 1]
    BY <1>2 DEF LookPop
  <2>2. Len(sent) \in Nat
    OBVIOUS
  <2>3. \A i \in 1..Len(deque') : i + 1 \in 1..Len(deque)
    BY <2>1
  <2>4. \A i \in 1..Len(deque') :
          deque'[i] = sent[Len(sent) - Len(deque) + (i + 1)]
    BY <2>1, <2>3
  <2>5. \A i \in 1..Len(deque') :
          Len(sent) - Len(deque) + (i + 1) = Len(sent) - Len(deque') + i
    BY <2>1, <2>2
  <2>6. QED  BY <1>2, <2>1, <2>2, <2>4, <2>5
<1>3. ASSUME NEW c \in Consumers, Drain(c) PROVE QueueIsSuffix'
  <2>1. CASE dropped
    BY <1>3, <2>1 DEF Drain
  <2>2. CASE ~dropped
    <3>1. deque' = <<>> /\ sent' = sent
      BY <1>3, <2>2 DEF Drain
    <3>2. Len(deque') = 0 /\ Len(sent) \in Nat
      BY <3>1
    <3>3. QED  BY <3>1, <3>2
  <2>3. QED  BY <2>1, <2>2
<1>4. CASE UNCHANGED <<sent, deque>>
  BY <1>4
<1>5. QED
  BY <1>1, <1>2, <1>3, <1>4
  DEF QueueNext, queueVars, DropProducer, Call, Look, LookDropped, LookEmpty, Poll, Cancel,
      DropConsumer

\* The pushed entries are given out in order: the queue is what was not given out.
THEOREM Fifo == QueueSpec => []QueueIsSuffix
BY QueueTypeInit, QueueTypeNext, SuffixInit, SuffixNext, PTL DEF QueueSpec

LEMMA StepImplements ==
  QueueTypeOK /\ QueueIsSuffix /\ [QueueNext]_queueVars
    => [Abstract!Next]_<<sent, Len(sent) - Len(deque), ~dropped>>
<1> SUFFICES ASSUME QueueTypeOK, QueueIsSuffix, [QueueNext]_queueVars
             PROVE  [Abstract!Next]_<<sent, Len(sent) - Len(deque), ~dropped>>
  OBVIOUS
<1> USE DEF QueueTypeOK, QueueIsSuffix, Abstract!Next
<1>1. ASSUME NEW p \in Producers, NEW x \in Items, Push(p, x) PROVE Abstract!Put(x)
  BY <1>1 DEF Push, Abstract!Put
<1>2. ASSUME NEW c \in Consumers, LookPop(c), UNCHANGED <<sent, dropped>>
      PROVE  Abstract!Take
  BY <1>2 DEF LookPop, Abstract!Take
<1>3. ASSUME NEW c \in Consumers, Drain(c), ~dropped PROVE Abstract!TakeAll
  BY <1>3 DEF Drain, Abstract!TakeAll
<1>4. CASE dropped' = TRUE /\ UNCHANGED <<sent, deque>> /\ ~dropped
  BY <1>4 DEF Abstract!Close
<1>5. CASE UNCHANGED <<sent, deque, dropped>>
  BY <1>5
<1>6. QED
  BY <1>1, <1>2, <1>3, <1>4, <1>5
  DEF QueueNext, queueVars, DropProducer, LastHandle, Call, Look, LookDropped, LookEmpty, Poll,
      Cancel, Drain, DropConsumer

\* watch::Queue implements the abstract closable FIFO.
THEOREM QueueRefinement == QueueSpec => ImplementsQueue
<1>1. QueueInit => Abstract!Init
  BY DEF QueueInit, Abstract!Init
<1>2. QED
  BY <1>1, QueueTypeInit, QueueTypeNext, SuffixInit, SuffixNext, StepImplements, PTL
  DEF QueueSpec, ImplementsQueue, Abstract!Spec

-----------------------------------------------------------------------------
(***************************************************************************)
(* Tracks.  The inductive invariant: the cache of the writer holds, under  *)
(* its name, every track that it did not replace or remove; and nothing is *)
(* held that was not taken, or drained while the TracksRequest lives.      *)
(***************************************************************************)
\* A cached track is cached under its own name.
CacheNamed == \A n \in Names : lookup[n] # NoTrack => name[lookup[n]] = n

\* Every track the writer did not replace or remove is the cached one.
Cached == \A t \in 1..made : t \notin evicted => lookup[name[t]] = t

HeldTaken == held \subseteq taken

\* Nothing is drained before the TracksRequest is dropped.
LiveUndrained == request = "live" => drained = {}

IInv ==
  TypeOK /\ CacheNamed /\ Cached /\ HeldTaken /\ LiveUndrained /\ NotFoundUnlessTaken

-----------------------------------------------------------------------------
\* What a push adds to the queue.
LEMMA RangeAppend ==
  ASSUME NEW S, NEW q \in Seq(S), NEW x \in S
  PROVE  Range(Append(q, x)) = Range(q) \cup {x}
<1> DEFINE p == Append(q, x)
<1>1. /\ DOMAIN p = 1..(Len(q) + 1) /\ DOMAIN q = 1..Len(q) /\ Len(q) \in Nat
      /\ p[Len(q) + 1] = x /\ \A i \in 1..Len(q) : p[i] = q[i]
  OBVIOUS
<1> HIDE DEF p
<1>2. ASSUME NEW y \in Range(p) PROVE y \in Range(q) \cup {x}
  <2>1. PICK i \in 1..(Len(q) + 1) : y = p[i]
    BY <1>1, <1>2 DEF Range
  <2>2. QED  BY <1>1, <2>1 DEF Range
<1>3. ASSUME NEW y \in Range(q) \cup {x} PROVE y \in Range(p)
  <2>1. CASE y = x
    BY <1>1, <2>1 DEF Range
  <2>2. CASE y \in Range(q)
    BY <1>1, <2>2 DEF Range
  <2>3. QED  BY <1>3, <2>1, <2>2
<1>4. QED  BY <1>2, <1>3 DEF p

\* What a pop takes from it.
LEMMA RangePop ==
  ASSUME NEW S, NEW q \in Seq(S), q # <<>>
  PROVE  /\ Range(q) = {Head(q)} \cup Range(Tail(q))
         /\ Head(q) \in S
         /\ Tail(q) \in Seq(S)
<1>1. Head(q) \in S /\ Tail(q) \in Seq(S) /\ Len(Tail(q)) = Len(q) - 1 /\ Len(q) \in Nat \ {0}
  OBVIOUS
<1>2. \A i \in DOMAIN Tail(q) : i + 1 \in DOMAIN q /\ Tail(q)[i] = q[i + 1]
  OBVIOUS
<1>3. \A i \in DOMAIN q : i = 1 \/ (i - 1 \in DOMAIN Tail(q) /\ Tail(q)[i - 1] = q[i])
  OBVIOUS
<1>4. 1 \in DOMAIN q /\ Head(q) = q[1]
  OBVIOUS
<1>5. ASSUME NEW y \in Range(q) PROVE y \in {Head(q)} \cup Range(Tail(q))
  <2>1. PICK i \in DOMAIN q : y = q[i]
    BY <1>5 DEF Range
  <2>2. QED  BY <1>3, <1>4, <2>1 DEF Range
<1>6. ASSUME NEW y \in {Head(q)} \cup Range(Tail(q)) PROVE y \in Range(q)
  <2>1. CASE y = Head(q)
    BY <1>4, <2>1 DEF Range
  <2>2. CASE y \in Range(Tail(q))
    BY <1>2, <2>2 DEF Range
  <2>3. QED  BY <1>6, <2>1, <2>2
<1>7. QED  BY <1>1, <1>5, <1>6

LEMMA RangeType ==
  ASSUME NEW S, NEW q \in Seq(S)
  PROVE  Range(q) \subseteq S
BY DEF Range

\* The tracks of a longer history include those of a shorter one.
LEMMA SeqMono ==
  ASSUME NEW m \in Nat, NEW q \in Seq(1..m)
  PROVE  q \in Seq(1..(m + 1)) /\ Append(q, m + 1) \in Seq(1..(m + 1))
OBVIOUS

LEMMA EmptyQueue == Range(<<>>) = {}
BY DEF Range

-----------------------------------------------------------------------------
(* Type correctness, one step per action. *)
LEMMA TypeInit == Init => TypeOK
BY TracksAssumption DEF Init, TypeOK, Ids, NoTrack, Errors

LEMMA TypeNext == TypeOK /\ [Next]_vars => TypeOK'
<1> SUFFICES ASSUME TypeOK, [Next]_vars PROVE TypeOK'
  OBVIOUS
<1> USE TracksAssumption DEF TypeOK, Ids, NoTrack, Errors
<1>1. ASSUME NEW r \in Readers, NEW n \in Names, Subscribe(r, n) PROVE TypeOK'
  <2>1. CASE SubscribeCached(r, n)
    BY <1>1, <2>1 DEF Subscribe, SubscribeCached
  <2>2. CASE SubscribeRequest(r, n)
    <3>1. made' = made + 1 /\ made' \in 0..MaxTracks /\ 1..made \subseteq 1..made'
      BY <2>2 DEF SubscribeRequest, Produce
    <3>2. queue' \in Seq(1..made')
      BY <2>2, <3>1, SeqMono DEF SubscribeRequest
    <3>3. name' \in [Ids -> Names]
      BY <2>2 DEF SubscribeRequest, Produce
    <3>4. QED  BY <1>1, <2>2, <3>1, <3>2, <3>3 DEF Subscribe, SubscribeRequest
  <2>3. QED  BY <1>1, <2>1, <2>2 DEF Subscribe
<1>2. ASSUME NEW r \in Readers, Mode(r) \/ Abandon(r) PROVE TypeOK'
  BY <1>2 DEF Mode, Abandon
<1>3. ASSUME NEW r \in Readers, DropReader(r) PROVE TypeOK'
  <2>1. <<>> \in Seq(1..made)
    OBVIOUS
  <2>2. QED  BY <1>3, <2>1 DEF DropReader
<1>4. CASE NextRequest
  <2>1. Head(queue) \in 1..made /\ Tail(queue) \in Seq(1..made)
    BY <1>4 DEF NextRequest
  <2>2. QED  BY <1>4, <2>1 DEF NextRequest
<1>5. ASSUME NEW t \in Ids, SetMode(t) PROVE TypeOK'
  BY <1>5 DEF SetMode
<1>6. ASSUME NEW t \in Ids, CloseTrack(t) \/ DropTrack(t) PROVE TypeOK'
  BY <1>6 DEF CloseTrack, DropTrack
<1>7. ASSUME NEW n \in Names, Create(n) PROVE TypeOK'
  <2>1. made' = made + 1 /\ made' \in 0..MaxTracks /\ 1..made \subseteq 1..made'
    BY <1>7 DEF Create, Produce
  <2>2. queue' \in Seq(1..made')
    BY <1>7, <2>1, SeqMono DEF Create
  <2>3. name' \in [Ids -> Names]
    BY <1>7 DEF Create, Produce
  <2>4. /\ lookup' \in [Names -> {0} \cup 1..made']
        /\ evicted' \in SUBSET (1..made')
        /\ held' \in SUBSET (1..made')
        /\ taken' \in SUBSET (1..made')
    <3>1. made + 1 \in 1..made' /\ lookup[n] \in {0} \cup 1..made'
      BY <2>1
    <3>2. \A m \in Names : lookup[m] \in {0} \cup 1..made'
      BY <2>1
    <3>3. lookup' = [lookup EXCEPT ![n] = made + 1]
      BY <1>7 DEF Create
    <3>4. lookup' \in [Names -> {0} \cup 1..made']
      BY <3>1, <3>2, <3>3
    <3>5. QED  BY <1>7, <2>1, <3>1, <3>4 DEF Create
  <2>5. /\ want' \in [Readers -> {0} \cup 1..made']
        /\ drained' \in SUBSET (1..made')
        /\ late' \in SUBSET (1..made')
    BY <1>7, <2>1 DEF Create
  <2>6. QED  BY <1>7, <2>1, <2>2, <2>3, <2>4, <2>5 DEF Create
<1>8. ASSUME NEW n \in Names, Remove(n) PROVE TypeOK'
  BY <1>8 DEF Remove
<1>9. CASE DropWriter
  BY <1>9 DEF DropWriter
<1>10. CASE DropRequest
  <2>1. Queued \subseteq 1..made /\ <<>> \in Seq(1..made)
    BY RangeType DEF Queued
  <2>2. QED  BY <1>10, <2>1 DEF DropRequest
<1>11. CASE DropQueue
  <2>1. <<>> \in Seq(1..made)
    OBVIOUS
  <2>2. QED  BY <1>11, <2>1 DEF DropQueue
<1>12. ASSUME NEW t \in Ids, CloseDrained(t) PROVE TypeOK'
  BY <1>12 DEF CloseDrained
<1>13. CASE DropTracksState
  BY <1>13 DEF DropTracksState
<1>14. CASE UNCHANGED vars
  BY <1>14 DEF vars
<1>15. QED
  BY <1>1, <1>2, <1>3, <1>4, <1>5, <1>6, <1>7, <1>8, <1>9, <1>10, <1>11, <1>12,
     <1>13, <1>14 DEF Next, Publisher, Subscriber, Settle, Teardown

\* TypeOK holds for any names, any subscribers and any number of tracks.
THEOREM TypeCorrect == Spec => []TypeOK
BY TypeInit, TypeNext, PTL DEF Spec

-----------------------------------------------------------------------------
(* The cache: which steps change it, and that it holds what was requested. *)
LEMMA CacheInit ==
  Init => CacheNamed /\ Cached /\ HeldTaken /\ LiveUndrained /\ NotFoundUnlessTaken
BY DEF Init, CacheNamed, Cached, HeldTaken, LiveUndrained, NotFoundUnlessTaken, NoTrack

LEMMA CacheNext ==
  TypeOK /\ CacheNamed /\ Cached /\ [Next]_vars => CacheNamed' /\ Cached'
<1> SUFFICES ASSUME TypeOK, CacheNamed, Cached, [Next]_vars
             PROVE  CacheNamed' /\ Cached'
  OBVIOUS
<1> USE TracksAssumption DEF TypeOK, Ids, NoTrack, CacheNamed, Cached
<1>1. ASSUME NEW r \in Readers, NEW n \in Names, SubscribeRequest(r, n),
             UNCHANGED evicted
      PROVE  CacheNamed' /\ Cached'
  <2>1. /\ made' = made + 1 /\ made + 1 \in Ids
        /\ name' = [name EXCEPT ![made + 1] = n]
        /\ lookup' = [lookup EXCEPT ![n] = made + 1]
        /\ lookup[n] = 0
    BY <1>1 DEF SubscribeRequest, Produce
  <2>2. CacheNamed'
    BY <2>1
  <2>3. Cached'
    BY <1>1, <2>1
  <2>4. QED  BY <2>2, <2>3
<1>2. ASSUME NEW n \in Names, Create(n) PROVE CacheNamed' /\ Cached'
  <2>1. /\ made' = made + 1 /\ made + 1 \in Ids
        /\ name' = [name EXCEPT ![made + 1] = n]
        /\ lookup' = [lookup EXCEPT ![n] = made + 1]
        /\ evicted' = evicted \cup ({lookup[n]} \ {0})
    BY <1>2 DEF Create, Produce
  <2>2. CacheNamed'
    BY <2>1
  <2>3. Cached'
    BY <2>1
  <2>4. QED  BY <2>2, <2>3
<1>3. ASSUME NEW n \in Names, Remove(n) PROVE CacheNamed' /\ Cached'
  BY <1>3 DEF Remove
<1>4. CASE UNCHANGED <<made, name, lookup, evicted>>
  BY <1>4
<1>5. QED
  BY <1>1, <1>2, <1>3, <1>4
  DEF Next, Publisher, Subscriber, Settle, Teardown, vars, Subscribe, SubscribeCached,
      Mode, Abandon, DropReader, NextRequest, SetMode, CloseTrack, DropTrack,
      DropWriter, DropRequest, DropQueue, CloseDrained, DropTracksState

\* Two outstanding tracks of one name are one track.
THEOREM RequestsDeduplicated == Spec => []Deduplicated
<1>1. TypeOK /\ Cached => Deduplicated
  <2> SUFFICES ASSUME TypeOK, Cached,
                      NEW t \in (Queued \cup drained \cup held) \ evicted,
                      NEW u \in (Queued \cup drained \cup held) \ evicted,
                      name[t] = name[u]
               PROVE  t = u
    BY DEF Deduplicated
  <2>1. t \in 1..made /\ u \in 1..made
    BY RangeType DEF TypeOK, Queued
  <2>2. QED  BY <2>1 DEF Cached
<1>2. TypeOK /\ CacheNamed /\ Cached /\ [Next]_vars
        => TypeOK' /\ CacheNamed' /\ Cached'
  BY TypeNext, CacheNext
<1>3. QED  BY <1>1, <1>2, TypeInit, CacheInit, PTL DEF Spec

-----------------------------------------------------------------------------
(* A queued track never ends silently. *)

\* A track nobody can read stays so: readers come only from the cache.
LEMMA ReadableNext ==
  ASSUME TypeOK, CacheNamed, [Next]_vars, NEW t \in 1..made, Readable(t)'
  PROVE  Readable(t)
<1> USE TracksAssumption DEF TypeOK, Ids, NoTrack, Readable
<1>1. ASSUME NEW r \in Readers, NEW n \in Names, Subscribe(r, n) PROVE Readable(t)
  <2>1. CASE SubscribeCached(r, n)
    BY <1>1, <2>1 DEF Subscribe, SubscribeCached, CacheNamed
  <2>2. CASE SubscribeRequest(r, n)
    BY <1>1, <2>2 DEF Subscribe, SubscribeRequest, Produce
  <2>3. QED  BY <1>1, <2>1, <2>2 DEF Subscribe
<1>2. ASSUME NEW r \in Readers, Mode(r) \/ Abandon(r) PROVE Readable(t)
  BY <1>2 DEF Mode, Abandon
<1>3. ASSUME NEW r \in Readers, DropReader(r) PROVE Readable(t)
  BY <1>3 DEF DropReader
<1>4. ASSUME NEW n \in Names, Create(n) PROVE Readable(t)
  BY <1>4 DEF Create, Produce
<1>5. ASSUME NEW n \in Names, Remove(n) PROVE Readable(t)
  BY <1>5 DEF Remove
<1>6. CASE DropWriter \/ DropQueue \/ DropRequest \/ DropTracksState
  BY <1>6 DEF DropWriter, DropQueue, DropRequest, DropTracksState
<1>7. CASE UNCHANGED <<name, lookup, want, readers, writer, request>>
  BY <1>7
<1>8. QED
  BY <1>1, <1>2, <1>3, <1>4, <1>5, <1>6, <1>7
  DEF Next, Publisher, Subscriber, Settle, Teardown, vars, NextRequest, SetMode,
      CloseTrack, DropTrack, CloseDrained

LEMMA HeldNext ==
  HeldTaken /\ LiveUndrained /\ [Next]_vars => HeldTaken' /\ LiveUndrained'
BY DEF HeldTaken, LiveUndrained, Next, Publisher, Subscriber, Settle, Teardown, vars, Subscribe,
       SubscribeCached, SubscribeRequest, Mode, Abandon, DropReader, NextRequest,
       SetMode, CloseTrack, DropTrack, Create, Remove, DropWriter, DropRequest,
       DropQueue, CloseDrained, DropTracksState

LEMMA SilentNext == IInv /\ [Next]_vars => NotFoundUnlessTaken'
<1> SUFFICES ASSUME IInv, [Next]_vars, NEW t \in 1..made', Silent(t)', Readable(t)'
             PROVE  t \in taken' \/ readers' = {}
  BY DEF NotFoundUnlessTaken
<1> DEFINE Goal == t \in taken' \/ readers' = {}
<1> USE DEF IInv, HeldTaken, Silent, Writable
\* A track that was silent already, or one that is new.
<1>1. taken \subseteq taken' /\ readers' \subseteq readers
  BY DEF Next, Publisher, Subscriber, Settle, Teardown, vars, Subscribe,
         SubscribeCached, SubscribeRequest, Mode, Abandon, DropReader, NextRequest,
         SetMode, CloseTrack, DropTrack, Create, Remove, DropWriter, DropRequest,
         DropQueue, CloseDrained, DropTracksState
<1>2. ASSUME t \in 1..made, Silent(t) PROVE Goal
  BY <1>1, <1>2, ReadableNext DEF NotFoundUnlessTaken
<1>3. ASSUME NEW r \in Readers, NEW n \in Names, Subscribe(r, n) PROVE Goal
  <2>1. CASE SubscribeCached(r, n)
    BY <1>2, <1>3, <2>1 DEF Subscribe, SubscribeCached, Queued
  <2>2. CASE SubscribeRequest(r, n)
    <3>1. made \in Nat /\ queue \in Seq(1..(made + 1)) /\ made' = made + 1
      BY <2>2, TracksAssumption, SeqMono DEF TypeOK, SubscribeRequest, Produce
    <3>2. Queued' = Queued \cup {made + 1}
      BY <2>2, <3>1, RangeAppend DEF SubscribeRequest, Queued
    <3>3. t = made + 1 \/ t \in 1..made
      BY <3>1
    <3>4. QED  BY <1>2, <1>3, <2>2, <3>2, <3>3 DEF Subscribe, SubscribeRequest
  <2>3. QED  BY <1>3, <2>1, <2>2 DEF Subscribe
<1>4. ASSUME NEW n \in Names, Create(n) PROVE Goal
  <2>1. made \in Nat /\ made' = made + 1
    BY <1>4, TracksAssumption DEF TypeOK, Create, Produce
  <2>2. t = made + 1 \/ t \in 1..made
    BY <2>1
  <2>3. QED  BY <1>2, <1>4, <2>2 DEF Create, Queued
<1>5. CASE NextRequest
  <2>1. Queued = {Head(queue)} \cup Queued'
    BY <1>5, RangePop DEF TypeOK, NextRequest, Queued
  <2>2. QED  BY <1>2, <1>5, <2>1 DEF NextRequest
<1>6. ASSUME NEW u \in Ids, SetMode(u) \/ CloseTrack(u), t \in 1..made PROVE Goal
  <2>1. Readable(t)
    BY ReadableNext, <1>6
  <2>2. CASE u = t
    BY <1>6, <2>1, <2>2 DEF SetMode, CloseTrack, TypeOK, Ids
  <2>3. CASE u # t
    <3>1. (mode[t] => mode'[t]) /\ closed'[t] = closed[t]
      <4>1. mode \in [Ids -> BOOLEAN] /\ closed \in [Ids -> {"ok"} \cup Errors]
        BY DEF TypeOK
      <4>2. CASE SetMode(u)
        BY <1>6, <2>3, <4>1, <4>2 DEF SetMode
      <4>3. CASE CloseTrack(u)
        BY <1>6, <2>3, <4>1, <4>3 DEF CloseTrack
      <4>4. QED  BY <1>6, <4>2, <4>3
    <3>2. Writable(t) => Writable(t)'
      BY <1>6, <2>3 DEF SetMode, CloseTrack, Queued
    <3>3. QED  BY <1>2, <1>6, <3>1, <3>2
  <2>4. QED  BY <2>2, <2>3
<1>7. ASSUME NEW u \in Ids, DropTrack(u) PROVE Goal
  BY <1>2, <1>7 DEF DropTrack, Queued
<1>8. ASSUME NEW u \in Ids, CloseDrained(u), t \in 1..made PROVE Goal
  <2>1. Readable(t)
    BY ReadableNext, <1>8
  <2>2. CASE u = t
    BY <1>8, <2>1, <2>2 DEF CloseDrained, TypeOK, Ids
  <2>3. CASE u # t
    BY <1>2, <1>8, <2>3 DEF CloseDrained, Queued, TypeOK, Ids
  <2>4. QED  BY <2>2, <2>3
<1>9. CASE DropRequest
  <2>1. drained = {}
    BY <1>9 DEF DropRequest, LiveUndrained
  <2>2. Queued \subseteq Queued' \cup drained'
    BY <1>9 DEF DropRequest, Queued
  <2>3. QED  BY <1>2, <1>9, <2>1, <2>2 DEF DropRequest
<1>10. ASSUME NEW r \in Readers, DropReader(r) PROVE Goal
  BY <1>2, <1>10 DEF DropReader, Queued
<1>11. CASE DropQueue
  BY <1>2, <1>11 DEF DropQueue, Queued
<1>12. CASE UNCHANGED <<made, mode, closed, queue, drained, held>>
  BY <1>2, <1>12 DEF Queued
<1>13. ASSUME NEW u \in Ids, SetMode(u) \/ CloseTrack(u) \/ CloseDrained(u)
       PROVE  t \in 1..made
  BY <1>13 DEF SetMode, CloseTrack, CloseDrained
<1>14. QED
  BY <1>3, <1>4, <1>5, <1>6, <1>7, <1>8, <1>9, <1>10, <1>11, <1>12, <1>13
  DEF Next, Publisher, Subscriber, Settle, Teardown, vars, Mode, Abandon, Remove,
      DropWriter, DropTracksState

\* Dropping a TracksRequest never turns a queued request into a clean end.
THEOREM NotFound == Spec => []NotFoundUnlessTaken
<1>1. Init => IInv
  BY TypeInit, CacheInit DEF IInv
<1>2. IInv /\ [Next]_vars => IInv'
  BY TypeNext, CacheNext, HeldNext, SilentNext DEF IInv
<1>3. IInv => NotFoundUnlessTaken
  BY DEF IInv
<1>4. QED  BY <1>1, <1>2, <1>3, PTL DEF Spec

-----------------------------------------------------------------------------
(***************************************************************************)
(* What a dropped TracksRequest leaves in the queue.  Broken: the queue    *)
(* breaks with the last reader, or with the request's own handle.          *)
(* DrainedQueue: between the drain and that, only new requests are in it.  *)
(***************************************************************************)
Broken ==
  /\ "queue" \in broken => readers = {} \/ request \in {"closing", "gone"}
  /\ request \in {"closing", "gone"} => "queue" \in broken

DrainedQueue == \A t \in Queued : request = "drained" => t \in late \/ readers = {}

(***************************************************************************)
(* Once the handle is dropped, a TrackWriter is left in the queue only     *)
(* under readers of the broadcast, and only if its request was pushed      *)
(* while Queue::close ran; what was drained is all closed before the drop  *)
(* of the TracksRequest is over.                                           *)
(***************************************************************************)
LeftInQueue ==
  /\ \A t \in Queued : request \in {"closing", "gone"} => t \in late /\ readers # {}
  /\ drained # {} => request \in {"drained", "closing"}

LeftInv == TypeOK /\ LiveUndrained /\ Broken /\ DrainedQueue /\ LeftInQueue

LEMMA LeftPush ==
  ASSUME LeftInv, NEW r \in Readers, NEW n \in Names, Subscribe(r, n)
  PROVE  Broken' /\ DrainedQueue' /\ LeftInQueue'
<1>1. CASE SubscribeCached(r, n)
  BY <1>1 DEF Subscribe, SubscribeCached, LeftInv, Broken, DrainedQueue, LeftInQueue, Queued
<1>2. CASE SubscribeRequest(r, n)
  <2>1. made \in Nat /\ queue \in Seq(1..(made + 1))
    BY TracksAssumption, SeqMono DEF LeftInv, TypeOK
  <2>2. Queued' = Queued \cup {made + 1}
    BY <1>2, <2>1, RangeAppend DEF SubscribeRequest, Queued
  <2>3. request \in {"live", "drained"}
    BY <1>2 DEF SubscribeRequest, LeftInv, TypeOK, Broken
  <2>4. late' = IF request = "drained" THEN late \cup {made + 1} ELSE late
    BY <1>2 DEF SubscribeRequest
  <2>5. UNCHANGED <<broken, request, drained, readers>>
    BY DEF Subscribe
  <2>6. QED
    BY <2>2, <2>3, <2>4, <2>5 DEF LeftInv, Broken, DrainedQueue, LeftInQueue
<1>3. QED  BY <1>1, <1>2 DEF Subscribe

LEMMA LeftNext == LeftInv /\ [Next]_vars => Broken' /\ DrainedQueue' /\ LeftInQueue'
<1> SUFFICES ASSUME LeftInv, [Next]_vars PROVE Broken' /\ DrainedQueue' /\ LeftInQueue'
  OBVIOUS
<1> USE DEF LeftInv, Broken, DrainedQueue, LeftInQueue, Queued
<1>1. ASSUME UNCHANGED <<broken, request, drained, readers, late>>, Queued' \subseteq Queued
      PROVE  Broken' /\ DrainedQueue' /\ LeftInQueue'
  BY <1>1
<1>2. CASE NextRequest
  <2>1. Queued' \subseteq Queued
    BY <1>2, RangePop DEF TypeOK, NextRequest
  <2>2. QED  BY <1>1, <1>2, <2>1 DEF NextRequest
<1>3. ASSUME NEW r \in Readers, DropReader(r)
      PROVE  Broken' /\ DrainedQueue' /\ LeftInQueue'
  BY <1>3, EmptyQueue DEF DropReader
<1>4. CASE DropRequest
  BY <1>4, EmptyQueue DEF DropRequest
<1>5. CASE DropQueue
  BY <1>5, EmptyQueue DEF DropQueue
<1>6. ASSUME NEW t \in Ids, CloseDrained(t)
      PROVE  Broken' /\ DrainedQueue' /\ LeftInQueue'
  BY <1>6 DEF CloseDrained
<1>7. CASE DropTracksState
  BY <1>7 DEF DropTracksState
<1>8. CASE DropWriter
  BY <1>8 DEF DropWriter
<1>9. CASE UNCHANGED <<broken, request, drained, readers, late, queue>>
  BY <1>1, <1>9
<1>10. QED
  BY <1>2, <1>3, <1>4, <1>5, <1>6, <1>7, <1>8, <1>9, LeftPush
  DEF Next, Publisher, Subscriber, Settle, Teardown, vars, Mode, Abandon, SetMode,
      CloseTrack, DropTrack, Create, Remove

(***************************************************************************)
(* The requests a dropped TracksRequest forgets are those of the window in *)
(* Queue::close, and no others.                                            *)
(***************************************************************************)
THEOREM OnlyLateAreLeft == Spec => []LeftInQueue
<1>1. Init => LeftInv
  BY TypeInit, EmptyQueue
  DEF Init, LeftInv, LiveUndrained, Broken, DrainedQueue, LeftInQueue, Queued
<1>2. LiveUndrained /\ [Next]_vars => LiveUndrained'
  BY DEF LiveUndrained, Next, Publisher, Subscriber, Settle, Teardown, vars, Subscribe,
         SubscribeCached, SubscribeRequest, Mode, Abandon, DropReader, NextRequest,
         SetMode, CloseTrack, DropTrack, Create, Remove, DropWriter, DropRequest,
         DropQueue, CloseDrained, DropTracksState
<1>3. LeftInv /\ [Next]_vars => LeftInv'
  BY <1>2, TypeNext, LeftNext DEF LeftInv
<1>4. LeftInv => LeftInQueue
  BY DEF LeftInv
<1>5. QED  BY <1>1, <1>3, <1>4, PTL DEF Spec
=============================================================================
