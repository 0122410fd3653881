------------------------------ MODULE WatchQueue ------------------------------
(***************************************************************************)
(* The primitive every shared state of moq-transport is built on           *)
(* (watch/state.rs), in its most used shape, the queue (watch/queue.rs).   *)
(*                                                                         *)
(* A State is a mutex around a value, an epoch, the wakers of the tasks    *)
(* that wait for a change, and a dropped flag.  It has two sides, each a   *)
(* counted handle; when all the handles of EITHER side are gone the state  *)
(* is dropped.  A task waits in three separate critical sections: it looks *)
(* at the value and remembers the epoch, releases the lock, and only its   *)
(* poll compares epochs and registers a waker.  Every mutable access       *)
(* advances the epoch and wakes everyone when its guard is dropped.        *)
(***************************************************************************)
EXTENDS Naturals, Sequences

CONSTANTS
  Producers,   \* handles of one side: they push
  Consumers,   \* handles of the other, one task each: they pop or close
  Items,
  MaxPush      \* bound: how many entries are ever pushed

ASSUME WatchAssumption ==
  /\ MaxPush \in Nat
  /\ Producers # {} /\ Consumers # {}

VARIABLES
  sent,        \* history: all entries pushed
  deque,       \* StateInner.value, the VecDeque
  epoch,       \* StateInner.epoch
  dropped,     \* StateInner.dropped is None
  wakers,      \* StateInner.wakers: the tasks they wake
  producers,   \* live handles of each side
  consumers,
  pc,          \* where each consumer's pop is
  seen,        \* StateChanged.epoch of its future
  woken        \* tasks the runtime has yet to poll again

queueVars == <<sent, deque, epoch, dropped, wakers, producers, consumers, pc, seen, woken>>

QueueInit ==
  /\ sent = <<>>
  /\ deque = <<>>
  /\ epoch = 0
  /\ dropped = FALSE
  /\ wakers = {}
  /\ producers = Producers
  /\ consumers = Consumers
  /\ pc = [c \in Consumers |-> "idle"]
  /\ seen = [c \in Consumers |-> 0]
  /\ woken = {}

(***************************************************************************)
(* StateInner.                                                             *)
(***************************************************************************)
\* Mutant: wakes nobody.
MNotifySilent ==
  /\ epoch' = epoch + 1
  /\ UNCHANGED <<woken, wakers>>

Notify ==
  /\ epoch' = epoch + 1
  /\ woken' = woken \cup wakers
  /\ wakers' = {}

\* Mutant: the epoch is not compared before the waker is registered.
MChanged(c) == FALSE
Changed(c) == epoch > seen[c]

(***************************************************************************)
(* Producers.                                                              *)
(***************************************************************************)
\* Mutant: does not look at dropped.
MPush(p, x) ==
  /\ p \in producers
  /\ Len(sent) < MaxPush
  /\ deque' = Append(deque, x)
  /\ sent' = Append(sent, x)
  /\ Notify
  /\ UNCHANGED <<dropped, producers, consumers, pc, seen>>

Push(p, x) ==
  /\ p \in producers
  /\ Len(sent) < MaxPush
  /\ ~dropped
  /\ deque' = Append(deque, x)
  /\ sent' = Append(sent, x)
  /\ Notify
  /\ UNCHANGED <<dropped, producers, consumers, pc, seen>>

\* StateDrop::drop runs for the last handle of a side.
LastHandle(side) ==
  IF side = {} THEN dropped' = TRUE /\ Notify
               ELSE UNCHANGED <<dropped, epoch, woken, wakers>>

DropProducer(p) ==
  /\ p \in producers
  /\ producers' = producers \ {p}
  /\ LastHandle(producers')
  /\ UNCHANGED <<sent, deque, consumers, pc, seen>>

(***************************************************************************)
(* Consumers.  pop is a loop: look; wait; poll until the state changed.    *)
(***************************************************************************)
Call(c) ==
  /\ c \in consumers
  /\ pc[c] = "idle"
  /\ pc' = [pc EXCEPT ![c] = "look"]
  /\ UNCHANGED <<sent, deque, epoch, dropped, wakers, producers, consumers, seen, woken>>

\* Mutant: takes the newest entry.
MLookPop(c) ==
  /\ deque # <<>> /\ ~dropped
  /\ deque' = SubSeq(deque, 1, Len(deque) - 1)
  /\ Notify
  /\ pc' = [pc EXCEPT ![c] = "idle"]
  /\ UNCHANGED seen

LookPop(c) ==
  /\ deque # <<>> /\ ~dropped
  /\ deque' = Tail(deque)
  /\ Notify
  /\ pc' = [pc EXCEPT ![c] = "idle"]
  /\ UNCHANGED seen

\* None, even with entries left in a dropped queue.
LookDropped(c) ==
  /\ dropped
  /\ pc' = [pc EXCEPT ![c] = "idle"]
  /\ UNCHANGED <<deque, epoch, woken, wakers, seen>>

LookEmpty(c) ==
  /\ deque = <<>> /\ ~dropped
  /\ seen' = [seen EXCEPT ![c] = epoch]
  /\ pc' = [pc EXCEPT ![c] = "poll"]
  /\ UNCHANGED <<deque, epoch, woken, wakers>>

Look(c) ==
  /\ pc[c] = "look"
  /\ LookPop(c) \/ LookDropped(c) \/ LookEmpty(c)
  /\ UNCHANGED <<sent, dropped, producers, consumers>>

\* StateChanged::poll, the first time or because the task was woken.
Poll(c) ==
  /\ pc[c] = "poll" \/ (pc[c] = "asleep" /\ c \in woken)
  /\ woken' = woken \ {c}
  /\ IF Changed(c)
     THEN pc' = [pc EXCEPT ![c] = "look"] /\ UNCHANGED wakers
     ELSE pc' = [pc EXCEPT ![c] = "asleep"] /\ wakers' = wakers \cup {c}
  /\ UNCHANGED <<sent, deque, epoch, dropped, producers, consumers, seen>>

\* select! took another branch: the future is dropped, its waker stays behind.
Cancel(c) ==
  /\ pc[c] \in {"poll", "asleep"}
  /\ pc' = [pc EXCEPT ![c] = "idle"]
  /\ UNCHANGED <<sent, deque, epoch, dropped, wakers, producers, consumers, seen, woken>>

\* Queue::close drains under the lock; dropping the handle is the next step.
Drain(c) ==
  /\ c \in consumers
  /\ pc[c] = "idle"
  /\ pc' = [pc EXCEPT ![c] = "closing"]
  /\ IF dropped THEN UNCHANGED <<deque, epoch, woken, wakers>>
                ELSE deque' = <<>> /\ Notify
  /\ UNCHANGED <<sent, dropped, producers, consumers, seen>>

DropConsumer(c) ==
  /\ c \in consumers
  /\ pc[c] \in {"idle", "closing"}
  /\ pc' = [pc EXCEPT ![c] = "idle"]
  /\ consumers' = consumers \ {c}
  /\ LastHandle(consumers')
  /\ UNCHANGED <<sent, deque, producers, seen>>

QueueNext ==
  \/ \E p \in Producers : (\E x \in Items : Push(p, x)) \/ DropProducer(p)
  \/ \E c \in Consumers :
       Call(c) \/ Look(c) \/ Poll(c) \/ Cancel(c) \/ Drain(c) \/ DropConsumer(c)

\* A task that is running runs on, and the runtime polls what was woken.
QueueFairness == \A c \in Consumers : WF_queueVars(Look(c)) /\ WF_queueVars(Poll(c))

QueueSpec == QueueInit /\ [][QueueNext]_queueVars
QueueFairSpec == QueueSpec /\ QueueFairness

-----------------------------------------------------------------------------
QueueTypeOK ==
  /\ sent \in Seq(Items)
  /\ deque \in Seq(Items)
  /\ epoch \in Nat
  /\ dropped \in BOOLEAN
  /\ wakers \in SUBSET Consumers
  /\ producers \in SUBSET Producers
  /\ consumers \in SUBSET Consumers
  /\ pc \in [Consumers -> {"idle", "look", "poll", "asleep", "closing"}]
  /\ seen \in [Consumers -> Nat]
  /\ woken \in SUBSET Consumers

(***************************************************************************)
(* No lost wakeup: a task that sleeps and that nobody has woken sleeps     *)
(* because there is nothing for it to do.  The window is between looking   *)
(* at the value and registering the waker, when the lock is free.          *)
(***************************************************************************)
Asleep(c) == pc[c] = "asleep" /\ c \notin woken

NoLostWakeup == \A c \in Consumers : Asleep(c) => deque = <<>> /\ ~dropped

(***************************************************************************)
(* A pop that has an entry to return, or a closed queue to report, returns *)
(* unless another consumer takes the entry first.                          *)
(***************************************************************************)
Popping(c) == pc[c] \in {"look", "poll", "asleep"}

PopReturns ==
  \A c \in Consumers :
    Popping(c) /\ (deque # <<>> \/ dropped) ~> ~Popping(c) \/ (deque = <<>> /\ ~dropped)

(***************************************************************************)
(* The queue implements its abstract specification: every entry is given   *)
(* out at most once, in order, and none is accepted after it closed.       *)
(***************************************************************************)
Abstract == INSTANCE ClosableQueue WITH
  taken <- Len(sent) - Len(deque),
  open <- ~dropped

\* What is left in the queue is the newest part of what was pushed.
QueueIsSuffix ==
  /\ Len(deque) <= Len(sent)
  /\ \A i \in 1..Len(deque) : deque[i] = sent[Len(sent) - Len(deque) + i]

ImplementsQueue == Abstract!Spec
=============================================================================
