--------------------------- MODULE SessionAnnounce ---------------------------
(***************************************************************************)
(* The announcements of one session (session/announce.rs, announced.rs and *)
(* the handlers of publisher.rs and subscriber.rs).  The publisher         *)
(* announces namespaces; the application of the subscriber accepts or      *)
(* refuses each, and either side may end it.  Both sides and every message *)
(* name an announcement by its namespace only; the numbers below tell the  *)
(* announcements of one namespace apart and are not in the code.           *)
(***************************************************************************)
EXTENDS Integers, Sequences

CONSTANTS
  Namespaces,
  MaxAnnounces      \* bound: announcements ever made

ASSUME SessionAnnounceAssumption == MaxAnnounces \in Nat

Announces == 1..MaxAnnounces
None == 0

VARIABLES
  namespace,        \* the namespace of each announcement made, in order
  announce,         \* each Announce: open, failed (closed is Err), or on its way out
  accepted,         \* AnnounceState.ok
  announces,        \* Publisher.announces, by namespace
  toSub,            \* messages to the subscriber: outgoing queue and control stream
  toPub,            \* messages to the publisher
  announced,        \* each Announced: queued, ok, being dropped or gone
  entries,          \* Subscriber.announced, by namespace
  over              \* the subscriber ended the session

publisher == <<namespace, announce, accepted, announces>>
subscriber == <<announced, entries>>
vars == <<publisher, subscriber, toSub, toPub, over>>

Init ==
  /\ namespace = <<>>
  /\ announce = [a \in Announces |-> "none"]
  /\ accepted = [a \in Announces |-> FALSE]
  /\ announces = [n \in Namespaces |-> None]
  /\ toSub = <<>>
  /\ toPub = <<>>
  /\ announced = [a \in Announces |-> "none"]
  /\ entries = [n \in Namespaces |-> None]
  /\ over = FALSE

\* An Announce carries its number for the Announced it makes; no other message does.
ToSub(type, n, a) == toSub' = Append(toSub, [type |-> type, ns |-> n, of |-> a])
ToPub(type, n) == toPub' = Append(toPub, [type |-> type, ns |-> n])

(***************************************************************************)
(* The publisher.                                                          *)
(***************************************************************************)
\* A namespace already in the map is refused, locally, as a Duplicate.
Announce(n) ==
  LET a == Len(namespace) + 1 IN
  /\ a \in Announces
  /\ announces[n] = None
  /\ namespace' = Append(namespace, n)
  /\ announce' = [announce EXCEPT ![a] = "open"]
  /\ announces' = [announces EXCEPT ![n] = a]
  /\ ToSub("Announce", n, a)
  /\ UNCHANGED <<accepted, subscriber, toPub, over>>

\* Announce::drop reads closed under one lock: nothing more to do if it failed.
LookDrop(a) ==
  /\ announce[a] \in {"open", "failed"}
  /\ announce' =
       [announce EXCEPT ![a] = IF @ = "open" THEN "dropping" ELSE "dropped"]
  /\ UNCHANGED <<namespace, accepted, announces, subscriber, toSub, toPub, over>>

\* Otherwise send_message(Unannounce) removes the entry of the namespace under
\* another, and then pushes the message.
RemoveAnnounce(a) ==
  /\ announce[a] = "dropping"
  /\ announce' = [announce EXCEPT ![a] = "removed"]
  /\ announces' = [announces EXCEPT ![namespace[a]] = None]
  /\ UNCHANGED <<namespace, accepted, subscriber, toSub, toPub, over>>

Unannounce(a) ==
  /\ announce[a] = "removed"
  /\ announce' = [announce EXCEPT ![a] = "dropped"]
  /\ ToSub("Unannounce", namespace[a], a)
  /\ UNCHANGED <<namespace, accepted, announces, subscriber, toPub, over>>

\* Mutant: an AnnounceOk is taken for all that was announced.
MRecvAnnounceOk(m) ==
  /\ accepted' = [a \in Announces |-> accepted[a] \/ announce[a] = "open"]
  /\ UNCHANGED <<announce, announces>>

\* recv_announce_ok; a second one is a Duplicate, and logged.
RecvAnnounceOk(m) ==
  /\ accepted' = [a \in Announces |-> accepted[a] \/ a = announces[m.ns]]
  /\ UNCHANGED <<announce, announces>>

\* recv_announce_error and recv_announce_cancel remove the entry and fail it.
RecvAnnounceEnd(m) ==
  /\ announces' = [announces EXCEPT ![m.ns] = None]
  /\ announce' = [a \in Announces |->
                    IF a = announces[m.ns] /\ announce[a] = "open"
                    THEN "failed" ELSE announce[a]]
  /\ UNCHANGED accepted

RecvPub ==
  /\ ~over
  /\ toPub # <<>>
  /\ toPub' = Tail(toPub)
  /\ LET m == Head(toPub) IN
     \/ m.type = "AnnounceOk" /\ RecvAnnounceOk(m)
     \/ m.type \in {"AnnounceError", "AnnounceCancel"} /\ RecvAnnounceEnd(m)
  /\ UNCHANGED <<namespace, subscriber, toSub, over>>

(***************************************************************************)
(* The subscriber.                                                         *)
(***************************************************************************)
\* recv_announce: a namespace that has an entry ends the session.
RecvAnnounce(m) ==
  \/ /\ entries[m.ns] = None
     /\ entries' = [entries EXCEPT ![m.ns] = m.of]
     /\ announced' = [announced EXCEPT ![m.of] = "queued"]
     /\ UNCHANGED over
  \/ /\ entries[m.ns] # None
     /\ over' = TRUE
     /\ UNCHANGED subscriber

\* Mutant: the entry stays, and with it the state Announced.closed() waits for.
MRecvUnannounce(m) == UNCHANGED <<subscriber, over>>

\* recv_unannounce: Announced.closed() returns once the entry is removed.
RecvUnannounce(m) ==
  /\ entries' = [entries EXCEPT ![m.ns] = None]
  /\ UNCHANGED <<announced, over>>

RecvSub ==
  /\ ~over
  /\ toSub # <<>>
  /\ toSub' = Tail(toSub)
  /\ LET m == Head(toSub) IN
     \/ m.type = "Announce" /\ RecvAnnounce(m)
     \/ m.type = "Unannounce" /\ RecvUnannounce(m)
  /\ UNCHANGED <<publisher, toPub>>

\* The application pops each Announced and accepts it, or drops it, in tasks of its
\* own and so in any order.
Ok(a) ==
  /\ announced[a] = "queued"
  /\ announced' = [announced EXCEPT ![a] = "ok"]
  /\ ToPub("AnnounceOk", namespace[a])
  /\ UNCHANGED <<publisher, entries, toSub, over>>

\* Announced::drop, to refuse it or after it was ok: send_message removes the entry
\* of the namespace, and then pushes the message.
RemoveAnnounced(a) ==
  /\ announced[a] \in {"queued", "ok"}
  /\ announced' =
       [announced EXCEPT ![a] = IF @ = "ok" THEN "cancelling" ELSE "refusing"]
  /\ entries' = [entries EXCEPT ![namespace[a]] = None]
  /\ UNCHANGED <<publisher, toSub, toPub, over>>

\* Mutant: a refusal is answered like an acceptance.
MReplyOf(a) == IF announced[a] = "cancelling" THEN "AnnounceCancel" ELSE "AnnounceOk"
ReplyOf(a) == IF announced[a] = "cancelling" THEN "AnnounceCancel" ELSE "AnnounceError"

CancelAnnounced(a) ==
  /\ announced[a] \in {"cancelling", "refusing"}
  /\ announced' = [announced EXCEPT ![a] = "gone"]
  /\ ToPub(ReplyOf(a), namespace[a])
  /\ UNCHANGED <<publisher, entries, toSub, over>>

-----------------------------------------------------------------------------
Next ==
  \/ \E n \in Namespaces : Announce(n)
  \/ \E a \in Announces :
       \/ LookDrop(a) \/ RemoveAnnounce(a) \/ Unannounce(a)
       \/ Ok(a) \/ RemoveAnnounced(a) \/ CancelAnnounced(a)
  \/ RecvPub \/ RecvSub

\* Messages arrive, and a drop once begun is finished; the applications promise nothing.
Fairness ==
  /\ WF_vars(RecvPub) /\ WF_vars(RecvSub)
  /\ \A a \in Announces : WF_vars(RemoveAnnounce(a) \/ Unannounce(a) \/ CancelAnnounced(a))

Spec == Init /\ [][Next]_vars
FairSpec == Spec /\ Fairness

-----------------------------------------------------------------------------
Messages ==
  [type : {"Announce", "Unannounce"}, ns : Namespaces, of : Announces]

Replies ==
  [type : {"AnnounceOk", "AnnounceError", "AnnounceCancel"}, ns : Namespaces]

TypeOK ==
  /\ namespace \in Seq(Namespaces)
  /\ announce \in [Announces -> {"none", "open", "failed", "dropping", "removed", "dropped"}]
  /\ accepted \in [Announces -> BOOLEAN]
  /\ announces \in [Namespaces -> Announces \cup {None}]
  /\ toSub \in Seq(Messages)
  /\ toPub \in Seq(Replies)
  /\ announced \in [Announces -> {"none", "queued", "ok", "cancelling", "refusing", "gone"}]
  /\ entries \in [Namespaces -> Announces \cup {None}]
  /\ over \in BOOLEAN

\* Announcement a is the only one its namespace ever had.
Once(a) == \A b \in DOMAIN namespace : namespace[b] = namespace[a] => b = a

(***************************************************************************)
(* A namespace announced only once never costs the session, and counts as  *)
(* accepted only if the subscriber did accept it.                          *)
(***************************************************************************)
Sound ==
  /\ over => \E a \in DOMAIN namespace : ~Once(a)
  /\ \A a \in DOMAIN namespace :
       accepted[a] /\ Once(a) => announced[a] \in {"ok", "cancelling", "gone"}

\* The message that tells the other side of an end of this namespace is under way.
EndSent(n) ==
  \E k \in DOMAIN toPub :
    toPub[k].ns = n /\ toPub[k].type \in {"AnnounceError", "AnnounceCancel"}
UnannounceSent(n) == \E k \in DOMAIN toSub : toSub[k].ns = n /\ toSub[k].type = "Unannounce"

(***************************************************************************)
(* No end is lost where the two sides cross: of a namespace announced only *)
(* once, the Announce does not stay open after the Announced is gone, nor  *)
(* the entry after the Announce is, unless the message that ends it is on  *)
(* its way.                                                                *)
(***************************************************************************)
EndUnderWay ==
  \A a \in DOMAIN namespace : Once(a) =>
    /\ announced[a] = "gone" /\ announce[a] = "open" => EndSent(namespace[a])
    /\ announce[a] = "dropped" /\ entries[namespace[a]] = a => UnannounceSent(namespace[a])

(***************************************************************************)
(* Each side learns that the other ended the announcement, whatever        *)
(* messages cross.  The publisher does for a namespace announced once.     *)
(* The subscriber does whenever the publisher sends Unannounce, reused     *)
(* namespaces included: the entry goes and does not come back, though the  *)
(* Announce may still be on its way.                                       *)
(***************************************************************************)
BothLearn ==
  \A a \in Announces :
    /\ announced[a] = "gone" ~> announce[a] # "open" \/ ~Once(a) \/ over
    /\ announce[a] = "removed" ~> [](\A n \in Namespaces : entries[n] # a) \/ over

(***************************************************************************)
(* subscriber.rs:77: remove our entry on terminal state.  The entry        *)
(* removed is that of the namespace, which may by then belong to a later   *)
(* announcement; its Announced is closed although nobody ended it.         *)
(***************************************************************************)
RemovesOwnEntry ==
  [][\A a \in Announces :
       announced[a] \in {"queued", "ok"} /\ announced'[a] \in {"cancelling", "refusing"} =>
         \A n \in Namespaces : entries'[n] # entries[n] => entries[n] = a]_vars
=============================================================================
