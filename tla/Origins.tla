------------------------------- MODULE Origins -------------------------------
(***************************************************************************)
(* Where a namespace is served: the relays, the registry (moq-api, a redis *)
(* key per namespace) that names the one relay to fetch it from, and the   *)
(* announcements of publishers.  A relay that accepts an announcement      *)
(* (consumer.rs, Consumer::serve) writes itself at the API, registers the  *)
(* tracks in its own Locals, and refreshes the API every 300 seconds until *)
(* the announcement ends; then the registration and the origin go.         *)
(*                                                                         *)
(* One namespace: neither map relates two of them.  Time is counted in     *)
(* periods of 300 seconds: each announcement served refreshes once in each.*)
(***************************************************************************)
EXTENDS Integers

CONSTANTS
  Nodes,            \* the relays
  Announces,        \* the announcements ever made
  At,               \* the relay each is made to
  Nobody

ASSUME OriginsAssumption ==
  /\ At \in [Announces -> Nodes]
  /\ Nobody \notin Nodes \cup Announces

Lifetime == 2       \* a key lives 600 seconds

VARIABLES
  origin,           \* the key of the namespace at the API
  ttl,              \* whole periods before it expires
  call,             \* the set_origin request of each announcement, at the API server
  deleting,         \* the announcements whose dropped Refresh is to delete the origin
  due,              \* those whose next refresh has not been sent this period
  serve,            \* where Consumer::serve is, per announcement
  locals,           \* Locals.lookup of each relay
  link              \* the publisher's session: up, unannounced, or lost

api == <<origin, ttl>>
originsVars == <<api, call, deleting, due, serve, locals, link>>

OriginsInit ==
  /\ origin = Nobody
  /\ ttl = 0
  /\ call = [a \in Announces |-> "none"]
  /\ deleting = {}
  /\ due = {}
  /\ serve = [a \in Announces |-> "new"]
  /\ locals = [n \in Nodes |-> Nobody]
  /\ link = [a \in Announces |-> "up"]

(***************************************************************************)
(* The API.  set_origin is two commands: GET, and SET if there was none.   *)
(***************************************************************************)
\* The answer counts only if the relay still waits for it.
Accept(a) ==
  /\ call' = [call EXCEPT ![a] = "none"]
  /\ serve' = [serve EXCEPT ![a] = IF @ = "setting" THEN "registering" ELSE @]

Refuse(a) ==
  /\ call' = [call EXCEPT ![a] = IF serve[a] = "ended" THEN "none" ELSE "refused"]
  /\ UNCHANGED serve

\* Mutant: whatever the key holds is taken for the relay's own.
MGet(a) ==
  /\ call[a] = "get"
  /\ \/ origin # Nobody /\ Accept(a)
     \/ origin = Nobody /\ call' = [call EXCEPT ![a] = "set"] /\ UNCHANGED serve
  /\ UNCHANGED <<api, deleting, due, locals, link>>

\* The same value is success, and does not renew the key.
Get(a) ==
  /\ call[a] = "get"
  /\ \/ origin = Nobody /\ call' = [call EXCEPT ![a] = "set"] /\ UNCHANGED serve
     \/ origin = At[a] /\ Accept(a)
     \/ origin \notin {Nobody, At[a]} /\ Refuse(a)
  /\ UNCHANGED <<api, deleting, due, locals, link>>

\* Mutant: SET without NX.
MSet(a) ==
  /\ call[a] = "set"
  /\ origin' = At[a] /\ ttl' = Lifetime /\ Accept(a)
  /\ UNCHANGED <<deleting, due, locals, link>>

\* NX: only if there is still none.
Set(a) ==
  /\ call[a] = "set"
  /\ \/ origin = Nobody /\ origin' = At[a] /\ ttl' = Lifetime /\ Accept(a)
     \/ origin # Nobody /\ Refuse(a) /\ UNCHANGED api
  /\ UNCHANGED <<deleting, due, locals, link>>

\* The server fails the request, or only its answer is lost.
Fail(a) ==
  /\ call[a] \in {"get", "set"}
  /\ \/ UNCHANGED api
     \/ call[a] = "set" /\ origin = Nobody /\ origin' = At[a] /\ ttl' = Lifetime
  /\ Refuse(a)
  /\ UNCHANGED <<deleting, due, locals, link>>

\* The task spawned by Refresh::drop: the key goes, whoever it names, unless the
\* request fails.
Delete(a) ==
  /\ a \in deleting
  /\ deleting' = deleting \ {a}
  /\ \/ origin' = Nobody /\ ttl' = 0
     \/ UNCHANGED api
  /\ UNCHANGED <<call, due, serve, locals, link>>

Expire ==
  /\ origin # Nobody
  /\ ttl = 0
  /\ origin' = Nobody
  /\ UNCHANGED <<ttl, call, deleting, due, serve, locals, link>>

(***************************************************************************)
(* Consumer::serve.                                                        *)
(***************************************************************************)
\* A publisher announces; the relay asks the API first.
Announced(a) ==
  /\ serve[a] = "new"
  /\ serve' = [serve EXCEPT ![a] = "setting"]
  /\ call' = [call EXCEPT ![a] = "get"]
  /\ UNCHANGED <<api, deleting, due, locals, link>>

\* What goes when serve returns: the Registration, which removes the entry of the
\* namespace, and the Refresh, which spawns the deletion.  A request under way is
\* no longer waited for; the server may never get it, or go on with it.
Return(a) ==
  /\ serve' = [serve EXCEPT ![a] = "ended"]
  /\ deleting' = deleting \cup {a}
  /\ due' = due \ {a}
  /\ \/ call' = [call EXCEPT ![a] = "none"]
     \/ call[a] \in {"get", "set"} /\ UNCHANGED call

Unregister(a) == locals' = [locals EXCEPT ![At[a]] = Nobody]

\* Mutant: an entry already there is overwritten.
MRegister(a) ==
  /\ serve[a] = "registering"
  /\ locals' = [locals EXCEPT ![At[a]] = a]
  /\ serve' = [serve EXCEPT ![a] = "serving"]
  /\ UNCHANGED <<api, call, deleting, due, link>>

\* Locals::register, then AnnounceOk.  An entry of the namespace is a Duplicate,
\* which drops the Refresh just made.
Register(a) ==
  /\ serve[a] = "registering"
  /\ \/ /\ locals[At[a]] = Nobody
        /\ locals' = [locals EXCEPT ![At[a]] = a]
        /\ serve' = [serve EXCEPT ![a] = "serving"]
        /\ UNCHANGED <<call, deleting, due>>
     \/ locals[At[a]] # Nobody /\ Return(a) /\ UNCHANGED locals
  /\ UNCHANGED <<api, link>>

\* Refresh::run: the same request again.
Refresh(a) ==
  /\ a \in due
  /\ call[a] = "none"
  /\ call' = [call EXCEPT ![a] = "get"]
  /\ due' = due \ {a}
  /\ UNCHANGED <<api, deleting, serve, locals, link>>

\* Mutant: a refresh that is refused is only logged.
MRefused(a) ==
  /\ call[a] = "refused"
  /\ \/ /\ serve[a] = "setting"
        /\ Return(a)
     \/ /\ serve[a] = "serving"
        /\ call' = [call EXCEPT ![a] = "none"]
        /\ UNCHANGED <<deleting, due, serve>>
  /\ UNCHANGED <<api, locals, link>>

\* set_origin was refused or failed: the first drops the Refresh before there is a
\* registration, a later one ends the tasks of serve.
Refused(a) ==
  /\ call[a] = "refused"
  /\ Return(a)
  /\ \/ serve[a] = "serving" /\ Unregister(a)
     \/ serve[a] = "setting" /\ UNCHANGED locals
  /\ UNCHANGED <<api, link>>

\* The request fails at the relay while the server still has it, and may go on.
Abandon(a) ==
  /\ serve[a] \in {"setting", "serving"}
  /\ call[a] \in {"get", "set"}
  /\ Return(a)
  /\ \/ serve[a] = "serving" /\ Unregister(a)
     \/ serve[a] = "setting" /\ UNCHANGED locals
  /\ UNCHANGED <<api, link>>

\* Announced::closed, seen from the select loop only; or forwarding it failed.
Closed(a) ==
  /\ serve[a] = "serving"
  /\ link[a] = "unannounced"
  /\ Return(a)
  /\ Unregister(a)
  /\ UNCHANGED <<api, link>>

ForwardFails(a) ==
  /\ serve[a] = "serving"
  /\ Return(a)
  /\ Unregister(a)
  /\ UNCHANGED <<api, link>>

\* The publisher takes it back with Unannounce.  If its connection is lost instead,
\* nothing drops the AnnouncedRecv: the Announced itself holds the map it is in.
Unlink(a) ==
  /\ serve[a] \in {"setting", "registering", "serving"}
  /\ link[a] = "up"
  /\ \E l \in {"unannounced", "lost"} : link' = [link EXCEPT ![a] = l]
  /\ UNCHANGED <<api, call, deleting, due, serve, locals>>

-----------------------------------------------------------------------------
(***************************************************************************)
(* 300 seconds pass, in which every request was answered, every refresh    *)
(* due was sent, and a key out of time has expired.                        *)
(***************************************************************************)
Settled ==
  /\ \A a \in Announces :
       call[a] = "none" /\ serve[a] \notin {"setting", "registering"}
  /\ deleting = {}
  /\ due = {}
  /\ origin # Nobody => ttl > 0

Period ==
  /\ Settled
  /\ due' = {a \in Announces : serve[a] = "serving"}
  /\ ttl' = IF ttl > 0 THEN ttl - 1 ELSE 0
  /\ UNCHANGED <<origin, call, deleting, serve, locals, link>>

OriginsNext ==
  \/ Expire \/ Period
  \/ \E a \in Announces :
       \/ Get(a) \/ Set(a) \/ Fail(a) \/ Delete(a)
       \/ Announced(a) \/ Register(a) \/ Refresh(a) \/ Refused(a) \/ Abandon(a)
       \/ Closed(a) \/ ForwardFails(a) \/ Unlink(a)

\* Requests are answered, timers fire and tasks run.  Nobody has to announce, to
\* take it back, or to fail.
OriginsFairness ==
  /\ WF_originsVars(Expire) /\ WF_originsVars(Period)
  /\ \A a \in Announces :
       /\ WF_originsVars(Get(a)) /\ WF_originsVars(Set(a)) /\ WF_originsVars(Delete(a))
       /\ WF_originsVars(Register(a)) /\ WF_originsVars(Refresh(a)) /\ WF_originsVars(Refused(a))
       /\ WF_originsVars(Closed(a))

OriginsSpec == OriginsInit /\ [][OriginsNext]_originsVars
OriginsFairSpec == OriginsSpec /\ OriginsFairness

-----------------------------------------------------------------------------
OriginsTypeOK ==
  /\ origin \in Nodes \cup {Nobody}
  /\ ttl \in 0..Lifetime
  /\ call \in [Announces -> {"none", "get", "set", "refused"}]
  /\ deleting \in SUBSET Announces
  /\ due \in SUBSET Announces
  /\ serve \in [Announces -> {"new", "setting", "registering", "serving", "ended"}]
  /\ locals \in [Nodes -> Announces \cup {Nobody}]
  /\ link \in [Announces -> {"up", "unannounced", "lost"}]

Serving(a) == serve[a] = "serving"

(***************************************************************************)
(* A relay routes a namespace to the announcement that registered it and   *)
(* still serves it, and to no other: Registration::drop removes whatever   *)
(* is under the name, so nothing but its own entry may ever be there.      *)
(***************************************************************************)
LocalOwner ==
  \A a \in Announces, n \in Nodes :
    locals[n] = a <=> Serving(a) /\ At[a] = n

(***************************************************************************)
(* The registry never passes from one relay to another: however the two    *)
(* commands of set_origin interleave with others, with lost answers and    *)
(* with requests of announcements that ended, the key is removed first.    *)
(***************************************************************************)
NeverTaken == [][origin # Nobody => origin' \in {Nobody, origin}]_originsVars

(***************************************************************************)
(* Whatever deletes the key - its expiry, or the Refresh of an             *)
(* announcement that was refused although another one is served - a relay  *)
(* that goes on serving is found again at some later time.                 *)
(***************************************************************************)
OriginHeals ==
  \A a \in Announces : Serving(a) ~> origin = At[a] \/ ~Serving(a)

(***************************************************************************)
(* Two relays may both come to serve a namespace, as when the key of the   *)
(* first expired; the refreshes make one of them give it up.               *)
(***************************************************************************)
OneServes ==
  \A a, b \in Announces :
    At[a] # At[b] => (Serving(a) /\ Serving(b)) ~> ~(Serving(a) /\ Serving(b))
=============================================================================
