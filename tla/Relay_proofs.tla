---------------------------- MODULE Relay_proofs ----------------------------
(***************************************************************************)
(* How the relays find each other's broadcasts, for any relays,            *)
(* announcements and requests.  Origins: a relay routes to the             *)
(* announcement that registered and still serves, and the origin never     *)
(* passes from one relay to another.  Remotes: one Remote at a time to     *)
(* each URL, the one in the lookup, no key kept for a track nobody reads,  *)
(* and no request that waits without somebody who owes it an answer.       *)
(***************************************************************************)
EXTENDS Origins, Remotes, TLAPS

(***************************************************************************)
(* Origins.  What a relay has in its Locals is its own and is being        *)
(* served.                                                                 *)
(***************************************************************************)
OriginsInv == OriginsTypeOK /\ LocalOwner

USE OriginsAssumption

LEMMA InitOriginsInv == OriginsInit => OriginsInv
  BY DEF OriginsInit, OriginsInv, OriginsTypeOK, LocalOwner, Serving, Lifetime

(***************************************************************************)
(* One step preserves the types.                                           *)
(***************************************************************************)
LEMMA AcceptType ==
  ASSUME OriginsTypeOK, NEW a \in Announces, Accept(a)
  PROVE  /\ call' \in [Announces -> {"none", "get", "set", "refused"}]
         /\ serve' \in [Announces -> {"new", "setting", "registering", "serving", "ended"}]
         /\ \A b \in Announces : Serving(b)' <=> Serving(b)
  BY DEF OriginsTypeOK, Accept, Serving

LEMMA RefuseType ==
  ASSUME OriginsTypeOK, NEW a \in Announces, Refuse(a)
  PROVE  /\ call' \in [Announces -> {"none", "get", "set", "refused"}]
         /\ serve' = serve
  BY DEF OriginsTypeOK, Refuse

LEMMA ReturnType ==
  ASSUME OriginsTypeOK, NEW a \in Announces, Return(a)
  PROVE  /\ call' \in [Announces -> {"none", "get", "set", "refused"}]
         /\ serve' \in [Announces -> {"new", "setting", "registering", "serving", "ended"}]
         /\ deleting' \in SUBSET Announces
         /\ due' \in SUBSET Announces
         /\ \A b \in Announces : Serving(b)' <=> Serving(b) /\ b # a
  BY DEF OriginsTypeOK, Return, Serving

LEMMA OriginsTypeStep == OriginsTypeOK /\ [OriginsNext]_originsVars => OriginsTypeOK'
<1> SUFFICES ASSUME OriginsTypeOK, [OriginsNext]_originsVars PROVE OriginsTypeOK'
  OBVIOUS
<1> USE DEF Lifetime
<1>1. CASE Expire
  BY <1>1 DEF Expire, OriginsTypeOK
<1>2. CASE Period
  BY <1>2 DEF Period, OriginsTypeOK
<1>3. ASSUME NEW a \in Announces, Get(a) PROVE OriginsTypeOK'
  <2>1. CASE origin = Nobody /\ call' = [call EXCEPT ![a] = "set"] /\ UNCHANGED serve
    BY <1>3, <2>1 DEF Get, OriginsTypeOK, api
  <2>2. CASE Accept(a)
    BY <1>3, <2>2, AcceptType DEF Get, OriginsTypeOK, api
  <2>3. CASE Refuse(a)
    BY <1>3, <2>3, RefuseType DEF Get, OriginsTypeOK, api
  <2> QED
    BY <1>3, <2>1, <2>2, <2>3 DEF Get
<1>4. ASSUME NEW a \in Announces, Set(a) PROVE OriginsTypeOK'
  <2>1. CASE origin = Nobody /\ origin' = At[a] /\ ttl' = Lifetime /\ Accept(a)
    BY <1>4, <2>1, AcceptType DEF Set, OriginsTypeOK
  <2>2. CASE Refuse(a) /\ UNCHANGED api
    BY <1>4, <2>2, RefuseType DEF Set, OriginsTypeOK, api
  <2> QED
    BY <1>4, <2>1, <2>2 DEF Set
<1>5. ASSUME NEW a \in Announces, Fail(a) PROVE OriginsTypeOK'
  <2>1. /\ origin' \in Nodes \cup {Nobody}
        /\ ttl' \in 0..Lifetime
    BY <1>5 DEF Fail, OriginsTypeOK, api
  <2> QED
    BY <1>5, <2>1, RefuseType DEF Fail, OriginsTypeOK
<1>6. ASSUME NEW a \in Announces, Delete(a) PROVE OriginsTypeOK'
  BY <1>6 DEF Delete, OriginsTypeOK, api
<1>7. ASSUME NEW a \in Announces, Announced(a) PROVE OriginsTypeOK'
  BY <1>7 DEF Announced, OriginsTypeOK, api
<1>8. ASSUME NEW a \in Announces, Register(a) PROVE OriginsTypeOK'
  <2>1. CASE locals[At[a]] = Nobody
    BY <1>8, <2>1 DEF Register, OriginsTypeOK, api
  <2>2. CASE Return(a) /\ UNCHANGED locals
    BY <1>8, <2>2, ReturnType DEF Register, OriginsTypeOK, api
  <2> QED
    BY <1>8, <2>1, <2>2 DEF Register
<1>9. ASSUME NEW a \in Announces, Refresh(a) PROVE OriginsTypeOK'
  BY <1>9 DEF Refresh, OriginsTypeOK, api
<1>10. ASSUME NEW a \in Announces, Return(a), Unregister(a) \/ UNCHANGED locals,
              UNCHANGED <<api, link>>
       PROVE  OriginsTypeOK'
  <2>1. locals' \in [Nodes -> Announces \cup {Nobody}]
    BY <1>10 DEF Unregister, OriginsTypeOK
  <2> QED
    BY <1>10, <2>1, ReturnType DEF OriginsTypeOK, api
<1>11. ASSUME NEW a \in Announces, Unlink(a) PROVE OriginsTypeOK'
  BY <1>11 DEF Unlink, OriginsTypeOK, api
<1>12. CASE UNCHANGED originsVars
  BY <1>12 DEF originsVars, OriginsTypeOK, api
<1> QED
  BY <1>1, <1>2, <1>3, <1>4, <1>5, <1>6, <1>7, <1>8, <1>9, <1>10, <1>11, <1>12
  DEF OriginsNext, Refused, Abandon, Closed, ForwardFails

(***************************************************************************)
(* One step preserves the ownership of the entries.                        *)
(***************************************************************************)
LEMMA OwnerStep == OriginsInv /\ [OriginsNext]_originsVars => LocalOwner'
<1> SUFFICES ASSUME OriginsTypeOK, LocalOwner, [OriginsNext]_originsVars PROVE LocalOwner'
  BY DEF OriginsInv
<1>1. ASSUME UNCHANGED locals, \A b \in Announces : Serving(b)' <=> Serving(b)
      PROVE  LocalOwner'
  BY <1>1 DEF LocalOwner
<1>2. CASE Expire \/ Period
  BY <1>1, <1>2 DEF Expire, Period, Serving
<1>3. ASSUME NEW a \in Announces, Get(a) \/ Set(a) \/ Fail(a) PROVE LocalOwner'
  <2>1. UNCHANGED locals
    BY <1>3 DEF Get, Set, Fail
  <2>2. UNCHANGED serve \/ Accept(a)
    BY <1>3 DEF Get, Set, Fail, Refuse
  <2> QED
    BY <1>1, <2>1, <2>2, AcceptType DEF Serving
<1>4. ASSUME NEW a \in Announces, Delete(a) \/ Refresh(a) \/ Unlink(a) PROVE LocalOwner'
  BY <1>1, <1>4 DEF Delete, Refresh, Unlink, Serving
<1>5. ASSUME NEW a \in Announces, Announced(a) PROVE LocalOwner'
  BY <1>1, <1>5 DEF Announced, Serving, OriginsTypeOK
<1>6. ASSUME NEW a \in Announces, Return(a), Unregister(a), Serving(a) PROVE LocalOwner'
  <2>1. locals[At[a]] = a
    BY <1>6 DEF LocalOwner
  <2>2. \A n \in Nodes : locals'[n] = IF n = At[a] THEN Nobody ELSE locals[n]
    BY <1>6 DEF Unregister, OriginsTypeOK
  <2> QED
    BY <1>6, <2>1, <2>2, ReturnType DEF LocalOwner
<1>7. ASSUME NEW a \in Announces, Return(a), UNCHANGED locals, ~Serving(a) PROVE LocalOwner'
  BY <1>1, <1>7, ReturnType
<1>8. ASSUME NEW a \in Announces, Register(a) PROVE LocalOwner'
  <2>1. CASE Return(a) /\ UNCHANGED locals
    BY <1>7, <1>8, <2>1 DEF Register, Serving
  <2>2. CASE /\ locals[At[a]] = Nobody
             /\ locals' = [locals EXCEPT ![At[a]] = a]
             /\ serve' = [serve EXCEPT ![a] = "serving"]
    <3>1. \A n \in Nodes : locals'[n] = IF n = At[a] THEN a ELSE locals[n]
      BY <2>2 DEF OriginsTypeOK
    <3>2. \A b \in Announces : Serving(b)' <=> Serving(b) \/ b = a
      BY <2>2 DEF Serving, OriginsTypeOK
    <3>3. ~Serving(a)
      BY <1>8 DEF Register, Serving
    <3> QED
      BY <2>2, <3>1, <3>2, <3>3 DEF LocalOwner
  <2> QED
    BY <1>8, <2>1, <2>2 DEF Register
<1>9. ASSUME NEW a \in Announces, Refused(a) \/ Abandon(a) PROVE LocalOwner'
  BY <1>6, <1>7, <1>9 DEF Refused, Abandon, Serving
<1>10. ASSUME NEW a \in Announces, Closed(a) \/ ForwardFails(a) PROVE LocalOwner'
  BY <1>6, <1>10 DEF Closed, ForwardFails, Serving
<1>11. CASE UNCHANGED originsVars
  BY <1>1, <1>11 DEF originsVars, Serving
<1> QED
  BY <1>2, <1>3, <1>4, <1>5, <1>8, <1>9, <1>10, <1>11 DEF OriginsNext

LEMMA OriginsInductive == OriginsSpec => []OriginsInv
<1>1. OriginsInv /\ [OriginsNext]_originsVars => OriginsInv'
  BY OriginsTypeStep, OwnerStep DEF OriginsInv
<1> QED
  BY InitOriginsInv, <1>1, PTL DEF OriginsSpec

(***************************************************************************)
(* The variables hold what the code's hold, in every state.                *)
(***************************************************************************)
THEOREM OriginsTypeCorrect == OriginsSpec => []OriginsTypeOK
  BY OriginsInductive, PTL DEF OriginsInv

(***************************************************************************)
(* Locals::lookup names the announcement being served at this relay, so    *)
(* Registration::drop removes its own entry and no other.                  *)
(***************************************************************************)
THEOREM OriginsLocalOwner == OriginsSpec => []LocalOwner
  BY OriginsInductive, PTL DEF OriginsInv

(***************************************************************************)
(* set_origin's two commands never replace one relay's origin by another's.*)
(***************************************************************************)
THEOREM OriginsNeverTaken == OriginsSpec => NeverTaken
<1>1. [OriginsNext]_originsVars => [origin # Nobody => origin' \in {Nobody, origin}]_originsVars
  <2> SUFFICES ASSUME OriginsNext, origin # Nobody PROVE origin' \in {Nobody, origin}
    OBVIOUS
  <2> QED
    BY DEF OriginsNext, Expire, Period, Get, Set, Fail, Delete, Announced, Register, Refresh,
           Refused, Abandon, Closed, ForwardFails, Unlink, api
<1> QED
  BY <1>1, PTL DEF OriginsSpec, NeverTaken

-----------------------------------------------------------------------------
(***************************************************************************)
(* The inductive invariant.  A request makes its Remote when it is routed, *)
(* and its track when it subscribes, never before; a queued Remote is not  *)
(* started yet, and is queued once; the key in a Remote's map is of a      *)
(* track requested of that Remote.                                         *)
(***************************************************************************)
Early == {"new", "local", "told"}

RequestOrder ==
  \A q \in Requests :
    /\ req[q] \in Early => remote[q] = "none" /\ via[q] = None
    /\ req[q] = "told" => url[q] \in Urls
    /\ req[q] = "routed" => via[q] \in Requests
    /\ IF req[q] \in {"waiting", "served"} THEN track[q] \in Requests ELSE track[q] = None

QueuedOnce ==
  \A i \in 1..Len(requested) :
    /\ remote[requested[i]] = "requested"
    /\ \A j \in 1..Len(requested) : requested[i] = requested[j] => i = j

OwnTrack == \A r \in Requests : tracks[r] # None => via[tracks[r]] = r

RemotesInv == TypeOK /\ RequestOrder /\ QueuedOnce /\ OwnTrack /\ RemoteOnce /\ NoStaleTrack

USE RemotesAssumption

LEMMA InitRemotesInv == Init => RemotesInv
  BY DEF Init, RemotesInv, TypeOK, RequestOrder, Early, QueuedOnce, OwnTrack, RemoteOnce,
         NoStaleTrack, Readers, Dropped

\* Facts about the queue of Remotes.
LEMMA AppendFact ==
  ASSUME NEW S, NEW s \in Seq(S), NEW e \in S
  PROVE  /\ Append(s, e) \in Seq(S)
         /\ Len(Append(s, e)) = Len(s) + 1
         /\ \A i \in 1..Len(s) : Append(s, e)[i] = s[i]
         /\ Append(s, e)[Len(s) + 1] = e
  OBVIOUS

LEMMA TailFact ==
  ASSUME NEW S, NEW s \in Seq(S), s # <<>>
  PROVE  /\ Tail(s) \in Seq(S)
         /\ Head(s) \in S
         /\ Head(s) = s[1]
         /\ Len(s) \in Nat /\ Len(s) > 0
         /\ Len(Tail(s)) = Len(s) - 1
         /\ \A i \in 1..Len(Tail(s)) : Tail(s)[i] = s[i + 1]
  OBVIOUS

(***************************************************************************)
(* Types.                                                                  *)
(***************************************************************************)
LEMMA TypeStep == TypeOK /\ RequestOrder /\ [Next]_vars => TypeOK'
<1> SUFFICES ASSUME TypeOK, RequestOrder, [Next]_vars PROVE TypeOK'
  OBVIOUS
<1> USE DEF requests
<1>1. CASE Start
  BY <1>1, TailFact DEF Start, TypeOK
<1>2. ASSUME NEW q \in Requests, ServeLocal(q) PROVE TypeOK'
  BY <1>2 DEF ServeLocal, TypeOK
<1>3. ASSUME NEW q \in Requests, GetOrigin(q) PROVE TypeOK'
  <2>1. url' \in [Requests -> Urls \cup {None}]
    BY <1>3 DEF GetOrigin, TypeOK
  <2>2. \E s \in {"told", "refused"} : req' = [req EXCEPT ![q] = s]
    BY <1>3 DEF GetOrigin
  <2> QED
    BY <1>3, <2>1, <2>2 DEF GetOrigin, TypeOK
<1>4. ASSUME NEW q \in Requests, Route(q) PROVE TypeOK'
  <2>1. url[q] \in Urls
    BY <1>4 DEF Route, RequestOrder
  <2>2. Append(requested, q) \in Seq(Requests)
    BY AppendFact DEF TypeOK
  <2>3. via' \in [Requests -> Requests \cup {None}]
    <3>1. lookup[url[q]] \in Requests \cup {None}
      BY <2>1 DEF TypeOK
    <3>2. \E v \in Requests \cup {None} : via' = [via EXCEPT ![q] = v]
      BY <1>4, <3>1 DEF Route
    <3> QED
      BY <3>2 DEF TypeOK
  <2>4. lookup' \in [Urls -> Requests \cup {None}]
    BY <1>4, <2>1 DEF Route, TypeOK
  <2>5. remote' \in [Requests -> {"none", "requested", "connecting", "running", "dead", "gone"}]
    BY <1>4 DEF Route, TypeOK
  <2>6. requested' \in Seq(Requests)
    BY <1>4, <2>2 DEF Route, TypeOK
  <2> QED
    BY <1>4, <2>3, <2>4, <2>5, <2>6 DEF Route, TypeOK
<1>5. ASSUME NEW q \in Requests, Subscribe(q) PROVE TypeOK'
  <2> DEFINE r == via[q]
  <2>1. r \in Requests
    BY <1>5 DEF Subscribe, RequestOrder
  <2>2. Append(queue[r], q) \in Seq(Requests)
    BY <2>1, AppendFact DEF TypeOK
  <2>3. UNCHANGED <<url, via, lookup, requested, remote, dropping>>
    BY <1>5 DEF Subscribe
  <2> HIDE DEF r
  <2>4. CASE Join(q, r)
    <3>1. tracks[r] \in Requests
      BY <2>1, <2>4 DEF Join, Found, TypeOK
    <3> QED
      BY <2>3, <2>4, <3>1 DEF Join, TypeOK
  <2>5. CASE Miss(q, r)
    BY <2>3, <2>5 DEF Miss, TypeOK
  <2>6. CASE Request(q, r)
    <3>1. tracks' \in [Requests -> Requests \cup {None}]
      BY <2>1, <2>6 DEF Request, TypeOK
    <3>2. queue' \in [Requests -> Seq(Requests)]
      BY <2>1, <2>2, <2>6 DEF Request, TypeOK
    <3> QED
      BY <2>3, <2>6, <3>1, <3>2 DEF Request, TypeOK
  <2> QED
    BY <1>5, <2>4, <2>5, <2>6 DEF Subscribe, r
<1>6. ASSUME NEW q \in Requests, Learn(q) PROVE TypeOK'
  BY <1>6 DEF Learn, TypeOK
<1>7. ASSUME NEW q \in Requests, Leave(q) PROVE TypeOK'
  BY <1>7 DEF Leave, RequestOrder, TypeOK
<1>8. ASSUME NEW q \in Requests, DropTrack(q) PROVE TypeOK'
  BY <1>8 DEF DropTrack, TypeOK
<1>9. ASSUME NEW q \in Requests, Connect(q) PROVE TypeOK'
  BY <1>9 DEF Connect, TypeOK
<1>10. ASSUME NEW q \in Requests, Take(q) PROVE TypeOK'
  BY <1>10, TailFact DEF Take, TypeOK
<1>11. ASSUME NEW q \in Requests, Upstream(q) PROVE TypeOK'
  BY <1>11 DEF Upstream, TypeOK
<1>12. ASSUME NEW q \in Requests, SessionEnds(q) PROVE TypeOK'
  BY <1>12 DEF SessionEnds, TypeOK
<1>13. ASSUME NEW q \in Requests, Reap(q) PROVE TypeOK'
  BY <1>13 DEF Reap, TypeOK
<1>14. CASE UNCHANGED vars
  BY <1>14 DEF vars, TypeOK
<1> QED
  BY <1>1, <1>2, <1>3, <1>4, <1>5, <1>6, <1>7, <1>8, <1>9, <1>10, <1>11, <1>12, <1>13, <1>14
  DEF Next

(***************************************************************************)
(* RequestOrder.                                                           *)
(***************************************************************************)
LEMMA OrderStep == RemotesInv /\ [Next]_vars => RequestOrder'
<1> SUFFICES ASSUME TypeOK, RequestOrder, QueuedOnce, [Next]_vars PROVE RequestOrder'
  BY DEF RemotesInv
<1> USE DEF requests, Early
<1>1. CASE Start
  <2>1. Head(requested) \in Requests /\ remote[Head(requested)] = "requested"
    BY <1>1, TailFact DEF Start, TypeOK, QueuedOnce
  <2> QED
    BY <1>1, <2>1 DEF Start, RequestOrder, TypeOK
<1>2. ASSUME NEW q \in Requests, ServeLocal(q) PROVE RequestOrder'
  BY <1>2 DEF ServeLocal, RequestOrder, TypeOK
<1>3. ASSUME NEW q \in Requests, GetOrigin(q) PROVE RequestOrder'
  <2>1. /\ req[q] = "new" /\ UNCHANGED <<via, track, remote>>
        /\ \A s \in Requests : s # q => req'[s] = req[s] /\ url'[s] = url[s]
    BY <1>3 DEF GetOrigin, TypeOK
  <2>2. \/ req'[q] = "told" /\ url'[q] \in Urls
        \/ req'[q] = "refused"
    BY <1>3 DEF GetOrigin, TypeOK
  <2> QED
    BY <2>1, <2>2 DEF RequestOrder
<1>4. ASSUME NEW q \in Requests, Route(q) PROVE RequestOrder'
  BY <1>4 DEF Route, RequestOrder, TypeOK
<1>5. ASSUME NEW q \in Requests, Subscribe(q) PROVE RequestOrder'
  <2>1. /\ req[q] = "routed" /\ via[q] \in Requests
        /\ UNCHANGED <<url, via, remote>>
    BY <1>5 DEF Subscribe, RequestOrder
  <2>2. CASE \E t \in Requests : /\ track' = [track EXCEPT ![q] = t]
                                /\ req' = [req EXCEPT ![q] = "waiting"]
    BY <2>1, <2>2 DEF RequestOrder, TypeOK
  <2>3. CASE UNCHANGED track /\ req' = [req EXCEPT ![q] = "refused"]
    BY <2>1, <2>3 DEF RequestOrder, TypeOK
  <2>4. CASE Join(q, via[q])
    <3>1. tracks[via[q]] \in Requests
      BY <2>1, <2>4 DEF Join, Found, TypeOK
    <3> QED
      BY <2>2, <2>4, <3>1 DEF Join
  <2> QED
    BY <1>5, <2>2, <2>3, <2>4 DEF Subscribe, Request, Miss
<1>6. ASSUME NEW q \in Requests, Learn(q) PROVE RequestOrder'
  BY <1>6 DEF Learn, RequestOrder, TypeOK
<1>7. ASSUME NEW q \in Requests, Leave(q) PROVE RequestOrder'
  BY <1>7 DEF Leave, RequestOrder, TypeOK
<1>8. ASSUME NEW q \in Requests, DropTrack(q) PROVE RequestOrder'
  BY <1>8 DEF DropTrack, RequestOrder
<1>9. ASSUME NEW q \in Requests, Connect(q) \/ SessionEnds(q) \/ Reap(q) PROVE RequestOrder'
  BY <1>9 DEF Connect, SessionEnds, Reap, RequestOrder, TypeOK
<1>10. ASSUME NEW q \in Requests, Take(q) \/ Upstream(q) PROVE RequestOrder'
  BY <1>10 DEF Take, Upstream, RequestOrder
<1>11. CASE UNCHANGED vars
  BY <1>11 DEF vars, RequestOrder
<1> QED
  BY <1>1, <1>2, <1>3, <1>4, <1>5, <1>6, <1>7, <1>8, <1>9, <1>10, <1>11 DEF Next

(***************************************************************************)
(* The queue of Remotes.                                                   *)
(***************************************************************************)
LEMMA QueuedStep == RemotesInv /\ [Next]_vars => QueuedOnce'
<1> SUFFICES ASSUME TypeOK, RequestOrder, QueuedOnce, [Next]_vars PROVE QueuedOnce'
  BY DEF RemotesInv
<1> USE DEF requests
<1>0. requested \in Seq(Requests) /\ \A i \in 1..Len(requested) : requested[i] \in Requests
  BY DEF TypeOK
<1>1. CASE Start
  <2> DEFINE h == Head(requested)
  <2>1. requested # <<>> /\ requested' = Tail(requested)
    BY <1>1 DEF Start
  <2>2. /\ h = requested[1] /\ h \in Requests
        /\ Len(requested) \in Nat /\ Len(requested) > 0
        /\ Len(requested') = Len(requested) - 1
        /\ \A i \in 1..Len(requested') : requested'[i] = requested[i + 1]
    BY <1>0, <2>1, TailFact
  <2>3. \A r \in Requests : r # h => remote'[r] = remote[r]
    BY <1>1 DEF Start, TypeOK
  <2>4. ASSUME NEW i \in 1..Len(requested')
        PROVE  remote'[requested'[i]] = "requested"
    <3>1. i + 1 \in 1..Len(requested) /\ 1 \in 1..Len(requested) /\ i + 1 # 1
      BY <2>2
    <3>2. requested[i + 1] # h
      BY <2>2, <3>1 DEF QueuedOnce
    <3> QED
      BY <1>0, <2>2, <2>3, <3>1, <3>2 DEF QueuedOnce
  <2>5. ASSUME NEW i \in 1..Len(requested'), NEW j \in 1..Len(requested'),
               requested'[i] = requested'[j]
        PROVE  i = j
    <3>1. i + 1 \in 1..Len(requested) /\ j + 1 \in 1..Len(requested)
      BY <2>2
    <3>2. i + 1 = j + 1
      BY <2>2, <2>5, <3>1 DEF QueuedOnce
    <3> QED
      BY <2>2, <3>2
  <2> QED
    BY <2>4, <2>5 DEF QueuedOnce
<1>2. ASSUME UNCHANGED requested,
             \A r \in Requests : remote[r] = "requested" => remote'[r] = "requested"
      PROVE  QueuedOnce'
  BY <1>0, <1>2 DEF QueuedOnce
<1>3. ASSUME NEW q \in Requests, Route(q) PROVE QueuedOnce'
  <2>1. CASE UNCHANGED <<lookup, requested, remote>>
    BY <1>2, <2>1
  <2>2. CASE requested' = Append(requested, q) /\ remote' = [remote EXCEPT ![q] = "requested"]
    <3> DEFINE n == Len(requested)
    <3>1. /\ n \in Nat
          /\ Len(requested') = n + 1
          /\ \A i \in 1..n : requested'[i] = requested[i]
          /\ requested'[n + 1] = q
      BY <1>0, <2>2, AppendFact
    <3>2. remote[q] = "none"
      BY <1>3 DEF Route, RequestOrder, Early
    <3>3. \A i \in 1..n : requested[i] # q
      BY <3>2 DEF QueuedOnce
    <3>4. \A r \in Requests : remote'[r] = IF r = q THEN "requested" ELSE remote[r]
      BY <2>2 DEF TypeOK
    <3>5. \A i \in 1..Len(requested') : i \in 1..n \/ i = n + 1
      BY <3>1
    <3>6. \A i \in 1..Len(requested') : remote'[requested'[i]] = "requested"
      BY <1>0, <3>1, <3>4, <3>5 DEF QueuedOnce
    <3>7. \A i, j \in 1..Len(requested') : requested'[i] = requested'[j] => i = j
      BY <3>1, <3>3, <3>5 DEF QueuedOnce
    <3> QED
      BY <3>6, <3>7 DEF QueuedOnce
  <2> QED
    BY <1>3, <2>1, <2>2 DEF Route
<1>4. ASSUME NEW q \in Requests, Connect(q) \/ SessionEnds(q) \/ Reap(q) PROVE QueuedOnce'
  BY <1>2, <1>4 DEF Connect, SessionEnds, Reap, TypeOK
<1>5. ASSUME NEW q \in Requests,
             ServeLocal(q) \/ GetOrigin(q) \/ Subscribe(q) \/ Learn(q) \/ Leave(q)
               \/ DropTrack(q) \/ Take(q) \/ Upstream(q)
      PROVE  QueuedOnce'
  BY <1>2, <1>5 DEF ServeLocal, GetOrigin, Subscribe, Learn, Leave, DropTrack, Take, Upstream
<1>6. CASE UNCHANGED vars
  BY <1>2, <1>6 DEF vars
<1> QED
  BY <1>1, <1>3, <1>4, <1>5, <1>6 DEF Next

(***************************************************************************)
(* The keys of the tracks.                                                 *)
(***************************************************************************)
LEMMA OwnStep == RemotesInv /\ [Next]_vars => OwnTrack'
<1> SUFFICES ASSUME TypeOK, RequestOrder, OwnTrack, [Next]_vars PROVE OwnTrack'
  BY DEF RemotesInv
<1> USE DEF requests
<1>1. ASSUME UNCHANGED <<tracks, via>> PROVE OwnTrack'
  BY <1>1 DEF OwnTrack
<1>2. CASE Start \/ UNCHANGED vars
  BY <1>1, <1>2 DEF Start, vars
<1>3. ASSUME NEW q \in Requests, Route(q) PROVE OwnTrack'
  <2>1. via[q] = None /\ UNCHANGED tracks
    BY <1>3 DEF Route, RequestOrder, Early
  <2>2. \A s \in Requests : s # q => via'[s] = via[s]
    BY <1>3 DEF Route, TypeOK
  <2>3. \A r \in Requests : tracks[r] # q
    BY <2>1 DEF OwnTrack
  <2> QED
    BY <2>1, <2>2, <2>3 DEF OwnTrack, TypeOK
<1>4. ASSUME NEW q \in Requests, Subscribe(q) PROVE OwnTrack'
  <2>1. via[q] \in Requests /\ UNCHANGED via
    BY <1>4 DEF Subscribe, RequestOrder
  <2>2. tracks' = [tracks EXCEPT ![via[q]] = q] \/ UNCHANGED tracks
    BY <1>4 DEF Subscribe, Join, Request, Miss
  <2>3. \A r \in Requests : tracks'[r] = tracks[r] \/ (r = via[q] /\ tracks'[r] = q)
    BY <2>1, <2>2 DEF TypeOK
  <2> QED
    BY <2>1, <2>3 DEF OwnTrack
<1>5. ASSUME NEW q \in Requests, DropTrack(q) PROVE OwnTrack'
  BY <1>5 DEF DropTrack, OwnTrack, TypeOK
<1>6. ASSUME NEW q \in Requests,
             ServeLocal(q) \/ GetOrigin(q) \/ Learn(q) \/ Leave(q) \/ Connect(q)
               \/ Take(q) \/ Upstream(q) \/ SessionEnds(q) \/ Reap(q)
      PROVE  OwnTrack'
  BY <1>1, <1>6 DEF ServeLocal, GetOrigin, Learn, Leave, Connect, Take, Upstream,
                    SessionEnds, Reap
<1> QED
  BY <1>2, <1>3, <1>4, <1>5, <1>6 DEF Next

(***************************************************************************)
(* One Remote to each URL.                                                 *)
(***************************************************************************)
LEMMA OnceStep == RemotesInv /\ [Next]_vars => RemoteOnce'
<1> SUFFICES ASSUME TypeOK, RequestOrder, QueuedOnce, RemoteOnce, [Next]_vars PROVE RemoteOnce'
  BY DEF RemotesInv
<1> USE DEF requests
<1>1. ASSUME UNCHANGED <<lookup, url>>,
             \A r \in Requests : remote'[r] \in {"none", "gone"} <=> remote[r] \in {"none", "gone"}
      PROVE  RemoteOnce'
  BY <1>1 DEF RemoteOnce
<1>2. CASE Start
  <2>1. Head(requested) \in Requests /\ remote[Head(requested)] = "requested"
    BY <1>2, TailFact DEF Start, TypeOK, QueuedOnce
  <2> QED
    BY <1>1, <1>2, <2>1 DEF Start, TypeOK
<1>3. ASSUME NEW q \in Requests, GetOrigin(q) PROVE RemoteOnce'
  <2>1. remote[q] = "none" /\ UNCHANGED <<lookup, remote>>
    BY <1>3 DEF GetOrigin, RequestOrder, Early
  <2>2. \A r \in Requests : r # q => url'[r] = url[r]
    BY <1>3 DEF GetOrigin, TypeOK
  <2> QED
    BY <2>1, <2>2 DEF RemoteOnce
<1>4. ASSUME NEW q \in Requests, Route(q) PROVE RemoteOnce'
  <2>1. CASE UNCHANGED <<lookup, requested, remote>>
    BY <1>1, <1>4, <2>1 DEF Route
  <2>2. CASE /\ lookup[url[q]] = None
             /\ lookup' = [lookup EXCEPT ![url[q]] = q]
             /\ remote' = [remote EXCEPT ![q] = "requested"]
    <3>1. url[q] \in Urls /\ remote[q] = "none" /\ UNCHANGED url
      BY <1>4 DEF Route, RequestOrder, Early
    <3>2. \A u \in Urls : lookup'[u] = IF u = url[q] THEN q ELSE lookup[u]
      BY <2>2 DEF TypeOK
    <3>3. \A r \in Requests : remote'[r] = IF r = q THEN "requested" ELSE remote[r]
      BY <2>2 DEF TypeOK
    <3> QED
      BY <2>2, <3>1, <3>2, <3>3 DEF RemoteOnce
  <2> QED
    BY <1>4, <2>1, <2>2 DEF Route
<1>5. ASSUME NEW r \in Requests, Reap(r) PROVE RemoteOnce'
  <2>1. \A u \in Urls : lookup'[u] = IF u = url[r] THEN None ELSE lookup[u]
    BY <1>5 DEF Reap, TypeOK
  <2>2. \A s \in Requests : remote'[s] = IF s = r THEN "gone" ELSE remote[s]
    BY <1>5 DEF Reap, TypeOK
  <2>3. remote[r] = "dead" /\ UNCHANGED url
    BY <1>5 DEF Reap
  <2> QED
    BY <2>1, <2>2, <2>3 DEF RemoteOnce
<1>6. ASSUME NEW r \in Requests, Connect(r) \/ SessionEnds(r) PROVE RemoteOnce'
  BY <1>1, <1>6 DEF Connect, SessionEnds, TypeOK
<1>7. ASSUME NEW q \in Requests,
             ServeLocal(q) \/ Subscribe(q) \/ Learn(q) \/ Leave(q) \/ DropTrack(q)
               \/ Take(q) \/ Upstream(q)
      PROVE  RemoteOnce'
  BY <1>1, <1>7 DEF ServeLocal, Subscribe, Learn, Leave, DropTrack, Take, Upstream
<1>8. CASE UNCHANGED vars
  BY <1>1, <1>8 DEF vars
<1> QED
  BY <1>2, <1>3, <1>4, <1>5, <1>6, <1>7, <1>8 DEF Next

(***************************************************************************)
(* No key of a track nobody reads.                                         *)
(***************************************************************************)
LEMMA StaleStep == RemotesInv /\ [Next]_vars => NoStaleTrack'
<1> SUFFICES ASSUME TypeOK, RequestOrder, QueuedOnce, OwnTrack, NoStaleTrack, [Next]_vars
             PROVE  NoStaleTrack'
  BY DEF RemotesInv
<1> USE DEF requests
<1>1. ASSUME UNCHANGED <<tracks, track, dropping>>,
             \A r \in Requests : tracks[r] # None /\ Dropped(r) => Dropped(r)'
      PROVE  NoStaleTrack'
  BY <1>1 DEF NoStaleTrack, Readers
<1>2. CASE Start
  <2>1. Head(requested) \in Requests /\ remote[Head(requested)] = "requested"
    BY <1>2, TailFact DEF Start, TypeOK, QueuedOnce
  <2> QED
    BY <1>1, <1>2, <2>1 DEF Start, TypeOK, Dropped
<1>3. ASSUME NEW q \in Requests, Route(q) PROVE NoStaleTrack'
  <2>1. remote[q] = "none"
    BY <1>3 DEF Route, RequestOrder, Early
  <2> QED
    BY <1>1, <1>3, <2>1 DEF Route, TypeOK, Dropped
<1>4. ASSUME NEW q \in Requests, Subscribe(q) PROVE NoStaleTrack'
  <2> DEFINE r == via[q]
  <2>1. r \in Requests /\ UNCHANGED <<dropping, remote, via>>
    BY <1>4 DEF Subscribe, RequestOrder
  <2>2. CASE Miss(q, r)
    BY <1>1, <1>4, <2>1, <2>2 DEF Subscribe, Miss, Dropped
  <2>3. CASE Join(q, r) \/ Request(q, r)
    <3>1. \A s \in Requests : s # q => track'[s] = track[s]
      BY <2>3 DEF Join, Request, TypeOK
    <3>2. track'[q] = tracks'[r]
      <4>1. CASE Join(q, r)
        BY <4>1 DEF Join, TypeOK
      <4>2. CASE Request(q, r)
        BY <2>1, <4>2 DEF Request, TypeOK
      <4> QED
        BY <2>3, <4>1, <4>2
    <3>5. Readers(tracks[r])' # {}
      BY <2>1, <3>2 DEF Readers
    <3>3. \A s \in Requests : s # r => tracks'[s] = tracks[s]
      BY <2>3 DEF Join, Request, TypeOK
    <3>4. ASSUME NEW s \in Requests, s # r, tracks[s] # None, ~Dropped(s),
                 Readers(tracks[s]) # {}, tracks[s] \notin dropping
          PROVE  Readers(tracks[s])' # {}
      <4>1. PICK p \in Requests : track[p] = tracks[s]
        BY <3>4 DEF Readers
      <4>2. p # q
        BY <1>4, <3>4, <4>1 DEF Subscribe, RequestOrder
      <4> QED
        BY <3>1, <3>3, <3>4, <4>1, <4>2 DEF Readers
    <3>6. SUFFICES ASSUME NEW s \in Requests, tracks'[s] # None, ~Dropped(s)', s # r
                   PROVE  Readers(tracks[s])' # {} \/ tracks'[s] \in dropping'
      BY <2>1, <3>5 DEF NoStaleTrack
    <3>7. tracks[s] # None /\ ~Dropped(s) /\ tracks'[s] = tracks[s]
      BY <2>1, <3>3, <3>6 DEF Dropped
    <3> QED
      BY <2>1, <3>4, <3>6, <3>7 DEF NoStaleTrack
  <2> QED
    BY <1>4, <2>2, <2>3 DEF Subscribe
<1>5. ASSUME NEW q \in Requests, Leave(q) PROVE NoStaleTrack'
  <2>1. /\ track' = [track EXCEPT ![q] = None]
        /\ UNCHANGED <<tracks, remote>>
        /\ dropping' = IF Readers(track[q]) = {q} THEN dropping \cup {track[q]} ELSE dropping
    BY <1>5 DEF Leave
  <2>2. ASSUME NEW r \in Requests, tracks[r] # None, ~Dropped(r),
               Readers(tracks[r]) # {}, tracks[r] \notin dropping'
        PROVE  Readers(tracks[r])' # {}
    <3>1. Readers(tracks[r]) # {q}
      <4>1. Readers(tracks[r]) = {q} => track[q] = tracks[r]
        BY DEF Readers
      <4> QED
        BY <2>1, <2>2, <4>1
    <3>2. PICK p \in Requests : p # q /\ track[p] = tracks[r]
      BY <2>2, <3>1 DEF Readers
    <3> QED
      BY <2>1, <3>2 DEF Readers, TypeOK
  <2> QED
    BY <2>1, <2>2 DEF NoStaleTrack, Dropped
<1>6. ASSUME NEW t \in Requests, DropTrack(t) PROVE NoStaleTrack'
  <2>1. UNCHANGED <<remote, track>> /\ dropping' = dropping \ {t}
    BY <1>6 DEF DropTrack, requests
  <2>2. \A r \in Requests :
          ~Dropped(r) /\ tracks'[r] # None => tracks'[r] = tracks[r] /\ tracks[r] # t
    <3> SUFFICES ASSUME NEW r \in Requests, ~Dropped(r), tracks'[r] # None
                 PROVE  tracks'[r] = tracks[r] /\ tracks[r] # t
      OBVIOUS
    <3>1. tracks'[r] = tracks[r]
      BY <1>6 DEF DropTrack, TypeOK
    <3>2. r # via[t]
      BY <1>6 DEF DropTrack, TypeOK
    <3> QED
      BY <3>1, <3>2 DEF OwnTrack
  <2> QED
    BY <2>1, <2>2 DEF NoStaleTrack, Readers, Dropped
<1>7. ASSUME NEW r \in Requests, Connect(r) \/ SessionEnds(r) \/ Reap(r) PROVE NoStaleTrack'
  BY <1>1, <1>7 DEF Connect, SessionEnds, Reap, Dropped, TypeOK
<1>8. ASSUME NEW q \in Requests,
             ServeLocal(q) \/ GetOrigin(q) \/ Learn(q) \/ Take(q) \/ Upstream(q)
      PROVE  NoStaleTrack'
  BY <1>1, <1>8 DEF ServeLocal, GetOrigin, Learn, Take, Upstream, Dropped
<1>9. CASE UNCHANGED vars
  BY <1>1, <1>9 DEF vars, Dropped
<1> QED
  BY <1>2, <1>3, <1>4, <1>5, <1>6, <1>7, <1>8, <1>9 DEF Next

LEMMA Inductive == Spec => []RemotesInv
<1>1. RemotesInv /\ [Next]_vars => RemotesInv'
  BY TypeStep, OrderStep, QueuedStep, OwnStep, OnceStep, StaleStep DEF RemotesInv
<1> QED
  BY InitRemotesInv, <1>1, PTL DEF Spec

(***************************************************************************)
(* The variables hold what the code's hold, in every state.                *)
(***************************************************************************)
THEOREM RemotesTypeOK == Spec => []TypeOK
  BY Inductive, PTL DEF RemotesInv

(***************************************************************************)
(* One Remote at a time to each URL, the one RemotesState.lookup names.    *)
(***************************************************************************)
THEOREM RemotesOnce == Spec => []RemoteOnce
  BY Inductive, PTL DEF RemotesInv

(***************************************************************************)
(* However RemoteTrackDrop interleaves with RemoteConsumer::subscribe, the *)
(* map of a live Remote keeps no key of a track without readers.           *)
(***************************************************************************)
THEOREM RemotesNoStaleTrack == Spec => []NoStaleTrack
  BY Inductive, PTL DEF RemotesInv

-----------------------------------------------------------------------------
(***************************************************************************)
(* Who owes an answer.  Requested: a Remote that was requested is in the   *)
(* queue of RemotesProducer::run.  Written: each TrackWriter is in the     *)
(* queue of its Remote, with a session that runs, or has a mode or is      *)
(* gone.  SameRemote: a request reads a track of the Remote it took.       *)
(***************************************************************************)
In(x, s) == \E i \in DOMAIN s : s[i] = x

Requested == \A r \in Requests : remote[r] = "requested" => In(r, requested)

Taken ==
  \A q \in Requests : via[q] # None => via[q] \in Requests /\ remote[via[q]] # "none"

QueuedHere == \A r \in Requests : \A i \in DOMAIN queue[r] : via[queue[r][i]] = r

Written ==
  \A t \in Requests :
    /\ writer[t] # "none" => via[t] \in Requests
    /\ writer[t] = "queued" => In(t, queue[via[t]])
    /\ writer[t] \in {"taken", "serving"} => remote[via[t]] = "running"

SameRemote ==
  /\ \A r \in Requests : tracks[r] # None => writer[tracks[r]] # "none"
  /\ \A q \in Requests : track[q] # None => via[track[q]] = via[q] /\ writer[track[q]] # "none"

HandInv == Requested /\ Taken /\ QueuedHere /\ Written /\ SameRemote

(***************************************************************************)
(* A request that waits is answered already, or upstream owes the answer   *)
(* to a session that runs, or its track is in the queue of its Remote; and *)
(* that Remote is queued for a task, or was given one.                     *)
(***************************************************************************)
InHand(q) ==
  \/ writer[track[q]] \in {"serving", "closed"}
  \/ writer[track[q]] = "taken" /\ remote[via[q]] = "running"
  \/ /\ writer[track[q]] = "queued"
     /\ In(track[q], queue[via[q]])
     /\ In(via[q], requested) \/ remote[via[q]] \notin {"none", "requested"}

WaitingInHand == \A q \in Requests : req[q] = "waiting" => InHand(q)

LEMMA InAppend ==
  ASSUME NEW S, NEW s \in Seq(S), NEW e \in S
  PROVE  In(e, Append(s, e)) /\ \A x : In(x, s) => In(x, Append(s, e))
<1>1. /\ DOMAIN s = 1..Len(s) /\ Len(s) \in Nat
      /\ DOMAIN Append(s, e) = 1..(Len(s) + 1)
  BY AppendFact
<1>2. /\ Append(s, e)[Len(s) + 1] = e
      /\ \A i \in 1..Len(s) : Append(s, e)[i] = s[i]
  BY AppendFact
<1> QED
  BY <1>1, <1>2 DEF In

LEMMA InTail ==
  ASSUME NEW S, NEW s \in Seq(S), s # <<>>
  PROVE  /\ \A x : In(x, s) => x = Head(s) \/ In(x, Tail(s))
         /\ \A x : In(x, Tail(s)) => In(x, s)
         /\ In(Head(s), s)
<1>1. /\ DOMAIN s = 1..Len(s) /\ DOMAIN Tail(s) = 1..(Len(s) - 1)
      /\ Len(s) \in Nat /\ Len(s) > 0 /\ Head(s) = s[1]
  BY TailFact
<1>2. \A i \in 1..(Len(s) - 1) : Tail(s)[i] = s[i + 1]
  BY TailFact
<1>3. ASSUME NEW x, In(x, s), x # Head(s) PROVE In(x, Tail(s))
  <2>1. PICK i \in 1..Len(s) : s[i] = x
    BY <1>1, <1>3 DEF In
  <2>2. i - 1 \in 1..(Len(s) - 1) /\ (i - 1) + 1 = i
    BY <1>1, <1>3, <2>1
  <2>3. Tail(s)[i - 1] = x
    BY <1>2, <2>1, <2>2
  <2> QED
    BY <1>1, <2>2, <2>3 DEF In
<1>4. ASSUME NEW x, In(x, Tail(s)) PROVE In(x, s)
  <2>1. PICK i \in 1..(Len(s) - 1) : Tail(s)[i] = x
    BY <1>1, <1>4 DEF In
  <2>2. i + 1 \in 1..Len(s) /\ s[i + 1] = x
    BY <1>1, <1>2, <2>1
  <2> QED
    BY <1>1, <2>2 DEF In
<1>5. In(Head(s), s)
  BY <1>1 DEF In
<1> QED
  BY <1>3, <1>4, <1>5

\* A step that moves no track and no writer, and no Remote but forward.
LEMMA HandKept ==
  ASSUME HandInv, UNCHANGED <<via, queue, writer, requested>>,
         tracks' = tracks \/ \E r \in Requests : tracks' = [tracks EXCEPT ![r] = None],
         track' = track \/ \E q \in Requests : track' = [track EXCEPT ![q] = None],
         tracks \in [Requests -> Requests \cup {None}],
         track \in [Requests -> Requests \cup {None}],
         \A r \in Requests : /\ remote'[r] = "requested" => remote[r] = "requested"
                             /\ remote'[r] = "none" => remote[r] = "none"
                             /\ remote[r] = "running" => remote'[r] = "running"
  PROVE  HandInv'
<1>1. \A r \in Requests : tracks'[r] \in {tracks[r], None} /\ track'[r] \in {track[r], None}
  OBVIOUS
<1>2. Requested' /\ Taken' /\ QueuedHere'
  BY DEF HandInv, Requested, Taken, QueuedHere, In
<1>3. Written'
  BY DEF HandInv, Written, In
<1>4. SameRemote'
  BY <1>1 DEF HandInv, SameRemote
<1> QED
  BY <1>2, <1>3, <1>4 DEF HandInv

LEMMA HandRoute ==
  ASSUME RemotesInv, HandInv, NEW q \in Requests, Route(q)
  PROVE  HandInv'
<1>1. /\ via \in [Requests -> Requests \cup {None}] /\ requested \in Seq(Requests)
      /\ remote \in [Requests ->
                       {"none", "requested", "connecting", "running", "dead", "gone"}]
      /\ track \in [Requests -> Requests \cup {None}]
      /\ tracks \in [Requests -> Requests \cup {None}]
      /\ queue \in [Requests -> Seq(Requests)]
      /\ lookup \in [Urls -> Requests \cup {None}]
  BY DEF RemotesInv, TypeOK
<1>2. /\ req[q] = "told" /\ url[q] \in Urls /\ via[q] = None /\ remote[q] = "none"
      /\ track[q] = None
  BY DEF Route, RemotesInv, RequestOrder, Early
<1>3. UNCHANGED <<url, track, tracks, queue, writer>>
  BY DEF Route
<1>4. PICK v \in Requests : /\ via' = [via EXCEPT ![q] = v]
                            /\ \/ UNCHANGED <<requested, remote>> /\ remote[v] # "none"
                               \/ /\ v = q /\ requested' = Append(requested, q)
                                  /\ remote' = [remote EXCEPT ![q] = "requested"]
  <2>1. CASE lookup[url[q]] # None /\ via' = [via EXCEPT ![q] = lookup[url[q]]]
             /\ UNCHANGED <<lookup, requested, remote>>
    <3>1. lookup[url[q]] \in Requests
      BY <1>1, <1>2, <2>1
    <3>2. remote[lookup[url[q]]] # "none"
      BY <1>2, <3>1 DEF RemotesInv, RemoteOnce
    <3> QED
      BY <2>1, <3>1, <3>2
  <2>2. CASE /\ via' = [via EXCEPT ![q] = q]
             /\ requested' = Append(requested, q)
             /\ remote' = [remote EXCEPT ![q] = "requested"]
    BY <2>2
  <2> QED
    BY <2>1, <2>2 DEF Route
<1>5. /\ \A s \in Requests : s # q => via'[s] = via[s]
      /\ via'[q] = v
      /\ \A s \in Requests : remote[s] # "none" => remote'[s] = remote[s]
      /\ remote'[v] # "none"
  BY <1>1, <1>2, <1>4
<1>6. Requested'
  <2>1. CASE UNCHANGED <<requested, remote>>
    BY <2>1 DEF HandInv, Requested
  <2>2. CASE requested' = Append(requested, q) /\ remote' = [remote EXCEPT ![q] = "requested"]
    BY <1>1, <2>2, InAppend DEF HandInv, Requested
  <2> QED
    BY <1>4, <2>1, <2>2
<1>7. Taken'
  BY <1>5 DEF HandInv, Taken
<1>8. QueuedHere'
  <2>1. ASSUME NEW r \in Requests, NEW i \in DOMAIN queue[r] PROVE via'[queue[r][i]] = r
    <3>1. via[queue[r][i]] = r /\ queue[r][i] \in Requests
      BY <1>1 DEF HandInv, QueuedHere
    <3>2. queue[r][i] # q
      BY <1>2, <3>1, RemotesAssumption
    <3> QED
      BY <1>5, <3>1, <3>2
  <2> QED
    BY <1>3, <2>1 DEF QueuedHere
<1>9. Written'
  <2>1. \A t \in Requests : writer[t] # "none" => t # q
    BY <1>2, RemotesAssumption DEF HandInv, Written
  <2>2. ASSUME NEW t \in Requests, writer[t] # "none"
        PROVE  /\ via'[t] \in Requests
               /\ writer[t] = "queued" => In(t, queue[via'[t]])
               /\ writer[t] \in {"taken", "serving"} => remote'[via'[t]] = "running"
    BY <1>5, <2>1, <2>2 DEF HandInv, Written
  <2> QED
    BY <1>3, <2>2 DEF Written
<1>10. SameRemote'
  <2>1. ASSUME NEW s \in Requests, track[s] # None
        PROVE  via'[track[s]] = via'[s] /\ writer[track[s]] # "none"
    <3>1. track[s] \in Requests /\ via[track[s]] = via[s] /\ writer[track[s]] # "none" /\ s # q
      BY <1>1, <1>2, <2>1 DEF HandInv, SameRemote
    <3>2. via[track[s]] \in Requests
      BY <3>1 DEF HandInv, Written
    <3>3. track[s] # q
      BY <1>2, <3>2, RemotesAssumption
    <3> QED
      BY <1>5, <3>1, <3>3
  <2> QED
    BY <1>3, <2>1 DEF HandInv, SameRemote
<1> QED
  BY <1>6, <1>7, <1>8, <1>9, <1>10 DEF HandInv

LEMMA HandSubscribe ==
  ASSUME RemotesInv, HandInv, NEW q \in Requests, Subscribe(q)
  PROVE  HandInv'
<1> PICK r : r = via[q]
  OBVIOUS
<1>1. /\ writer \in [Requests -> {"none", "queued", "taken", "serving", "closed"}]
      /\ track \in [Requests -> Requests \cup {None}]
      /\ tracks \in [Requests -> Requests \cup {None}]
      /\ queue \in [Requests -> Seq(Requests)]
  BY DEF RemotesInv, TypeOK
<1>2. /\ r \in Requests /\ UNCHANGED <<via, requested, remote>>
      /\ Join(q, r) \/ Request(q, r) \/ Miss(q, r)
  BY DEF Subscribe, RemotesInv, RequestOrder
<1>3. Requested' /\ Taken'
  BY <1>2 DEF HandInv, Requested, Taken
<1>4. CASE Miss(q, r)
  BY <1>1, <1>2, <1>4, HandKept DEF Miss
<1>5. CASE Join(q, r)
  <2>1. tracks[r] \in Requests /\ via[tracks[r]] = r /\ writer[tracks[r]] # "none"
    BY <1>1, <1>2, <1>5 DEF Join, Found, RemotesInv, OwnTrack, HandInv, SameRemote
  <2>2. QueuedHere' /\ Written'
    BY <1>2, <1>5 DEF Join, HandInv, QueuedHere, Written, In
  <2>3. SameRemote'
    BY <1>1, <1>2, <1>5, <2>1 DEF Join, HandInv, SameRemote
  <2> QED
    BY <1>3, <2>2, <2>3 DEF HandInv
<1>6. CASE Request(q, r)
  <2>1. /\ tracks' = [tracks EXCEPT ![r] = q]
        /\ queue' = [queue EXCEPT ![r] = Append(queue[r], q)]
        /\ writer' = [writer EXCEPT ![q] = "queued"]
        /\ track' = [track EXCEPT ![q] = q]
    BY <1>6 DEF Request
  <2>2. queue[r] \in Seq(Requests) /\ queue'[r] = Append(queue[r], q)
    BY <1>1, <1>2, <2>1
  <2>3. \A s \in Requests : s # r => queue'[s] = queue[s]
    BY <1>1, <2>1
  <2>4. \A s \in Requests, x \in Requests : In(x, queue[s]) => In(x, queue'[s])
    <3>1. \A x : In(x, queue[r]) => In(x, queue'[r])
      BY <2>2, InAppend
    <3> QED
      BY <2>3, <3>1
  <2>5. In(q, queue'[r])
    BY <2>2, InAppend
  <2>6. QueuedHere'
    <3>1. ASSUME NEW s \in Requests, NEW i \in DOMAIN queue'[s] PROVE via[queue'[s][i]] = s
      <4>1. CASE s # r
        BY <2>3, <3>1, <4>1 DEF HandInv, QueuedHere
      <4>2. CASE s = r
        <5>1. /\ DOMAIN queue[r] = 1..Len(queue[r]) /\ Len(queue[r]) \in Nat
              /\ DOMAIN queue'[r] = 1..(Len(queue[r]) + 1)
              /\ queue'[r][Len(queue[r]) + 1] = q
              /\ \A k \in 1..Len(queue[r]) : queue'[r][k] = queue[r][k]
          BY <2>2, AppendFact
        <5>2. i \in DOMAIN queue[r] \/ i = Len(queue[r]) + 1
          BY <3>1, <4>2, <5>1
        <5> QED
          BY <4>2, <5>1, <5>2 DEF HandInv, QueuedHere
      <4> QED
        BY <4>1, <4>2
    <3> QED
      BY <1>2, <3>1 DEF QueuedHere
  <2>7. Written'
    <3>1. ASSUME NEW t \in Requests, writer'[t] # "none"
          PROVE  /\ via[t] \in Requests
                 /\ writer'[t] = "queued" => In(t, queue'[via[t]])
                 /\ writer'[t] \in {"taken", "serving"} => remote[via[t]] = "running"
      <4>1. CASE t = q
        BY <1>1, <1>2, <2>1, <2>5, <4>1
      <4>2. CASE t # q
        <5>1. writer'[t] = writer[t]
          BY <1>1, <2>1, <4>2
        <5> QED
          BY <2>4, <3>1, <5>1 DEF HandInv, Written
      <4> QED
        BY <4>1, <4>2
    <3> QED
      BY <1>2, <3>1 DEF Written
  <2>8. SameRemote'
    <3>1. \A t \in Requests : writer[t] # "none" => writer'[t] # "none"
      BY <1>1, <2>1
    <3>2. writer'[q] # "none"
      BY <1>1, <2>1
    <3>3. \A s \in Requests : tracks'[s] \in {tracks[s], q}
      BY <1>1, <2>1
    <3>4. \A s \in Requests : track'[s] = IF s = q THEN q ELSE track[s]
      BY <1>1, <2>1
    <3>5. \A s \in Requests : tracks'[s] # None => writer'[tracks'[s]] # "none"
      BY <1>1, <3>1, <3>2, <3>3 DEF HandInv, SameRemote
    <3>6. ASSUME NEW s \in Requests, track'[s] # None
          PROVE  via[track'[s]] = via[s] /\ writer'[track'[s]] # "none"
      <4>1. CASE s = q
        BY <3>2, <3>4, <4>1
      <4>2. CASE s # q
        BY <1>1, <3>1, <3>4, <3>6, <4>2 DEF HandInv, SameRemote
      <4> QED
        BY <4>1, <4>2
    <3> QED
      BY <1>2, <3>5, <3>6 DEF SameRemote
  <2> QED
    BY <1>3, <2>6, <2>7, <2>8 DEF HandInv
<1> QED
  BY <1>2, <1>4, <1>5, <1>6

LEMMA HandTake ==
  ASSUME RemotesInv, HandInv, NEW r \in Requests, Take(r)
  PROVE  HandInv'
<1> PICK t : t = Head(queue[r])
  OBVIOUS
<1>1. /\ writer \in [Requests -> {"none", "queued", "taken", "serving", "closed"}]
      /\ track \in [Requests -> Requests \cup {None}]
      /\ tracks \in [Requests -> Requests \cup {None}]
      /\ queue \in [Requests -> Seq(Requests)]
  BY DEF RemotesInv, TypeOK
<1>2. /\ remote[r] = "running" /\ queue[r] # <<>> /\ queue[r] \in Seq(Requests)
      /\ queue' = [queue EXCEPT ![r] = Tail(queue[r])]
      /\ writer' = [writer EXCEPT ![t] = "taken"]
      /\ UNCHANGED <<requests, requested, remote, tracks>>
  BY <1>1 DEF Take
<1>3. UNCHANGED <<via, track>>
  BY <1>2 DEF requests
<1>4. /\ t \in Requests /\ 1 \in DOMAIN queue[r] /\ t = queue[r][1]
  BY <1>2, TailFact
<1>5. via[t] = r
  BY <1>4 DEF HandInv, QueuedHere
<1>6. /\ queue'[r] = Tail(queue[r])
      /\ \A s \in Requests : s # r => queue'[s] = queue[s]
  BY <1>1, <1>2
<1>7. Requested' /\ Taken'
  BY <1>2, <1>3 DEF HandInv, Requested, Taken
<1>8. QueuedHere'
  <2>1. ASSUME NEW s \in Requests, NEW i \in DOMAIN queue'[s] PROVE via[queue'[s][i]] = s
    <3>1. CASE s # r
      BY <1>6, <2>1, <3>1 DEF HandInv, QueuedHere
    <3>2. CASE s = r
      <4>1. In(queue'[s][i], queue'[s])
        BY <2>1 DEF In
      <4>2. In(queue'[s][i], queue[r])
        BY <1>2, <1>6, <3>2, <4>1, InTail
      <4> QED
        BY <3>2, <4>2 DEF In, HandInv, QueuedHere
    <3> QED
      BY <3>1, <3>2
  <2> QED
    BY <1>3, <2>1 DEF QueuedHere
<1>9. Written'
  <2>1. ASSUME NEW u \in Requests, writer'[u] # "none"
        PROVE  /\ via[u] \in Requests
               /\ writer'[u] = "queued" => In(u, queue'[via[u]])
               /\ writer'[u] \in {"taken", "serving"} => remote[via[u]] = "running"
    <3>1. CASE u = t
      BY <1>1, <1>2, <1>4, <1>5, <3>1
    <3>2. CASE u # t
      <4>1. writer'[u] = writer[u]
        BY <1>1, <1>2, <3>2
      <4>2. \A s \in Requests : In(u, queue[s]) => In(u, queue'[s])
        BY <1>2, <1>6, <3>2, InTail
      <4> QED
        BY <2>1, <4>1, <4>2 DEF HandInv, Written
    <3> QED
      BY <3>1, <3>2
  <2> QED
    BY <1>2, <1>3, <2>1 DEF Written
<1>10. SameRemote'
  <2>1. \A u \in Requests : writer[u] # "none" => writer'[u] # "none"
    BY <1>1, <1>2
  <2> QED
    BY <1>1, <1>2, <1>3, <2>1 DEF HandInv, SameRemote
<1> QED
  BY <1>7, <1>8, <1>9, <1>10 DEF HandInv

\* Upstream answers, or a session ends and closes what it was given.
LEMMA HandAnswers ==
  ASSUME RemotesInv, HandInv, NEW q \in Requests, Upstream(q) \/ SessionEnds(q)
  PROVE  HandInv'
<1>1. /\ writer \in [Requests -> {"none", "queued", "taken", "serving", "closed"}]
      /\ track \in [Requests -> Requests \cup {None}]
      /\ tracks \in [Requests -> Requests \cup {None}]
      /\ remote \in [Requests ->
                       {"none", "requested", "connecting", "running", "dead", "gone"}]
  BY DEF RemotesInv, TypeOK
<1>2. /\ UNCHANGED <<via, track, tracks, queue, requested>>
      /\ \A r \in Requests : r # q => remote'[r] = remote[r]
      /\ remote'[q] \in {remote[q], "dead"}
  BY <1>1 DEF Upstream, SessionEnds, requests
<1>3. \A t \in Requests :
        /\ writer'[t] = "none" <=> writer[t] = "none"
        /\ writer'[t] = "queued" => writer[t] = "queued"
        /\ writer'[t] \in {"taken", "serving"} => writer[t] \in {"taken", "serving"}
  BY <1>1 DEF Upstream, SessionEnds
<1>4. \A t \in Requests : writer'[t] \in {"taken", "serving"} =>
        remote'[via[t]] = remote[via[t]]
  <2>1. CASE Upstream(q)
    BY <2>1 DEF Upstream
  <2>2. CASE SessionEnds(q)
    <3> SUFFICES ASSUME NEW t \in Requests, writer'[t] \in {"taken", "serving"}
                 PROVE  remote'[via[t]] = remote[via[t]]
      OBVIOUS
    <3>1. via[t] # q
      BY <1>1, <2>2 DEF SessionEnds
    <3>2. via[t] \in Requests
      BY <1>3 DEF HandInv, Written
    <3> QED
      BY <1>2, <3>1, <3>2
  <2> QED
    BY <2>1, <2>2
<1>5. Requested' /\ QueuedHere'
  BY <1>2 DEF HandInv, Requested, QueuedHere
<1>6. Taken'
  BY <1>2 DEF HandInv, Taken
<1>7. Written'
  BY <1>2, <1>3, <1>4 DEF HandInv, Written
<1>8. SameRemote'
  BY <1>1, <1>2, <1>3 DEF HandInv, SameRemote
<1> QED
  BY <1>5, <1>6, <1>7, <1>8 DEF HandInv

LEMMA HandStart ==
  ASSUME RemotesInv, HandInv, Start
  PROVE  HandInv'
<1> PICK h : h = Head(requested)
  OBVIOUS
<1>1. /\ requested \in Seq(Requests) /\ requested # <<>> /\ requested' = Tail(requested)
      /\ remote' = [remote EXCEPT ![h] = "connecting"]
      /\ UNCHANGED <<via, track, tracks, queue, writer>>
      /\ remote \in [Requests ->
                       {"none", "requested", "connecting", "running", "dead", "gone"}]
  BY DEF RemotesInv, TypeOK, Start, requests
<1>2. h \in Requests /\ 1 \in 1..Len(requested) /\ h = requested[1]
  BY <1>1, TailFact
<1>3. remote[h] = "requested"
  BY <1>2 DEF RemotesInv, QueuedOnce
<1>4. \A r \in Requests : remote'[r] = IF r = h THEN "connecting" ELSE remote[r]
  BY <1>1
<1>5. Requested'
  BY <1>1, <1>4, InTail DEF HandInv, Requested
<1>6. Taken'
  BY <1>1, <1>4 DEF HandInv, Taken
<1>7. Written'
  BY <1>1, <1>3, <1>4 DEF HandInv, Written
<1>8. QueuedHere' /\ SameRemote'
  BY <1>1 DEF HandInv, QueuedHere, SameRemote
<1> QED
  BY <1>5, <1>6, <1>7, <1>8 DEF HandInv

LEMMA HandStep == RemotesInv /\ HandInv /\ [Next]_vars => HandInv'
<1> SUFFICES ASSUME RemotesInv, HandInv, [Next]_vars PROVE HandInv'
  OBVIOUS
<1>1. /\ track \in [Requests -> Requests \cup {None}]
      /\ tracks \in [Requests -> Requests \cup {None}]
      /\ remote \in [Requests ->
                       {"none", "requested", "connecting", "running", "dead", "gone"}]
  BY DEF RemotesInv, TypeOK
<1>2. ASSUME NEW q \in Requests, ServeLocal(q) \/ GetOrigin(q) \/ Learn(q) PROVE HandInv'
  BY <1>1, <1>2, HandKept DEF ServeLocal, GetOrigin, Learn
<1>3. ASSUME NEW q \in Requests, Leave(q) PROVE HandInv'
  BY <1>1, <1>3, HandKept DEF Leave
<1>4. ASSUME NEW q \in Requests, DropTrack(q) PROVE HandInv'
  <2>1. Dropped(via[q]) \/ via[q] \in Requests \/ tracks' = tracks
    BY <1>1, <1>4 DEF DropTrack, RemotesInv, TypeOK
  <2>2. tracks' = tracks \/ \E r \in Requests : tracks' = [tracks EXCEPT ![r] = None]
    BY <1>1, <1>4, <2>1 DEF DropTrack
  <2> QED
    BY <1>1, <1>4, <2>2, HandKept DEF DropTrack, requests
<1>5. ASSUME NEW q \in Requests, Connect(q) \/ Reap(q) PROVE HandInv'
  <2>1. \A r \in Requests : /\ remote'[r] = "requested" => remote[r] = "requested"
                            /\ remote'[r] = "none" => remote[r] = "none"
                            /\ remote[r] = "running" => remote'[r] = "running"
    BY <1>1, <1>5 DEF Connect, Reap
  <2> QED
    BY <1>1, <1>5, <2>1, HandKept DEF Connect, Reap, requests
<1>6. CASE UNCHANGED vars
  BY <1>1, <1>6, HandKept DEF vars, requests
<1> QED
  BY <1>2, <1>3, <1>4, <1>5, <1>6, HandStart, HandRoute, HandSubscribe, HandTake, HandAnswers
  DEF Next

(***************************************************************************)
(* Every request that waits is in somebody's hand: what Answered needs of  *)
(* fairness is only that the tasks of the relay go on.                     *)
(***************************************************************************)
THEOREM RequestsInHand == Spec => []WaitingInHand
<1>1. Init => HandInv
  BY DEF Init, HandInv, Requested, Taken, QueuedHere, Written, SameRemote
<1>2. RemotesInv /\ HandInv => WaitingInHand
  <2> SUFFICES ASSUME RemotesInv, HandInv, NEW q \in Requests, req[q] = "waiting"
               PROVE  InHand(q)
    BY DEF WaitingInHand
  <2>1. /\ track[q] \in Requests /\ via[track[q]] = via[q] /\ writer[track[q]] # "none"
        /\ writer[track[q]] \in {"none", "queued", "taken", "serving", "closed"}
    BY RemotesAssumption DEF RemotesInv, TypeOK, RequestOrder, HandInv, SameRemote
  <2>2. via[q] \in Requests /\ remote[via[q]] # "none"
    BY <2>1, RemotesAssumption DEF HandInv, Written, Taken
  <2>3. remote[via[q]] = "requested" => In(via[q], requested)
    BY <2>2 DEF HandInv, Requested
  <2> QED
    BY <2>1, <2>2, <2>3 DEF InHand, HandInv, Written
<1> QED
  BY <1>1, <1>2, HandStep, Inductive, PTL DEF Spec
=============================================================================
