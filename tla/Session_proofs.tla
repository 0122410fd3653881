--------------------------- MODULE Session_proofs ---------------------------
(***************************************************************************)
(* How a session opens and how its announcements go.  The setup, whatever  *)
(* roles the two sides ask for: the roles fit, no message violates them,   *)
(* and no side is left half open.  The announcements, for any number of    *)
(* namespaces and announcements: their types, and that a namespace         *)
(* announced once never costs the session, counts as accepted only if it   *)
(* was, and that no end of it is lost between the two sides.               *)
(***************************************************************************)
EXTENDS SessionAnnounce, SessionSetup, TLAPS

(***************************************************************************)
(* SessionSetup.  The inductive invariant: before the server opens,        *)
(* nothing but the first SETUP is under way; after it the roles fit.       *)
(***************************************************************************)
SetupTypeOK ==
  /\ role \in [Sides -> Roles]
  /\ state \in [Sides -> {"new", "waiting", "open", "failed", "ended", "violation"}]
  /\ DOMAIN setup = Sides
  /\ DOMAIN flight = Sides

\* The role the client ends with, once the server has answered.
ClientRole ==
  IF state["client"] = "waiting" THEN Downgrade(role["client"], role["server"])
                                 ELSE role["client"]

\* Before the server opens, nothing has been sent but the first SETUP.
EarlySetup ==
  /\ state["server"] \in {"new", "failed"}
  /\ state["client"] \in {"new", "waiting", "failed"}
  /\ state["client"] = "failed" => state["server"] = "failed"
  /\ state["client"] = "new" => setup["server"] = NoSetup
  /\ state["client"] # "new" => setup["server"] = ClientSetup(role["client"])
  /\ setup["client"] = NoSetup
  /\ flight["client"] = {} /\ flight["server"] = {}

\* After it the roles fit, and so does what is under way.
LateSetup ==
  /\ state["server"] \in {"open", "ended"}
  /\ state["client"] \in {"waiting", "open", "ended"}
  /\ setup["client"] = ServerSetup(role["server"])
  /\ state["client"] = "waiting" => ~Clash(role["client"], role["server"])
  /\ IsCompatible(ClientRole, role["server"])
  /\ flight["client"] \subseteq Handles(ClientRole)
  /\ flight["server"] \subseteq Handles(role["server"])

SetupInv == SetupTypeOK /\ (EarlySetup \/ LateSetup)

(***************************************************************************)
(* The table of roles.                                                     *)
(***************************************************************************)
\* What the server makes of the client's role suits what the client then makes of it.
LEMMA Negotiated ==
  ASSUME NEW c \in Roles, NEW s \in Roles, ~Clash(s, c)
  PROVE  LET t == Downgrade(s, c) IN
         /\ t \in Roles
         /\ ~Clash(c, t)
         /\ Downgrade(c, t) \in Roles
         /\ IsCompatible(Downgrade(c, t), t)
<1>1. CASE c = "Both"
  BY <1>1 DEF Roles, Downgrade, Clash, IsCompatible, IsPublisher, IsSubscriber
<1>2. CASE c = "Publisher"
  BY <1>2 DEF Roles, Downgrade, Clash, IsCompatible, IsPublisher, IsSubscriber
<1>3. CASE c = "Subscriber"
  BY <1>3 DEF Roles, Downgrade, Clash, IsCompatible, IsPublisher, IsSubscriber
<1> QED BY <1>1, <1>2, <1>3 DEF Roles

LEMMA Served ==
  ASSUME NEW a \in Roles, NEW b \in Roles, IsCompatible(a, b)
  PROVE  Sends(a) \subseteq Handles(b) /\ Sends(b) \subseteq Handles(a)
  BY DEF Roles, Sends, Handles, IsCompatible, IsPublisher, IsSubscriber

LEMMA Setups ==
  ASSUME NEW r \in Roles
  PROVE  /\ ClientSetup(r) # NoSetup /\ ServerSetup(r) # NoSetup
         /\ ClientSetup(r).role = r /\ ServerSetup(r).role = r
         /\ "DRAFT_04" \in ClientSetup(r).versions
  BY DEF ClientSetup, ServerSetup, NoSetup

LEMMA TwoSides ==
  /\ Sides = {"client", "server"}
  /\ Peer("client") = "server" /\ Peer("server") = "client"
  BY DEF Sides, Peer

-----------------------------------------------------------------------------
LEMMA InitSetupInv == SetupInit => SetupInv
<1> SUFFICES ASSUME SetupInit PROVE SetupInv
  OBVIOUS
<1>1. SetupTypeOK
  BY DEF SetupInit, SetupTypeOK
<1>2. EarlySetup
  BY TwoSides DEF SetupInit, EarlySetup
<1> QED BY <1>1, <1>2 DEF SetupInv

LEMMA ConnectInv == SetupInv /\ Connect => SetupInv'
<1> SUFFICES ASSUME SetupInv, Connect PROVE SetupInv'
  OBVIOUS
<1>1. SetupTypeOK'
  BY DEF SetupInv, SetupTypeOK, Connect
<1>2. EarlySetup
  BY DEF SetupInv, Connect, LateSetup
<1>3. EarlySetup'
  BY <1>2, TwoSides DEF SetupInv, SetupTypeOK, Connect, EarlySetup
<1> QED BY <1>1, <1>3 DEF SetupInv

LEMMA AcceptFailsInv == SetupInv /\ AcceptFails => SetupInv'
<1> SUFFICES ASSUME SetupInv, AcceptFails PROVE SetupInv'
  OBVIOUS
<1>1. SetupTypeOK'
  BY DEF SetupInv, SetupTypeOK, AcceptFails
<1>2. EarlySetup
  BY DEF SetupInv, AcceptFails, LateSetup
<1>3. EarlySetup'
  BY <1>2, TwoSides DEF SetupInv, SetupTypeOK, AcceptFails, EarlySetup
<1> QED BY <1>1, <1>3 DEF SetupInv

LEMMA AcceptInv == SetupInv /\ Accept => SetupInv'
<1> SUFFICES ASSUME SetupInv, Accept PROVE SetupInv'
  OBVIOUS
<1> DEFINE c == role["client"]
           s == role["server"]
           t == Downgrade(s, c)
<1>1. c \in Roles /\ s \in Roles
  BY TwoSides DEF SetupInv, SetupTypeOK
<1>2. EarlySetup
  BY DEF SetupInv, Accept, LateSetup
<1>3. state["client"] # "new" /\ setup["server"] = ClientSetup(c)
  BY <1>2 DEF Accept, EarlySetup
<1>4. setup["server"].role = c
  BY <1>1, <1>3, Setups
<1>5. state["client"] = "waiting"
  BY <1>2, <1>3 DEF Accept, EarlySetup
<1>6. ~Clash(s, c)
  BY <1>4 DEF Accept
<1>7. /\ t \in Roles /\ ~Clash(c, t)
      /\ IsCompatible(Downgrade(c, t), t)
  BY <1>1, <1>6, Negotiated
<1>8. /\ role' = [role EXCEPT !["server"] = t]
      /\ setup' = [setup EXCEPT !["client"] = ServerSetup(t)]
      /\ state' = [state EXCEPT !["server"] = "open"]
      /\ flight' = flight
  BY <1>4 DEF Accept
<1> HIDE DEF t
<1>9. /\ role'["server"] = t /\ role'["client"] = c
      /\ setup'["client"] = ServerSetup(t)
      /\ state'["server"] = "open" /\ state'["client"] = "waiting"
  BY <1>5, <1>8, TwoSides DEF SetupInv, SetupTypeOK
<1>10. ClientRole' = Downgrade(c, t)
  BY <1>9 DEF ClientRole
<1>11. flight'["client"] = {} /\ flight'["server"] = {}
  BY <1>2, <1>8 DEF EarlySetup
<1>12. SetupTypeOK'
  BY <1>7, <1>8 DEF SetupInv, SetupTypeOK
<1>13. LateSetup'
  BY <1>7, <1>9, <1>10, <1>11 DEF LateSetup
<1> QED BY <1>12, <1>13 DEF SetupInv

LEMMA ConnectFailsInv == SetupInv /\ ConnectFails => SetupInv'
<1> SUFFICES ASSUME SetupInv, ConnectFails PROVE SetupInv'
  OBVIOUS
<1>1. role["client"] \in Roles /\ role["server"] \in Roles
  BY TwoSides DEF SetupInv, SetupTypeOK
<1>2. CASE LateSetup
  <2>1. setup["client"] # NoSetup /\ setup["client"].role = role["server"]
    BY <1>1, <1>2, Setups DEF LateSetup
  <2> QED BY <1>2, <2>1 DEF ConnectFails, LateSetup
<1>3. CASE EarlySetup
  <2>1. SetupTypeOK'
    BY DEF SetupInv, SetupTypeOK, ConnectFails
  <2>2. state["server"] = "failed"
    BY <1>3 DEF ConnectFails, EarlySetup
  <2>3. EarlySetup'
    BY <1>3, <2>2, TwoSides DEF SetupInv, SetupTypeOK, ConnectFails, EarlySetup
  <2> QED BY <2>1, <2>3 DEF SetupInv
<1> QED BY <1>2, <1>3 DEF SetupInv

LEMMA ConnectedInv == SetupInv /\ Connected => SetupInv'
<1> SUFFICES ASSUME SetupInv, Connected PROVE SetupInv'
  OBVIOUS
<1> DEFINE c == role["client"]
           t == role["server"]
<1>1. c \in Roles /\ t \in Roles
  BY TwoSides DEF SetupInv, SetupTypeOK
<1>2. LateSetup
  BY DEF SetupInv, Connected, EarlySetup
<1>3. setup["client"].role = t
  BY <1>1, <1>2, Setups DEF LateSetup
<1>4. /\ role' = [role EXCEPT !["client"] = Downgrade(c, t)]
      /\ state' = [state EXCEPT !["client"] = "open"]
      /\ setup' = setup /\ flight' = flight
  BY <1>3 DEF Connected
<1>5. ClientRole = Downgrade(c, t)
  BY DEF Connected, ClientRole
<1>6. /\ role'["client"] = Downgrade(c, t) /\ role'["server"] = t
      /\ state'["client"] = "open" /\ state'["server"] = state["server"]
  BY <1>4, TwoSides DEF SetupInv, SetupTypeOK
<1>7. ClientRole' = ClientRole
  BY <1>5, <1>6 DEF ClientRole
<1>8. Downgrade(c, t) \in Roles
  BY <1>1 DEF Roles, Downgrade
<1>9. SetupTypeOK'
  BY <1>4, <1>8 DEF SetupInv, SetupTypeOK
<1>10. LateSetup'
  BY <1>2, <1>4, <1>6, <1>7 DEF LateSetup
<1> QED BY <1>9, <1>10 DEF SetupInv

LEMMA SendInv == ASSUME NEW s \in Sides PROVE SetupInv /\ Send(s) => SetupInv'
<1> SUFFICES ASSUME SetupInv, Send(s) PROVE SetupInv'
  OBVIOUS
<1>1. LateSetup
  BY TwoSides DEF SetupInv, Send, EarlySetup
<1>2. PICK k \in Sends(role[s]) : flight' = [flight EXCEPT ![Peer(s)] = @ \cup {k}]
  BY DEF Send
<1>3. role' = role /\ state' = state /\ setup' = setup
  BY DEF Send
<1>4. role["client"] \in Roles /\ role["server"] \in Roles /\ DOMAIN flight = Sides
  BY TwoSides DEF SetupInv, SetupTypeOK
<1>5. ClientRole' = ClientRole
  BY <1>3 DEF ClientRole
<1>6. /\ Sends(ClientRole) \subseteq Handles(role["server"])
      /\ Sends(role["server"]) \subseteq Handles(ClientRole)
  <2>1. ClientRole \in Roles
    BY <1>4 DEF ClientRole, Roles, Downgrade
  <2> QED BY <1>1, <1>4, <2>1, Served DEF LateSetup
<1>7. flight'["client"] \subseteq Handles(ClientRole)
  BY <1>1, <1>2, <1>4, <1>6, TwoSides DEF LateSetup
<1>8. flight'["server"] \subseteq Handles(role["server"])
  <2>1. CASE s = "client"
    <3>1. ClientRole = role[s]
      BY <2>1 DEF Send, ClientRole
    <3> QED BY <1>1, <1>2, <1>4, <1>6, <2>1, <3>1, TwoSides DEF LateSetup
  <2>2. CASE s = "server"
    BY <1>1, <1>2, <1>4, <2>2, TwoSides DEF LateSetup
  <2> QED BY <2>1, <2>2, TwoSides
<1>9. SetupTypeOK'
  BY <1>2, <1>3 DEF SetupInv, SetupTypeOK
<1>10. LateSetup'
  BY <1>1, <1>3, <1>5, <1>7, <1>8 DEF LateSetup
<1> QED BY <1>9, <1>10 DEF SetupInv

LEMMA RecvInv ==
  ASSUME NEW s \in Sides, NEW k, Dispatch(s, k), flight' = [flight EXCEPT ![s] = @ \ {k}]
  PROVE  SetupInv => SetupInv'
<1> SUFFICES ASSUME SetupInv PROVE SetupInv'
  OBVIOUS
<1>1. LateSetup
  BY TwoSides DEF SetupInv, Dispatch, EarlySetup
<1>2. k \in Handles(role[s])
  <2>1. CASE s = "client"
    <3>1. ClientRole = role[s]
      BY <2>1 DEF Dispatch, ClientRole
    <3> QED BY <1>1, <2>1, <3>1 DEF Dispatch, LateSetup
  <2>2. CASE s = "server"
    BY <1>1, <2>2 DEF Dispatch, LateSetup
  <2> QED BY <2>1, <2>2, TwoSides
<1>3. role' = role /\ state' = state /\ setup' = setup
  BY <1>2 DEF Dispatch
<1>4. ClientRole' = ClientRole
  BY <1>3 DEF ClientRole
<1>5. /\ flight'["client"] \subseteq flight["client"]
      /\ flight'["server"] \subseteq flight["server"]
  BY TwoSides DEF SetupInv, SetupTypeOK
<1>6. SetupTypeOK'
  BY <1>3 DEF SetupInv, SetupTypeOK
<1>7. LateSetup'
  BY <1>1, <1>3, <1>4, <1>5 DEF LateSetup
<1> QED BY <1>6, <1>7 DEF SetupInv

LEMMA EndInv == ASSUME NEW s \in Sides PROVE SetupInv /\ End(s) => SetupInv'
<1> SUFFICES ASSUME SetupInv, End(s) PROVE SetupInv'
  OBVIOUS
<1>1. LateSetup
  BY TwoSides DEF SetupInv, End, EarlySetup
<1>2. /\ state' = [state EXCEPT ![s] = "ended"]
      /\ role' = role /\ setup' = setup /\ flight' = flight
  BY DEF End
<1>3. /\ state'["client"] \in {state["client"], "ended"}
      /\ state'["server"] \in {state["server"], "ended"}
      /\ state["client"] = "waiting" <=> state'["client"] = "waiting"
  BY <1>2, TwoSides DEF End, SetupInv, SetupTypeOK
<1>4. ClientRole' = ClientRole
  BY <1>2, <1>3 DEF ClientRole
<1>5. SetupTypeOK'
  BY <1>2 DEF SetupInv, SetupTypeOK
<1>6. LateSetup'
  BY <1>1, <1>2, <1>3, <1>4 DEF LateSetup
<1> QED BY <1>5, <1>6 DEF SetupInv

LEMMA StutterInv == SetupInv /\ UNCHANGED setupVars => SetupInv'
  BY DEF setupVars, SetupInv, SetupTypeOK, EarlySetup, LateSetup, ClientRole

LEMMA SetupInvariant == SetupSpec => []SetupInv
<1>1. SetupInv /\ [SetupNext]_setupVars => SetupInv'
  <2> SUFFICES ASSUME SetupInv, [SetupNext]_setupVars PROVE SetupInv'
    OBVIOUS
  <2>1. CASE Connect \/ AcceptFails \/ Accept \/ ConnectFails \/ Connected
    BY <2>1, ConnectInv, AcceptFailsInv, AcceptInv, ConnectFailsInv, ConnectedInv
  <2>2. CASE \E s \in Sides : Send(s) \/ RecvMessage(s) \/ RecvData(s) \/ End(s)
    BY <2>2, SendInv, RecvInv, EndInv DEF RecvMessage, RecvData
  <2>3. CASE UNCHANGED setupVars
    BY <2>3, StutterInv
  <2> QED BY <2>1, <2>2, <2>3 DEF SetupNext
<1> QED BY <1>1, InitSetupInv, PTL DEF SetupSpec

-----------------------------------------------------------------------------
(***************************************************************************)
(* Two sides with an open session have the halves that fit each other,     *)
(* whatever they asked for (connect_role and accept_role).                 *)
(***************************************************************************)
THEOREM RolesFit == SetupSpec => []RolesMatch
<1>1. SetupInv => RolesMatch
  BY DEF SetupInv, EarlySetup, LateSetup, ClientRole, Opened, RolesMatch
<1> QED BY <1>1, SetupInvariant, PTL

(***************************************************************************)
(* RoleViolation is never the answer to a message of the library itself,   *)
(* though the server may send before the client knows its role.            *)
(***************************************************************************)
THEOREM NoRoleViolation == SetupSpec => []NoViolation
<1>1. SetupInv => NoViolation
  BY TwoSides DEF SetupInv, EarlySetup, LateSetup, NoViolation
<1> QED BY <1>1, SetupInvariant, PTL

(***************************************************************************)
(* The client's own RoleIncompatible is never reached after the server     *)
(* has opened the session.                                                 *)
(***************************************************************************)
THEOREM BothOrNeither == SetupSpec => []NeverHalfOpen
<1>1. SetupInv => NeverHalfOpen
  BY DEF SetupInv, EarlySetup, LateSetup, Opened, NeverHalfOpen
<1> QED BY <1>1, SetupInvariant, PTL

-----------------------------------------------------------------------------
(***************************************************************************)
(* The inductive invariant.  Named: the maps of both sides and the states  *)
(* speak of announcements that were made, under their own namespace.       *)
(* Fresh: an Announce is under way only to a subscriber that has not heard *)
(* of it, and only once.  Replied: an AnnounceOk under way was sent for    *)
(* some announcement of its namespace.                                     *)
(***************************************************************************)
Made == 1..Len(namespace)

Named ==
  /\ Made \subseteq Announces
  /\ \A n \in Namespaces : announces[n] # None =>
       announces[n] \in Made /\ namespace[announces[n]] = n
  /\ \A n \in Namespaces : entries[n] # None =>
       /\ entries[n] \in Made /\ namespace[entries[n]] = n
       /\ announced[entries[n]] # "none"
  /\ \A a \in Announces :
       announce[a] # "none" \/ accepted[a] \/ announced[a] # "none" => a \in Made

FreshAt(k) ==
  LET m == toSub[k] IN
  /\ m.of \in Made /\ namespace[m.of] = m.ns
  /\ m.type = "Announce" =>
       /\ announced[m.of] = "none"
       /\ \A l \in 1..Len(toSub) : toSub[l].type = "Announce" /\ toSub[l].of = m.of => l = k

Fresh == \A k \in 1..Len(toSub) : FreshAt(k)

Okayed(a) == announced[a] \in {"ok", "cancelling", "gone"}

RepliedTo(n) == \E a \in Made : namespace[a] = n /\ Okayed(a)

Replied == \A k \in 1..Len(toPub) : toPub[k].type = "AnnounceOk" => RepliedTo(toPub[k].ns)

IInv == TypeOK /\ Named /\ Fresh /\ Replied /\ Sound

-----------------------------------------------------------------------------
(***************************************************************************)
(* Sequences.                                                              *)
(***************************************************************************)
LEMMA EmptyIsSeq == ASSUME NEW S PROVE <<>> \in Seq(S) /\ Len(<<>>) = 0
  OBVIOUS

LEMMA AppendFacts ==
  ASSUME NEW S, NEW s \in Seq(S), NEW x \in S
  PROVE  /\ Append(s, x) \in Seq(S)
         /\ Len(Append(s, x)) = Len(s) + 1
         /\ Len(s) \in Nat
         /\ \A k \in 1..Len(s) : Append(s, x)[k] = s[k]
         /\ Append(s, x)[Len(s) + 1] = x
         /\ 1..(Len(s) + 1) = (1..Len(s)) \cup {Len(s) + 1}
         /\ Len(s) + 1 \notin 1..Len(s)
  OBVIOUS

LEMMA TailFacts ==
  ASSUME NEW S, NEW s \in Seq(S), s # <<>>
  PROVE  /\ Head(s) \in S
         /\ Head(s) = s[1]
         /\ 1 \in 1..Len(s)
         /\ Tail(s) \in Seq(S)
         /\ \A k \in 1..Len(Tail(s)) : k + 1 \in 1..Len(s) /\ Tail(s)[k] = s[k + 1]
         /\ \A k, l \in 1..Len(Tail(s)) : k + 1 = l + 1 => k = l
         /\ \A k \in 1..Len(Tail(s)) : k + 1 # 1
  OBVIOUS

LEMMA ElementType == ASSUME NEW S, NEW s \in Seq(S), NEW i \in 1..Len(s) PROVE s[i] \in S
  OBVIOUS

LEMMA LenType == ASSUME NEW S, NEW s \in Seq(S) PROVE Len(s) \in Nat /\ DOMAIN s = 1..Len(s)
  OBVIOUS

-----------------------------------------------------------------------------
AnnounceState == {"none", "open", "failed", "dropping", "removed", "dropped"}
AnnouncedState == {"none", "queued", "ok", "cancelling", "refusing", "gone"}

LEMMA InitIInv == Init => IInv
  <1> SUFFICES ASSUME Init PROVE IInv
    OBVIOUS
  <1>1. /\ namespace \in Seq(Namespaces) /\ Len(namespace) = 0 /\ DOMAIN namespace = {}
        /\ toSub \in Seq(Messages) /\ Len(toSub) = 0
        /\ toPub \in Seq(Replies) /\ Len(toPub) = 0
    BY EmptyIsSeq, LenType DEF Init
  <1>2. TypeOK
    BY <1>1 DEF Init, TypeOK, Announces, None
  <1>3. Named
    BY <1>1 DEF Init, Named, Made
  <1>4. Fresh /\ Replied
    BY <1>1 DEF Fresh, Replied
  <1>5. Sound
    BY <1>1 DEF Init, Sound
  <1> QED
    BY <1>2, <1>3, <1>4, <1>5 DEF IInv

LEMMA Basics ==
  ASSUME IInv
  PROVE  /\ namespace \in Seq(Namespaces) /\ Len(namespace) \in Nat /\ DOMAIN namespace = Made
         /\ toSub \in Seq(Messages) /\ toPub \in Seq(Replies)
         /\ Made \subseteq Announces
         /\ \A a \in Made : namespace[a] \in Namespaces
         /\ \A a \in Announces :
              announce[a] # "none" \/ accepted[a] \/ announced[a] # "none" => a \in Made
  BY LenType, ElementType DEF IInv, TypeOK, Made, Named

(***************************************************************************)
(* Steps that keep the announcements made, and every Ok that was given.    *)
(***************************************************************************)
Keeps ==
  /\ namespace' \in Seq(Namespaces)
  /\ Made \subseteq Made' /\ Made' \subseteq Announces
  /\ \A a \in Made : namespace'[a] = namespace[a]
  /\ \A a \in Announces : Okayed(a) => Okayed(a)'

LEMMA SameKeeps ==
  ASSUME IInv, namespace' = namespace, \A a \in Announces : Okayed(a) => Okayed(a)'
  PROVE  Keeps
  BY Basics DEF Keeps, Made

LEMMA OnceStays ==
  ASSUME IInv, Keeps, NEW a \in Made, Once(a)' PROVE Once(a)
  <1>1. DOMAIN namespace = Made /\ DOMAIN namespace' = Made'
    BY Basics, LenType DEF Keeps, Made
  <1> QED
    BY <1>1 DEF Keeps, Once

\* Acceptance apart, nothing a step does to the maps or the messages matters to Sound.
LEMMA SoundKeeps ==
  ASSUME IInv, Keeps,
         over' => over \/ \E a \in Made : ~Once(a),
         \A a \in Announces :
           accepted'[a] => accepted[a] \/ (a \in Made /\ (Once(a) => Okayed(a)))
  PROVE  Sound'
  <1>1. DOMAIN namespace = Made /\ DOMAIN namespace' = Made'
    BY Basics, LenType DEF Keeps, Made
  <1>2. over' => \E a \in Made' : ~Once(a)'
    BY <1>1, OnceStays DEF IInv, Sound, Keeps
  <1>3. ASSUME NEW a \in Made', accepted'[a], Once(a)' PROVE Okayed(a)'
    <2>1. a \in Announces
      BY DEF Keeps
    <2>2. a \in Made
      BY <2>1, <1>3, Basics
    <2>3. Once(a)
      BY <2>2, <1>3, OnceStays
    <2>4. Okayed(a)
      BY <2>1, <2>2, <2>3, <1>1, <1>3 DEF IInv, Sound, Okayed
    <2> QED
      BY <2>1, <2>4 DEF Keeps
  <1> QED
    BY <1>1, <1>2, <1>3 DEF Sound, Okayed

LEMMA RepliedStays ==
  ASSUME IInv, Keeps, NEW n, RepliedTo(n) PROVE RepliedTo(n)'
  BY Basics DEF Keeps, RepliedTo

LEMMA SameReplies ==
  ASSUME IInv, Keeps, toPub' = toPub \/ (toPub # <<>> /\ toPub' = Tail(toPub))
  PROVE  Replied' /\ toPub' \in Seq(Replies)
  <1>1. toPub \in Seq(Replies) /\ Replied
    BY Basics DEF IInv
  <1>2. CASE toPub' = toPub
    BY <1>1, <1>2, RepliedStays DEF Replied
  <1>3. CASE toPub # <<>> /\ toPub' = Tail(toPub)
    <2>1. /\ toPub' \in Seq(Replies)
          /\ \A k \in 1..Len(toPub') : k + 1 \in 1..Len(toPub) /\ toPub'[k] = toPub[k + 1]
      BY <1>1, <1>3, TailFacts
    <2>2. ASSUME NEW k \in 1..Len(toPub'), toPub'[k].type = "AnnounceOk"
          PROVE  RepliedTo(toPub[k].ns)'
      BY <2>1, <2>2, <1>1, RepliedStays DEF Replied
    <2> QED
      BY <2>1, <2>2 DEF Replied
  <1> QED
    BY <1>2, <1>3

LEMMA MoreReplies ==
  ASSUME IInv, Keeps, NEW n \in Namespaces,
         NEW t \in {"AnnounceOk", "AnnounceError", "AnnounceCancel"},
         ToPub(t, n), t = "AnnounceOk" => RepliedTo(n)'
  PROVE  Replied' /\ toPub' \in Seq(Replies)
  <1> DEFINE m == [type |-> t, ns |-> n]
  <1>1. toPub \in Seq(Replies) /\ Replied /\ m \in Replies /\ m.type = t /\ m.ns = n
    BY Basics DEF IInv, Replies
  <1> HIDE DEF m
  <1>2. toPub' = Append(toPub, m)
    BY DEF ToPub, m
  <1>3. /\ toPub' \in Seq(Replies) /\ Len(toPub') = Len(toPub) + 1
        /\ \A k \in 1..Len(toPub) : toPub'[k] = toPub[k]
        /\ toPub'[Len(toPub) + 1] = m
        /\ 1..(Len(toPub) + 1) = (1..Len(toPub)) \cup {Len(toPub) + 1}
    BY <1>1, <1>2, AppendFacts
  <1>4. ASSUME NEW k \in 1..Len(toPub'), toPub'[k].type = "AnnounceOk"
        PROVE  RepliedTo(toPub[k].ns)'
    <2>1. CASE k \in 1..Len(toPub)
      BY <2>1, <1>1, <1>3, <1>4, RepliedStays DEF Replied
    <2>2. CASE k = Len(toPub) + 1
      BY <2>2, <1>1, <1>3, <1>4
    <2> QED
      BY <2>1, <2>2, <1>3
  <1> QED
    BY <1>3, <1>4 DEF Replied

\* Nobody hears of an announcement that is under way but by receiving its Announce.
LEMMA SameMessages ==
  ASSUME IInv, Keeps, toSub' = toSub,
         \A a \in Announces : announced[a] = "none" => announced'[a] = "none"
  PROVE  Fresh'
  <1> SUFFICES ASSUME NEW k \in 1..Len(toSub) PROVE FreshAt(k)'
    BY DEF Fresh
  <1>1. FreshAt(k)
    BY DEF IInv, Fresh
  <1> QED
    BY <1>1, Basics DEF FreshAt, Keeps

LEMMA MoreMessages ==
  ASSUME IInv, Keeps, NEW n \in Namespaces, NEW a \in Made',
         NEW t \in {"Announce", "Unannounce"}, ToSub(t, n, a),
         namespace'[a] = n, UNCHANGED announced,
         t = "Announce" => a \notin Made /\ announced[a] = "none"
  PROVE  Fresh' /\ toSub' \in Seq(Messages)
  <1> DEFINE m == [type |-> t, ns |-> n, of |-> a]
  <1>0. m \in Messages /\ m.type = t /\ m.ns = n /\ m.of = a
    BY DEF Messages, Keeps
  <1> HIDE DEF m
  <1>1. toSub \in Seq(Messages) /\ Fresh /\ toSub' = Append(toSub, m)
    BY Basics DEF IInv, ToSub, m
  <1>2. /\ toSub' \in Seq(Messages) /\ Len(toSub') = Len(toSub) + 1
        /\ \A k \in 1..Len(toSub) : toSub'[k] = toSub[k]
        /\ toSub'[Len(toSub) + 1] = m
        /\ 1..(Len(toSub) + 1) = (1..Len(toSub)) \cup {Len(toSub) + 1}
    BY <1>0, <1>1, AppendFacts
  <1>3. \A k \in 1..Len(toSub) : toSub[k].of \in Made /\ namespace[toSub[k].of] = toSub[k].ns
    BY <1>1 DEF Fresh, FreshAt
  <1>4. ASSUME NEW k \in 1..Len(toSub') PROVE FreshAt(k)'
    <2>1. CASE k \in 1..Len(toSub)
      <3>1. FreshAt(k) /\ toSub'[k] = toSub[k]
        BY <2>1, <1>1, <1>2 DEF Fresh
      <3>2. ASSUME NEW l \in 1..Len(toSub'), toSub'[l].type = "Announce",
                   toSub'[l].of = toSub[k].of, toSub[k].type = "Announce"
            PROVE  l = k
        <4>1. CASE l \in 1..Len(toSub)
          BY <4>1, <3>1, <3>2, <1>2 DEF FreshAt
        <4>2. CASE l = Len(toSub) + 1
          BY <4>2, <3>2, <2>1, <1>0, <1>2, <1>3
        <4> QED
          BY <4>1, <4>2, <1>2
      <3> QED
        BY <3>1, <3>2 DEF FreshAt, Keeps
    <2>2. CASE k = Len(toSub) + 1
      <3>1. ASSUME NEW l \in 1..Len(toSub'), toSub'[l].of = a, t = "Announce" PROVE l = k
        BY <3>1, <2>2, <1>2, <1>3
      <3> QED
        BY <3>1, <2>2, <1>0, <1>2 DEF FreshAt
    <2> QED
      BY <2>1, <2>2, <1>2
  <1> QED
    BY <1>2, <1>4 DEF Fresh

LEMMA OneMessageLess ==
  ASSUME IInv, Keeps, toSub # <<>>, toSub' = Tail(toSub),
         \/ announced' = announced
         \/ Head(toSub).type = "Announce" /\
            announced' = [announced EXCEPT ![Head(toSub).of] = "queued"]
  PROVE  Fresh' /\ toSub' \in Seq(Messages)
  <1>1. toSub \in Seq(Messages) /\ Fresh /\ announced \in [Announces -> AnnouncedState]
    BY Basics DEF IInv, TypeOK, AnnouncedState
  <1>2. /\ toSub' \in Seq(Messages) /\ Head(toSub) = toSub[1] /\ 1 \in 1..Len(toSub)
        /\ \A k \in 1..Len(toSub') : k + 1 \in 1..Len(toSub) /\ toSub'[k] = toSub[k + 1]
        /\ \A k, l \in 1..Len(toSub') : k + 1 = l + 1 => k = l
        /\ \A k \in 1..Len(toSub') : k + 1 # 1
    BY <1>1, TailFacts
  <1>3. ASSUME NEW k \in 1..Len(toSub') PROVE FreshAt(k)'
    <2>1. FreshAt(k + 1) /\ FreshAt(1) /\ toSub'[k] = toSub[k + 1] /\ k + 1 \in 1..Len(toSub)
      BY <1>1, <1>2 DEF Fresh
    <2>2. toSub'[k].of \in Made /\ namespace[toSub'[k].of] = toSub'[k].ns
      BY <2>1 DEF FreshAt
    <2>3. ASSUME toSub'[k].type = "Announce"
          PROVE  /\ announced'[toSub'[k].of] = "none"
                 /\ \A l \in 1..Len(toSub') :
                      toSub'[l].type = "Announce" /\ toSub'[l].of = toSub'[k].of => l = k
      <3>1. /\ announced[toSub'[k].of] = "none"
            /\ \A l \in 1..Len(toSub) :
                 toSub[l].type = "Announce" /\ toSub[l].of = toSub'[k].of => l = k + 1
        BY <2>1, <2>3 DEF FreshAt
      <3>2. Head(toSub).type = "Announce" => Head(toSub).of # toSub'[k].of
        BY <3>1, <1>2
      <3>3. announced'[toSub'[k].of] = "none"
        <4>1. toSub'[k].of \in Announces
          BY <2>2, Basics
        <4>2. CASE announced' = announced
          BY <4>2, <3>1
        <4>3. CASE /\ Head(toSub).type = "Announce"
                   /\ announced' = [announced EXCEPT ![Head(toSub).of] = "queued"]
          BY <4>1, <4>3, <3>1, <3>2, <1>1
        <4> QED
          BY <4>2, <4>3
      <3> QED
        BY <3>1, <3>3, <1>2
    <2> QED
      BY <2>2, <2>3 DEF FreshAt, Keeps
  <1> QED
    BY <1>2, <1>3 DEF Fresh

-----------------------------------------------------------------------------
(***************************************************************************)
(* The publisher.                                                          *)
(***************************************************************************)
LEMMA AnnounceKeeps ==
  ASSUME IInv, NEW n \in Namespaces, Announce(n) PROVE IInv'
  <1> DEFINE a == Len(namespace) + 1
  <1>1. /\ a \in Announces /\ announces[n] = None /\ namespace' = Append(namespace, n)
        /\ announce' = [announce EXCEPT ![a] = "open"]
        /\ announces' = [announces EXCEPT ![n] = a]
        /\ ToSub("Announce", n, a)
        /\ UNCHANGED <<accepted, announced, entries, toPub, over>>
    BY DEF Announce, subscriber
  <1>2. /\ namespace' \in Seq(Namespaces) /\ Len(namespace') = a
        /\ \A b \in Made : namespace'[b] = namespace[b]
        /\ namespace'[a] = n /\ Made' = Made \cup {a} /\ a \notin Made
    BY <1>1, Basics, AppendFacts DEF Made
  <1> HIDE DEF a
  <1>3. Keeps
    BY <1>1, <1>2, Basics DEF Keeps, Okayed
  <1>4. announced[a] = "none"
    BY <1>1, <1>2, Basics
  <1>5. Fresh' /\ toSub' \in Seq(Messages)
    BY <1>1, <1>2, <1>3, <1>4, MoreMessages
  <1>6. Replied' /\ toPub' \in Seq(Replies)
    BY <1>1, <1>3, SameReplies
  <1>7. Sound'
    BY <1>1, <1>3, SoundKeeps
  <1>8. TypeOK'
    BY <1>1, <1>2, <1>5, <1>6 DEF IInv, TypeOK
  <1>9. Named'
    <2>1. announces \in [Namespaces -> Announces \cup {None}]
      BY DEF IInv, TypeOK
    <2>2. announce \in [Announces -> AnnounceState]
      BY DEF IInv, TypeOK, AnnounceState
    <2>3. \A m \in Namespaces : announces'[m] # None =>
            announces'[m] \in Made' /\ namespace'[announces'[m]] = m
      BY <2>1, <1>1, <1>2 DEF IInv, Named
    <2>4. \A m \in Namespaces : entries[m] # None =>
            /\ entries[m] \in Made' /\ namespace'[entries[m]] = m
            /\ announced[entries[m]] # "none"
      BY <1>2 DEF IInv, Named
    <2>5. \A b \in Announces :
            announce'[b] # "none" \/ accepted[b] \/ announced[b] # "none" => b \in Made'
      BY <2>2, <1>1, <1>2, Basics
    <2> QED
      BY <2>3, <2>4, <2>5, <1>1, <1>3 DEF Named, Keeps
  <1> QED
    BY <1>5, <1>6, <1>7, <1>8, <1>9 DEF IInv

\* The steps of Announce::drop.
LEMMA DropKeeps ==
  ASSUME IInv, NEW a \in Announces, LookDrop(a) \/ RemoveAnnounce(a) \/ Unannounce(a)
  PROVE  IInv'
  <1>1. /\ announce[a] # "none" /\ UNCHANGED <<namespace, accepted, announced, entries, toPub, over>>
        /\ \E s \in AnnounceState : announce' = [announce EXCEPT ![a] = s]
        /\ \/ announces' = announces
           \/ announces' = [announces EXCEPT ![namespace[a]] = None]
        /\ toSub' = toSub \/ ToSub("Unannounce", namespace[a], a)
    BY DEF LookDrop, RemoveAnnounce, Unannounce, subscriber, AnnounceState
  <1>2. a \in Made /\ namespace[a] \in Namespaces
    BY <1>1, Basics
  <1>3. Keeps /\ Made' = Made
    BY <1>1, SameKeeps DEF Okayed, Made
  <1>4. Fresh' /\ toSub' \in Seq(Messages)
    <2>1. CASE toSub' = toSub
      BY <2>1, <1>1, <1>3, SameMessages, Basics
    <2>2. CASE ToSub("Unannounce", namespace[a], a)
      BY <2>2, <1>1, <1>2, <1>3, MoreMessages
    <2> QED
      BY <1>1, <2>1, <2>2
  <1>5. Replied' /\ toPub' \in Seq(Replies)
    BY <1>1, <1>3, SameReplies
  <1>6. Sound'
    BY <1>1, <1>3, SoundKeeps
  <1>7. /\ announces' \in [Namespaces -> Announces \cup {None}]
        /\ \A n \in Namespaces : announces'[n] # None => announces'[n] = announces[n]
    BY <1>1 DEF IInv, TypeOK
  <1>8. /\ announce' \in [Announces -> AnnounceState]
        /\ \A b \in Announces : announce'[b] # "none" => announce[b] # "none" \/ b = a
    BY <1>1 DEF IInv, TypeOK, AnnounceState
  <1>9. TypeOK'
    BY <1>1, <1>4, <1>5, <1>7, <1>8 DEF IInv, TypeOK, AnnounceState
  <1>10. Named'
    BY <1>1, <1>2, <1>3, <1>7, <1>8 DEF IInv, Named
  <1> QED
    BY <1>4, <1>5, <1>6, <1>9, <1>10 DEF IInv

\* recv_announce_ok, recv_announce_error and recv_announce_cancel.
LEMMA RecvPubKeeps == ASSUME IInv, RecvPub PROVE IInv'
  <1> DEFINE m == Head(toPub)
  <1>1. /\ toPub # <<>> /\ toPub' = Tail(toPub)
        /\ UNCHANGED <<namespace, announced, entries, toSub, over>>
        /\ \/ m.type = "AnnounceOk" /\ RecvAnnounceOk(m)
           \/ m.type \in {"AnnounceError", "AnnounceCancel"} /\ RecvAnnounceEnd(m)
    BY DEF RecvPub, subscriber
  <1>2. /\ m \in Replies /\ m.ns \in Namespaces
        /\ m.type = "AnnounceOk" => RepliedTo(m.ns)
    <2>1. m \in Replies /\ m = toPub[1] /\ 1 \in 1..Len(toPub)
      BY <1>1, Basics, TailFacts
    <2> QED
      BY <2>1 DEF Replies, IInv, Replied
  <1> HIDE DEF m
  <1>3. Keeps /\ Made' = Made
    BY <1>1, SameKeeps DEF Okayed, Made
  <1>4. Fresh' /\ toSub' \in Seq(Messages)
    BY <1>1, <1>3, SameMessages, Basics
  <1>5. Replied' /\ toPub' \in Seq(Replies)
    BY <1>1, <1>3, SameReplies
  <1>6. CASE m.type = "AnnounceOk" /\ RecvAnnounceOk(m)
    <2>1. /\ accepted' = [a \in Announces |-> accepted[a] \/ a = announces[m.ns]]
          /\ UNCHANGED <<announce, announces>>
      BY <1>6 DEF RecvAnnounceOk
    <2>2. ASSUME NEW a \in Announces, a = announces[m.ns]
          PROVE  a \in Made /\ (Once(a) => Okayed(a))
      <3>1. a \in Made /\ namespace[a] = m.ns
        BY <2>2, <1>2 DEF IInv, Named, Announces, None
      <3>2. PICK b \in Made : namespace[b] = m.ns /\ Okayed(b)
        BY <1>2, <1>6 DEF RepliedTo
      <3> QED
        BY <3>1, <3>2, Basics DEF Once
    <2>3. \A a \in Announces : accepted'[a] =>
            accepted[a] \/ (a \in Made /\ (Once(a) => Okayed(a)))
      BY <2>1, <2>2
    <2>4. Sound'
      BY <2>3, <1>1, <1>3, SoundKeeps
    <2>5. accepted' \in [Announces -> BOOLEAN]
      BY <2>1 DEF IInv, TypeOK
    <2>6. TypeOK'
      BY <2>1, <2>5, <1>1, <1>4, <1>5 DEF IInv, TypeOK
    <2>7. Named'
      <3>1. \A a \in Announces : announce'[a] # "none" \/ accepted'[a] \/ announced'[a] # "none"
                                 => a \in Made
        BY <2>1, <2>3, <1>1, Basics
      <3> QED
        BY <3>1, <2>1, <1>1, <1>3 DEF IInv, Named
    <2> QED
      BY <2>4, <2>6, <2>7, <1>4, <1>5 DEF IInv
  <1>7. CASE RecvAnnounceEnd(m)
    <2>1. /\ announces' = [announces EXCEPT ![m.ns] = None]
          /\ announce' = [a \in Announces |->
                            IF a = announces[m.ns] /\ announce[a] = "open"
                            THEN "failed" ELSE announce[a]]
          /\ accepted' = accepted
      BY <1>7 DEF RecvAnnounceEnd
    <2>2. /\ announces' \in [Namespaces -> Announces \cup {None}]
          /\ \A n \in Namespaces : announces'[n] # None => announces'[n] = announces[n]
      BY <2>1 DEF IInv, TypeOK
    <2>3. /\ announce' \in [Announces -> AnnounceState]
          /\ \A b \in Announces : announce'[b] # "none" => announce[b] # "none"
      BY <2>1 DEF IInv, TypeOK, AnnounceState
    <2>4. Sound'
      BY <2>1, <1>1, <1>3, SoundKeeps
    <2>5. TypeOK'
      BY <2>1, <2>2, <2>3, <1>1, <1>4, <1>5 DEF IInv, TypeOK, AnnounceState
    <2>6. Named'
      BY <2>1, <2>2, <2>3, <1>1, <1>3 DEF IInv, Named
    <2> QED
      BY <2>4, <2>5, <2>6, <1>4, <1>5 DEF IInv
  <1> QED
    BY <1>1, <1>6, <1>7

(***************************************************************************)
(* The subscriber.                                                         *)
(***************************************************************************)
LEMMA RecvSubKeeps == ASSUME IInv, RecvSub PROVE IInv'
  <1> DEFINE m == Head(toSub)
  <1>1. /\ toSub # <<>> /\ toSub' = Tail(toSub)
        /\ UNCHANGED <<namespace, announce, accepted, announces, toPub>>
        /\ \/ m.type = "Announce" /\ RecvAnnounce(m)
           \/ m.type = "Unannounce" /\ RecvUnannounce(m)
    BY DEF RecvSub, publisher
  <1>2. /\ m \in Messages /\ m.ns \in Namespaces /\ m.of \in Announces
        /\ m.of \in Made /\ namespace[m.of] = m.ns
        /\ m.type = "Announce" => announced[m.of] = "none"
    <2>1. m \in Messages /\ m = toSub[1] /\ 1 \in 1..Len(toSub)
      BY <1>1, Basics, TailFacts
    <2> QED
      BY <2>1 DEF Messages, IInv, Fresh, FreshAt
  <1>0. /\ announced \in [Announces -> AnnouncedState]
        /\ entries \in [Namespaces -> Announces \cup {None}]
    BY DEF IInv, TypeOK, AnnouncedState
  <1>3. CASE /\ m.type = "Announce"
             /\ entries' = [entries EXCEPT ![m.ns] = m.of]
             /\ announced' = [announced EXCEPT ![m.of] = "queued"]
             /\ over' = over
    <2>1. Keeps /\ Made' = Made
      BY <1>0, <1>1, <1>2, <1>3, SameKeeps DEF Okayed, Made
    <2>2. Fresh' /\ toSub' \in Seq(Messages)
      BY <2>1, <1>1, <1>3, OneMessageLess
    <2>3. Replied' /\ toPub' \in Seq(Replies)
      BY <2>1, <1>1, SameReplies
    <2>4. Sound'
      BY <2>1, <1>1, <1>3, SoundKeeps
    <2>5. /\ announced' \in [Announces -> AnnouncedState]
          /\ entries' \in [Namespaces -> Announces \cup {None}]
      BY <1>0, <1>2, <1>3 DEF AnnouncedState
    <2>6. TypeOK'
      BY <2>2, <2>3, <2>5, <1>1, <1>3 DEF IInv, TypeOK, AnnouncedState
    <2>7. \A n \in Namespaces : entries'[n] # None =>
            /\ entries'[n] \in Made /\ namespace[entries'[n]] = n
            /\ announced'[entries'[n]] # "none"
      <3> SUFFICES ASSUME NEW n \in Namespaces, entries'[n] # None
                   PROVE  /\ entries'[n] \in Made /\ namespace[entries'[n]] = n
                          /\ announced'[entries'[n]] # "none"
        OBVIOUS
      <3>1. CASE n = m.ns
        BY <3>1, <1>0, <1>2, <1>3
      <3>2. CASE n # m.ns
        <4>1. /\ entries'[n] = entries[n] /\ entries[n] \in Made /\ namespace[entries[n]] = n
              /\ announced[entries[n]] # "none" /\ entries[n] \in Announces
          BY <3>2, <1>0, <1>3 DEF IInv, Named
        <4> QED
          BY <4>1, <1>0, <1>3
      <3> QED
        BY <3>1, <3>2
    <2>8. \A a \in Announces : announced'[a] # "none" => a \in Made
      BY <1>0, <1>2, <1>3, Basics
    <2>9. Named'
      BY <2>1, <2>7, <2>8, <1>1 DEF IInv, Named
    <2> QED
      BY <2>2, <2>3, <2>4, <2>6, <2>9 DEF IInv
  <1>4. CASE /\ announced' = announced
             /\ entries' = entries \/ entries' = [entries EXCEPT ![m.ns] = None]
             /\ \/ over' = over
                \/ over' = TRUE /\ m.type = "Announce" /\ entries[m.ns] # None
    <2>1. Keeps /\ Made' = Made
      BY <1>1, <1>4, SameKeeps DEF Okayed, Made
    <2>2. Fresh' /\ toSub' \in Seq(Messages)
      BY <2>1, <1>1, <1>4, OneMessageLess
    <2>3. Replied' /\ toPub' \in Seq(Replies)
      BY <2>1, <1>1, SameReplies
    <2>4. over' => over \/ \E a \in Made : ~Once(a)
      <3> SUFFICES ASSUME m.type = "Announce", entries[m.ns] # None PROVE ~Once(m.of)
        BY <1>2, <1>4
      <3>1. /\ entries[m.ns] \in Made /\ namespace[entries[m.ns]] = m.ns
            /\ announced[entries[m.ns]] # "none"
        BY <1>2 DEF IInv, Named
      <3> QED
        BY <3>1, <1>2, Basics DEF Once
    <2>5. Sound'
      BY <2>1, <2>4, <1>1, SoundKeeps
    <2>6. /\ entries' \in [Namespaces -> Announces \cup {None}]
          /\ \A n \in Namespaces : entries'[n] # None => entries'[n] = entries[n]
      BY <1>0, <1>2, <1>4
    <2>7. over' \in BOOLEAN
      BY <1>4 DEF IInv, TypeOK
    <2>8. TypeOK'
      BY <2>2, <2>3, <2>6, <2>7, <1>1, <1>4 DEF IInv, TypeOK
    <2>9. Named'
      BY <2>1, <2>6, <1>1, <1>4 DEF IInv, Named
    <2> QED
      BY <2>2, <2>3, <2>5, <2>8, <2>9 DEF IInv
  <1> QED
    BY <1>1, <1>3, <1>4 DEF RecvAnnounce, RecvUnannounce, subscriber

LEMMA AnnouncedKeeps ==
  ASSUME IInv, NEW a \in Announces, Ok(a) \/ RemoveAnnounced(a) \/ CancelAnnounced(a)
  PROVE  IInv'
  <1>1. /\ announced[a] # "none"
        /\ UNCHANGED <<namespace, announce, accepted, announces, toSub, over>>
        /\ \E s \in AnnouncedState \ {"none"} :
             /\ announced' = [announced EXCEPT ![a] = s]
             /\ Okayed(a) => s \in {"ok", "cancelling", "gone"}
        /\ entries' = entries \/ entries' = [entries EXCEPT ![namespace[a]] = None]
        /\ \/ toPub' = toPub
           \/ ToPub("AnnounceOk", namespace[a]) /\ announced' = [announced EXCEPT ![a] = "ok"]
           \/ \E t \in {"AnnounceError", "AnnounceCancel"} : ToPub(t, namespace[a])
    BY DEF Ok, RemoveAnnounced, CancelAnnounced, ReplyOf, publisher, AnnouncedState, Okayed
  <1>2. a \in Made /\ namespace[a] \in Namespaces
    BY <1>1, Basics
  <1>3. /\ announced' \in [Announces -> AnnouncedState]
        /\ \A b \in Announces : announced'[b] = "none" <=> announced[b] = "none"
        /\ \A b \in Announces : Okayed(b) => Okayed(b)'
    BY <1>1 DEF IInv, TypeOK, AnnouncedState, Okayed
  <1>4. Keeps /\ Made' = Made
    BY <1>1, <1>3, SameKeeps DEF Made
  <1>5. Fresh'
    BY <1>1, <1>3, <1>4, SameMessages
  <1>6. Replied' /\ toPub' \in Seq(Replies)
    <2>1. CASE toPub' = toPub
      BY <2>1, <1>4, SameReplies
    <2>2. CASE ToPub("AnnounceOk", namespace[a]) /\ announced' = [announced EXCEPT ![a] = "ok"]
      <3>1. Okayed(a)'
        BY <2>2 DEF IInv, TypeOK, Okayed
      <3>2. PICK n \in Namespaces : n = namespace[a]
        BY <1>2
      <3>3. RepliedTo(n)'
        BY <3>1, <3>2, <1>1, <1>2, <1>4 DEF RepliedTo
      <3> QED
        BY <2>2, <3>2, <3>3, <1>4, MoreReplies
    <2>3. ASSUME NEW t \in {"AnnounceError", "AnnounceCancel"}, ToPub(t, namespace[a])
          PROVE  Replied' /\ toPub' \in Seq(Replies)
      BY <2>3, <1>2, <1>4, MoreReplies
    <2> QED
      BY <1>1, <2>1, <2>2, <2>3
  <1>7. Sound'
    BY <1>1, <1>4, SoundKeeps
  <1>8. /\ entries' \in [Namespaces -> Announces \cup {None}]
        /\ \A n \in Namespaces : entries'[n] # None => entries'[n] = entries[n]
    BY <1>1 DEF IInv, TypeOK
  <1>9. TypeOK'
    BY <1>1, <1>3, <1>6, <1>8 DEF IInv, TypeOK, AnnouncedState
  <1>10. Named'
    <2>1. \A n \in Namespaces : entries[n] # None => entries[n] \in Announces
      BY DEF IInv, TypeOK
    <2> QED
      BY <2>1, <1>1, <1>3, <1>4, <1>8 DEF IInv, Named
  <1> QED
    BY <1>5, <1>6, <1>7, <1>9, <1>10 DEF IInv

-----------------------------------------------------------------------------
LEMMA NextIInv == IInv /\ [Next]_vars => IInv'
  <1> SUFFICES ASSUME IInv, [Next]_vars PROVE IInv'
    OBVIOUS
  <1>1. ASSUME UNCHANGED vars PROVE IInv'
    <2>1. UNCHANGED <<namespace, announce, accepted, announces, announced, entries, toSub, toPub, over>>
      BY <1>1 DEF vars, publisher, subscriber
    <2>2. Keeps /\ Made' = Made
      BY <2>1, SameKeeps DEF Okayed, Made
    <2>3. Fresh' /\ Replied' /\ Sound'
      BY <2>1, <2>2, SameMessages, SameReplies, SoundKeeps
    <2>4. TypeOK' /\ Named'
      BY <2>1, <2>2 DEF IInv, TypeOK, Named
    <2> QED
      BY <2>3, <2>4 DEF IInv
  <1> QED
    BY <1>1, AnnounceKeeps, DropKeeps, RecvPubKeeps, RecvSubKeeps, AnnouncedKeeps DEF Next

(***************************************************************************)
(* Every state variable keeps its type.                                    *)
(***************************************************************************)
THEOREM TypeCorrect == Spec => []TypeOK
  <1>1. IInv => TypeOK
    BY DEF IInv
  <1> QED
    BY <1>1, InitIInv, NextIInv, PTL DEF Spec

(***************************************************************************)
(* A namespace announced only once never costs the session, and counts as  *)
(* accepted only if the subscriber did accept it.                          *)
(***************************************************************************)
THEOREM AnnouncementsSound == Spec => []Sound
  <1>1. IInv => Sound
    BY DEF IInv
  <1> QED
    BY <1>1, InitIInv, NextIInv, PTL DEF Spec

-----------------------------------------------------------------------------
(***************************************************************************)
(* No end is lost.  OwnEntries: an open Announce of a namespace announced  *)
(* once has the entry of the namespace, and an Announced on its way out    *)
(* has not.  Ends: the publisher is told of an end only by a subscriber    *)
(* that is through with it.  Behind: once the Announce was dropped, an     *)
(* Unannounce follows whatever the subscriber knows of it, or will.        *)
(***************************************************************************)
UnannounceAfter(j, n) ==
  \E k \in 1..Len(toSub) : j < k /\ toSub[k].ns = n /\ toSub[k].type = "Unannounce"

OwnEntries(a) ==
  /\ announce[a] = "open" => announces[namespace[a]] = a
  /\ announced[a] \in {"cancelling", "refusing", "gone"} => entries[namespace[a]] # a

IsEnd(k) == toPub[k].type \in {"AnnounceError", "AnnounceCancel"}

Ends(a) ==
  /\ announced[a] = "gone" /\ announce[a] = "open" => EndSent(namespace[a])
  /\ announce[a] = "failed" => announced[a] = "gone"
  /\ \A k \in 1..Len(toPub) : IsEnd(k) /\ toPub[k].ns = namespace[a] => announced[a] = "gone"

Behind(a) ==
  announce[a] = "dropped" =>
    /\ entries[namespace[a]] = a => UnannounceAfter(0, namespace[a])
    /\ \A j \in 1..Len(toSub) :
         toSub[j].type = "Announce" /\ toSub[j].of = a => UnannounceAfter(j, namespace[a])

Known == \A k \in 1..Len(toPub) : \E a \in Made : toPub[k].ns = namespace[a]

Told == Known /\ \A a \in Made : Once(a) => OwnEntries(a) /\ Ends(a) /\ Behind(a)

\* Of the announcements of a namespace announced once, there is one.
LEMMA OnlyOne ==
  ASSUME IInv, NEW a \in Made, Once(a), NEW b \in Made, namespace[b] = namespace[a]
  PROVE  b = a
  BY Basics DEF Once

LEMMA NewMessage ==
  ASSUME IInv, NEW m \in Messages, toSub' = Append(toSub, m)
  PROVE  /\ Len(toSub) \in Nat /\ Len(toSub') = Len(toSub) + 1
         /\ \A k \in 1..Len(toSub) : k \in 1..Len(toSub') /\ toSub'[k] = toSub[k]
         /\ toSub'[Len(toSub) + 1] = m /\ Len(toSub) + 1 \in 1..Len(toSub')
         /\ \A k \in 1..Len(toSub') : k \in 1..Len(toSub) \/ k = Len(toSub) + 1
  BY Basics, AppendFacts

LEMMA NewReply ==
  ASSUME IInv, NEW m \in Replies, toPub' = Append(toPub, m)
  PROVE  /\ Len(toPub) \in Nat /\ Len(toPub') = Len(toPub) + 1
         /\ \A k \in 1..Len(toPub) : k \in 1..Len(toPub') /\ toPub'[k] = toPub[k]
         /\ toPub'[Len(toPub) + 1] = m /\ Len(toPub) + 1 \in 1..Len(toPub')
         /\ \A k \in 1..Len(toPub') : k \in 1..Len(toPub) \/ k = Len(toPub) + 1
  BY Basics, AppendFacts

LEMMA DomainPub == ASSUME IInv, toPub' \in Seq(Replies)
                   PROVE  DOMAIN toPub = 1..Len(toPub) /\ DOMAIN toPub' = 1..Len(toPub')
  BY Basics, LenType

\* A step that says no more to the publisher than that a is through.
LEMMA EndsKeeps ==
  ASSUME IInv, Keeps, NEW a \in Made, Ends(a),
         \/ toPub' = toPub
         \/ \E m \in Replies :
              /\ toPub' = Append(toPub, m)
              /\ m.type # "AnnounceOk" /\ m.ns = namespace[a] => announced'[a] = "gone",
         announced[a] = "gone" => announced'[a] = "gone",
         announced'[a] = "gone" =>
           announced[a] = "gone" \/ EndSent(namespace[a])' \/ announce'[a] # "open",
         announce'[a] = "open" => announce[a] = "open",
         announce'[a] = "failed" => announce[a] = "failed"
  PROVE  Ends(a)'
  <1> PICK n : n = namespace[a]
    OBVIOUS
  <1>0. namespace'[a] = n
    BY DEF Keeps
  <1>1. EndSent(n) => EndSent(n)'
    <2>1. CASE toPub' = toPub
      BY <2>1 DEF EndSent
    <2>2. ASSUME NEW m \in Replies, toPub' = Append(toPub, m) PROVE EndSent(n) => EndSent(n)'
      <3>1. toPub' \in Seq(Replies)
        BY <2>2, Basics, AppendFacts
      <3> QED
        BY <2>2, <3>1, NewReply, DomainPub DEF EndSent
    <2> QED
      BY <2>1, <2>2
  <1>2. announced'[a] = "gone" /\ announce'[a] = "open" => EndSent(n)'
    BY <1>0, <1>1 DEF Ends
  <1>3. ASSUME NEW k \in 1..Len(toPub'),
               toPub'[k].type \in {"AnnounceError", "AnnounceCancel"}, toPub'[k].ns = n
        PROVE  announced'[a] = "gone"
    <2>1. CASE k \in 1..Len(toPub) /\ toPub'[k] = toPub[k]
      BY <2>1, <1>3 DEF Ends, IsEnd
    <2>2. ASSUME NEW m \in Replies, toPub' = Append(toPub, m), toPub'[k] = m,
                 m.type # "AnnounceOk" /\ m.ns = namespace[a] => announced'[a] = "gone"
          PROVE  announced'[a] = "gone"
      BY <2>2, <1>3
    <2> QED
      BY <2>1, <2>2, NewReply
  <1> QED
    BY <1>0, <1>2, <1>3 DEF Ends, IsEnd

\* A step that tells the subscriber nothing new of a, and does not drop it.
LEMMA BehindKeeps ==
  ASSUME IInv, Keeps, NEW a \in Made, Behind(a),
         \/ toSub' = toSub
         \/ \E m \in Messages :
              toSub' = Append(toSub, m) /\ (m.type = "Announce" => m.of # a),
         announce'[a] = "dropped" => announce[a] = "dropped",
         entries'[namespace[a]] = a => entries[namespace[a]] = a
  PROVE  Behind(a)'
  <1> PICK n : n = namespace[a]
    OBVIOUS
  <1>0. namespace'[a] = n
    BY DEF Keeps
  <1>1. ASSUME NEW j, UnannounceAfter(j, n) PROVE UnannounceAfter(j, n)'
    BY <1>1, NewMessage DEF UnannounceAfter
  <1>2. ASSUME NEW j \in 1..Len(toSub'), toSub'[j].type = "Announce", toSub'[j].of = a
        PROVE  j \in 1..Len(toSub) /\ toSub[j].type = "Announce" /\ toSub[j].of = a
    BY <1>2, NewMessage
  <1> QED
    BY <1>0, <1>1, <1>2 DEF Behind

LEMMA KnownKeeps ==
  ASSUME IInv, Keeps, Known,
         \/ toPub' = toPub
         \/ toPub # <<>> /\ toPub' = Tail(toPub)
         \/ \E m \in Replies : toPub' = Append(toPub, m) /\ \E a \in Made : m.ns = namespace[a]
  PROVE  Known'
  <1>1. ASSUME NEW k \in 1..Len(toPub') PROVE \E a \in Made : toPub'[k].ns = namespace[a]
    <2>1. CASE toPub' = toPub
      BY <2>1 DEF Known
    <2>2. CASE toPub # <<>> /\ toPub' = Tail(toPub)
      <3>1. k + 1 \in 1..Len(toPub) /\ toPub'[k] = toPub[k + 1]
        BY <2>2, Basics, TailFacts
      <3> QED
        BY <3>1 DEF Known
    <2>3. ASSUME NEW m \in Replies, toPub' = Append(toPub, m), \E a \in Made : m.ns = namespace[a]
          PROVE  \E a \in Made : toPub'[k].ns = namespace[a]
      BY <2>3, NewReply DEF Known
    <2> QED
      BY <2>1, <2>2, <2>3
  <1> QED
    BY <1>1 DEF Known, Keeps

LEMMA ToldAnnounce == ASSUME IInv, Told, NEW n \in Namespaces, Announce(n) PROVE Told'
  <1> PICK b : b = Len(namespace) + 1
    OBVIOUS
  <1>1. /\ b \in Announces /\ announces[n] = None /\ namespace' = Append(namespace, n)
        /\ announce' = [announce EXCEPT ![b] = "open"]
        /\ announces' = [announces EXCEPT ![n] = b]
        /\ ToSub("Announce", n, b)
        /\ UNCHANGED <<accepted, announced, entries, toPub, over>>
    BY DEF Announce, subscriber
  <1>2. /\ namespace' \in Seq(Namespaces) /\ Len(namespace') = b
        /\ \A a \in Made : namespace'[a] = namespace[a]
        /\ namespace'[b] = n /\ Made' = Made \cup {b} /\ b \notin Made
        /\ DOMAIN namespace' = Made'
    BY <1>1, Basics, AppendFacts, LenType DEF Made
  <1>3. /\ announce \in [Announces -> AnnounceState]
        /\ announces \in [Namespaces -> Announces \cup {None}]
        /\ entries \in [Namespaces -> Announces \cup {None}]
        /\ announced[b] = "none"
    BY <1>1, <1>2, Basics DEF IInv, TypeOK, AnnounceState
  <1>4. Keeps
    BY <1>1, <1>2, Basics DEF Keeps, Okayed
  <1>5. Known'
    BY <1>1, <1>4, KnownKeeps DEF Told
  <1>6. ASSUME NEW a \in Made, Once(a)' PROVE (OwnEntries(a) /\ Ends(a) /\ Behind(a))'
    <2>1. Once(a) /\ OwnEntries(a) /\ Ends(a) /\ Behind(a) /\ a \in Announces /\ a # b
      BY <1>2, <1>4, <1>6, OnceStays, Basics DEF Told
    <2>2. n # namespace[a]
      BY <1>2, <1>6, <2>1 DEF Once
    <2>3. announce'[a] = announce[a] /\ namespace'[a] = namespace[a]
      BY <1>1, <1>2, <1>3, <2>1
    <2>4. OwnEntries(a)'
      BY <1>1, <1>3, <2>1, <2>2, <2>3, Basics DEF OwnEntries
    <2>5. Ends(a)'
      BY <1>1, <1>4, <2>1, <2>3, EndsKeeps
    <2>6. \E m \in Messages : toSub' = Append(toSub, m) /\ (m.type = "Announce" => m.of # a)
      <3> DEFINE m == [type |-> "Announce", ns |-> n, of |-> b]
      <3>1. m \in Messages /\ toSub' = Append(toSub, m) /\ m.of # a
        BY <1>1, <2>1 DEF Messages, ToSub
      <3> QED
        BY <3>1
    <2>7. Behind(a)'
      BY <1>1, <1>4, <2>1, <2>3, <2>6, BehindKeeps
    <2> QED
      BY <2>4, <2>5, <2>7
  <1>7. ASSUME Once(b)' PROVE (OwnEntries(b) /\ Ends(b) /\ Behind(b))'
    <2>1. \A a \in Made : namespace[a] # n
      BY <1>2, <1>7 DEF Once
    <2>2. announce'[b] = "open" /\ announces'[n] = b
      BY <1>1, <1>3
    <2>3. \A k \in 1..Len(toPub) : toPub[k].ns # n
      BY <2>1 DEF Told, Known
    <2> QED
      BY <1>1, <1>2, <1>3, <2>2, <2>3 DEF OwnEntries, Ends, Behind, IsEnd
  <1> QED
    BY <1>2, <1>5, <1>6, <1>7 DEF Told

\* Who the entries and the states of an announcement are about.
LEMMA OfItsOwn ==
  ASSUME IInv, Told, NEW a \in Made, Once(a)
  PROVE  /\ a \in Announces /\ namespace[a] \in Namespaces
         /\ OwnEntries(a) /\ Ends(a) /\ Behind(a)
         /\ \A b \in Made : namespace[b] = namespace[a] => b = a
  BY Basics, OnlyOne DEF Told

LEMMA ToldDrop ==
  ASSUME IInv, Told, NEW b \in Announces, LookDrop(b) \/ RemoveAnnounce(b) \/ Unannounce(b)
  PROVE  Told'
  <1>1. /\ announce[b] # "none" /\ UNCHANGED <<namespace, accepted, announced, entries, toPub, over>>
        /\ \/ announce[b] = "open" /\ announce' = [announce EXCEPT ![b] = "dropping"]
           \/ announce[b] = "failed" /\ announce' = [announce EXCEPT ![b] = "dropped"]
           \/ announce[b] = "dropping" /\ announce' = [announce EXCEPT ![b] = "removed"]
           \/ /\ announce[b] = "removed" /\ announce' = [announce EXCEPT ![b] = "dropped"]
              /\ ToSub("Unannounce", namespace[b], b)
        /\ \/ announces' = announces
           \/ announces' = [announces EXCEPT ![namespace[b]] = None] /\ announce[b] = "dropping"
        /\ \/ toSub' = toSub
           \/ announce[b] = "removed" /\ ToSub("Unannounce", namespace[b], b)
    BY DEF LookDrop, RemoveAnnounce, Unannounce, subscriber
  <1>2. /\ b \in Made /\ namespace[b] \in Namespaces /\ announce \in [Announces -> AnnounceState]
        /\ announces \in [Namespaces -> Announces \cup {None}]
    BY <1>1, Basics DEF IInv, TypeOK, AnnounceState
  <1>3. Keeps /\ Made' = Made
    BY <1>1, SameKeeps DEF Okayed, Made
  <1>4. Known'
    BY <1>1, <1>3, KnownKeeps DEF Told
  <1>5. \/ toSub' = toSub
        \/ \E m \in Messages : /\ toSub' = Append(toSub, m) /\ m.type = "Unannounce"
                               /\ m.ns = namespace[b]
    <2>1. CASE ToSub("Unannounce", namespace[b], b)
      <3> DEFINE m == [type |-> "Unannounce", ns |-> namespace[b], of |-> b]
      <3>1. m \in Messages /\ toSub' = Append(toSub, m) /\ m.type = "Unannounce" /\ m.ns = namespace[b]
        BY <1>2, <2>1 DEF Messages, ToSub
      <3> QED
        BY <3>1
    <2> QED
      BY <1>1, <2>1
  <1>6. ASSUME NEW a \in Made, Once(a)' PROVE (OwnEntries(a) /\ Ends(a) /\ Behind(a))'
    <2>1. Once(a)
      BY <1>3, <1>6, OnceStays
    <2>2. /\ a \in Announces /\ namespace[a] \in Namespaces
          /\ OwnEntries(a) /\ Ends(a) /\ Behind(a)
          /\ namespace[b] = namespace[a] => b = a
      BY <1>2, <2>1, OfItsOwn
    <2>3. /\ announce'[a] = "open" => announce[a] = "open"
          /\ announce'[a] = "failed" => announce[a] = "failed"
          /\ announce'[a] = "dropped" =>
               \/ announce[a] = "dropped"
               \/ a = b /\ announce[b] = "failed"
               \/ a = b /\ announce[b] = "removed" /\ ToSub("Unannounce", namespace[b], b)
      BY <1>1, <1>2, <2>2
    <2>4. OwnEntries(a)'
      BY <1>1, <1>2, <2>2, <2>3 DEF OwnEntries
    <2>5. Ends(a)'
      BY <1>1, <1>3, <2>2, <2>3, EndsKeeps
    <2>6. CASE announce'[a] = "dropped" => announce[a] = "dropped"
      <3>1. \/ toSub' = toSub
            \/ \E m \in Messages : toSub' = Append(toSub, m) /\ (m.type = "Announce" => m.of # a)
        BY <1>5
      <3> QED
        BY <1>1, <1>3, <2>2, <2>4, <2>5, <2>6, <3>1, BehindKeeps
    <2>7. CASE a = b /\ announce[b] = "failed"
      <3>1. announced[a] = "gone" /\ entries[namespace[a]] # a
        BY <2>2, <2>7 DEF Ends, OwnEntries
      <3>2. \A j \in 1..Len(toSub) : toSub[j].type = "Announce" => toSub[j].of # a
        BY <3>1 DEF IInv, Fresh, FreshAt
      <3>3. toSub' = toSub
        BY <1>1, <2>7
      <3> QED
        BY <1>1, <2>4, <2>5, <3>1, <3>2, <3>3 DEF Behind
    <2>8. CASE a = b /\ ToSub("Unannounce", namespace[b], b)
      <3>1. PICK n : n = namespace[a]
        OBVIOUS
      <3>2. PICK m \in Messages : toSub' = Append(toSub, m) /\ m.type = "Unannounce" /\ m.ns = n
        <4> DEFINE m == [type |-> "Unannounce", ns |-> namespace[b], of |-> b]
        <4>1. m \in Messages /\ toSub' = Append(toSub, m) /\ m.type = "Unannounce" /\ m.ns = n
          BY <1>2, <2>8, <3>1 DEF Messages, ToSub
        <4> QED
          BY <4>1
      <3>3. UnannounceAfter(0, n)'
        BY <3>2, NewMessage DEF UnannounceAfter
      <3>4. ASSUME NEW j \in 1..Len(toSub'), toSub'[j].type = "Announce"
            PROVE  UnannounceAfter(j, n)'
        <4>1. j # Len(toSub) + 1 /\ j \in 1..Len(toSub)
          BY <3>2, <3>4, NewMessage
        <4> QED
          BY <3>2, <4>1, NewMessage DEF UnannounceAfter
      <3> QED
        BY <1>1, <2>4, <2>5, <3>1, <3>3, <3>4 DEF Behind
    <2> QED
      BY <2>3, <2>4, <2>5, <2>6, <2>7, <2>8
  <1> QED
    BY <1>3, <1>4, <1>6 DEF Told

\* The queues once a message was received.
LEMMA MessageReceived ==
  ASSUME IInv, toSub # <<>>, toSub' = Tail(toSub)
  PROVE  /\ Head(toSub) = toSub[1] /\ 1 \in 1..Len(toSub)
         /\ toSub' \in Seq(Messages)
         /\ \A k \in 1..Len(toSub') : k \in Nat /\ k + 1 \in 1..Len(toSub) /\ toSub'[k] = toSub[k + 1]
         /\ \A k \in 1..Len(toSub) :
              k = 1 \/ (k - 1 \in 1..Len(toSub') /\ toSub'[k - 1] = toSub[k] /\ k \in Nat)
  <1>1. toSub \in Seq(Messages)
    BY Basics
  <1>2. Len(toSub) \in Nat /\ Len(toSub') = Len(toSub) - 1
    BY <1>1
  <1>3. \A k \in 1..Len(toSub') : toSub'[k] = toSub[k + 1]
    BY <1>1
  <1> QED
    BY <1>1, <1>2, <1>3

LEMMA ReplyReceived ==
  ASSUME IInv, toPub # <<>>, toPub' = Tail(toPub)
  PROVE  /\ Head(toPub) = toPub[1] /\ 1 \in 1..Len(toPub)
         /\ toPub' \in Seq(Replies)
         /\ \A k \in 1..Len(toPub') : k + 1 \in 1..Len(toPub) /\ toPub'[k] = toPub[k + 1]
         /\ \A k \in 1..Len(toPub) :
              k = 1 \/ (k - 1 \in 1..Len(toPub') /\ toPub'[k - 1] = toPub[k])
  <1>1. toPub \in Seq(Replies)
    BY Basics
  <1>2. Len(toPub) \in Nat /\ Len(toPub') = Len(toPub) - 1
    BY <1>1
  <1>3. \A k \in 1..Len(toPub') : toPub'[k] = toPub[k + 1]
    BY <1>1
  <1> QED
    BY <1>1, <1>2, <1>3

LEMMA ToldRecvPub == ASSUME IInv, Told, RecvPub PROVE Told'
  <1> PICK m : m = Head(toPub)
    OBVIOUS
  <1>1. /\ toPub # <<>> /\ toPub' = Tail(toPub)
        /\ UNCHANGED <<namespace, announced, entries, toSub, over>>
        /\ \/ m.type = "AnnounceOk" /\ RecvAnnounceOk(m)
           \/ m.type \in {"AnnounceError", "AnnounceCancel"} /\ RecvAnnounceEnd(m)
    BY DEF RecvPub, subscriber
  <1>2. /\ m = toPub[1] /\ 1 \in 1..Len(toPub) /\ toPub' \in Seq(Replies)
        /\ \A k \in 1..Len(toPub') : k + 1 \in 1..Len(toPub) /\ toPub'[k] = toPub[k + 1]
        /\ \A k \in 1..Len(toPub) :
             k = 1 \/ (k - 1 \in 1..Len(toPub') /\ toPub'[k - 1] = toPub[k])
    BY <1>1, ReplyReceived
  <1>3. Keeps /\ Made' = Made
    BY <1>1, SameKeeps DEF Okayed, Made
  <1>4. Known'
    BY <1>1, <1>3, KnownKeeps DEF Told
  <1>5. m.type \in {"AnnounceError", "AnnounceCancel"} =>
          /\ announces' = [announces EXCEPT ![m.ns] = None]
          /\ announce' = [a \in Announces |->
                            IF a = announces[m.ns] /\ announce[a] = "open"
                            THEN "failed" ELSE announce[a]]
    BY <1>1 DEF RecvAnnounceEnd
  <1>6. m.type \notin {"AnnounceError", "AnnounceCancel"} => UNCHANGED <<announce, announces>>
    BY <1>1 DEF RecvAnnounceOk
  <1>7. /\ announce \in [Announces -> AnnounceState]
        /\ announces \in [Namespaces -> Announces \cup {None}]
        /\ \A n \in Namespaces : announces[n] # None =>
             announces[n] \in Made /\ namespace[announces[n]] = n
        /\ m.ns \in Namespaces
    <2>1. \A b \in Made : namespace[b] \in Namespaces
      BY Basics
    <2> QED
      BY <1>2, <2>1 DEF IInv, TypeOK, AnnounceState, Named, Told, Known
  <1>8. ASSUME NEW a \in Made, Once(a)' PROVE (OwnEntries(a) /\ Ends(a) /\ Behind(a))'
    <2> PICK n : n = namespace[a]
      OBVIOUS
    <2>1. Once(a) /\ namespace'[a] = n
      BY <1>1, <1>3, <1>8, OnceStays
    <2>2. /\ a \in Announces /\ n \in Namespaces
          /\ OwnEntries(a) /\ Ends(a) /\ Behind(a)
          /\ \A b \in Made : namespace[b] = n => b = a
      BY <2>1, OfItsOwn
    <2>3. CASE m.type \in {"AnnounceError", "AnnounceCancel"} /\ m.ns = n
      <3>1. announced[a] = "gone"
        BY <1>2, <2>2, <2>3 DEF Ends, IsEnd
      <3>2. announce'[a] # "open" /\ (announce'[a] = "dropped" => announce[a] = "dropped")
        BY <1>5, <1>7, <2>2, <2>3 DEF OwnEntries
      <3>3. OwnEntries(a)' /\ Ends(a)'
        BY <1>1, <2>1, <2>2, <3>1, <3>2 DEF OwnEntries, Ends
      <3> QED
        BY <1>1, <1>3, <2>2, <3>2, <3>3, BehindKeeps
    <2>4. CASE ~(m.type \in {"AnnounceError", "AnnounceCancel"} /\ m.ns = n)
      <3>1. announce'[a] = announce[a]
        <4>1. m.ns # n => announces[m.ns] # a
          BY <1>7, <2>2 DEF Announces, None
        <4> QED
          BY <1>5, <1>6, <2>2, <2>4, <4>1
      <3>2. announces'[n] = announces[n]
        BY <1>5, <1>6, <1>7, <2>2, <2>4
      <3>3. EndSent(n) => EndSent(n)'
        <4>1. DOMAIN toPub = 1..Len(toPub) /\ DOMAIN toPub' = 1..Len(toPub')
          BY <1>2, DomainPub
        <4>2. ASSUME NEW k \in 1..Len(toPub), toPub[k].ns = n,
                     toPub[k].type \in {"AnnounceError", "AnnounceCancel"}
              PROVE  k - 1 \in 1..Len(toPub') /\ toPub'[k - 1] = toPub[k]
          BY <1>2, <2>4, <4>2
        <4> QED
          BY <4>1, <4>2 DEF EndSent
      <3>4. \A k \in 1..Len(toPub') :
              toPub'[k].type \in {"AnnounceError", "AnnounceCancel"} /\ toPub'[k].ns = n =>
                announced[a] = "gone"
        BY <1>2, <2>2 DEF Ends, IsEnd
      <3>5. OwnEntries(a)'
        BY <1>1, <2>1, <2>2, <3>1, <3>2 DEF OwnEntries
      <3>6. Ends(a)'
        BY <1>1, <2>1, <2>2, <3>1, <3>3, <3>4 DEF Ends, IsEnd
      <3> QED
        BY <1>1, <1>3, <2>2, <3>1, <3>5, <3>6, BehindKeeps
    <2> QED
      BY <2>3, <2>4
  <1> QED
    BY <1>3, <1>4, <1>8 DEF Told

LEMMA ToldRecvSub == ASSUME IInv, Told, RecvSub PROVE Told'
  <1> PICK m : m = Head(toSub)
    OBVIOUS
  <1>1. /\ toSub # <<>> /\ toSub' = Tail(toSub)
        /\ UNCHANGED <<namespace, announce, accepted, announces, toPub>>
        /\ \/ m.type = "Announce" /\ RecvAnnounce(m)
           \/ m.type = "Unannounce" /\ RecvUnannounce(m)
    BY DEF RecvSub, publisher
  <1>2. /\ m = toSub[1] /\ 1 \in 1..Len(toSub) /\ toSub' \in Seq(Messages)
        /\ \A k \in 1..Len(toSub') : k \in Nat /\ k + 1 \in 1..Len(toSub) /\ toSub'[k] = toSub[k + 1]
        /\ \A k \in 1..Len(toSub) :
             k = 1 \/ (k - 1 \in 1..Len(toSub') /\ toSub'[k - 1] = toSub[k] /\ k \in Nat)
    BY <1>1, MessageReceived
  <1>3. /\ m.of \in Made /\ m.of \in Announces /\ m.ns = namespace[m.of] /\ m.ns \in Namespaces
        /\ m.type = "Announce" => announced[m.of] = "none"
        /\ announced \in [Announces -> AnnouncedState]
        /\ entries \in [Namespaces -> Announces \cup {None}]
    BY <1>2, Basics DEF IInv, Fresh, FreshAt, TypeOK, AnnouncedState
  <1>4. \/ /\ m.type = "Announce"
           /\ entries' = [entries EXCEPT ![m.ns] = m.of]
           /\ announced' = [announced EXCEPT ![m.of] = "queued"]
        \/ announced' = announced /\ entries' = [entries EXCEPT ![m.ns] = None]
        \/ announced' = announced /\ entries' = entries /\ m.type = "Announce"
    BY <1>1 DEF RecvAnnounce, RecvUnannounce, subscriber
  <1>5. Keeps /\ Made' = Made
    BY <1>1, <1>3, <1>4, SameKeeps DEF Okayed, Made
  <1>6. Known'
    BY <1>1, <1>5, KnownKeeps DEF Told
  <1>7. ASSUME NEW a \in Made, Once(a)' PROVE (OwnEntries(a) /\ Ends(a) /\ Behind(a))'
    <2> PICK n : n = namespace[a]
      OBVIOUS
    <2>1. Once(a) /\ namespace'[a] = n
      BY <1>1, <1>5, <1>7, OnceStays
    <2>2. /\ a \in Announces /\ n \in Namespaces
          /\ OwnEntries(a) /\ Ends(a) /\ Behind(a)
          /\ \A b \in Made : namespace[b] = n => b = a
      BY <2>1, OfItsOwn
    <2>3. /\ m.ns = n <=> m.of = a
          /\ announced'[a] \in {"cancelling", "refusing", "gone"} => announced'[a] = announced[a]
          /\ announced[a] = "gone" => announced'[a] = "gone"
      BY <1>3, <1>4, <2>2
    <2>4. OwnEntries(a)'
      <3>1. ASSUME announced'[a] \in {"cancelling", "refusing", "gone"} PROVE entries'[n] # a
        BY <1>3, <1>4, <2>2, <2>3, <3>1 DEF OwnEntries, Announces, None
      <3> QED
        BY <1>1, <2>1, <2>2, <3>1 DEF OwnEntries
    <2>5. Ends(a)'
      BY <1>1, <1>5, <2>2, <2>3, EndsKeeps
    <2>6. ASSUME announce[a] = "dropped", NEW j \in 0..Len(toSub'), UnannounceAfter(j + 1, n)
          PROVE  UnannounceAfter(j, n)'
      <3>1. PICK k \in 1..Len(toSub) : j + 1 < k /\ toSub[k].ns = n /\ toSub[k].type = "Unannounce"
        BY <2>6 DEF UnannounceAfter
      <3>2. k \in Nat /\ k # 1 /\ j < k - 1
        BY <3>1
      <3>3. k - 1 \in 1..Len(toSub') /\ toSub'[k - 1] = toSub[k]
        BY <1>2, <3>2
      <3> QED
        BY <3>1, <3>2, <3>3 DEF UnannounceAfter
    <2>7. ASSUME announce[a] = "dropped", NEW j \in 1..Len(toSub'), toSub'[j].type = "Announce",
                 toSub'[j].of = a
          PROVE  UnannounceAfter(j, n)'
      <3>1. UnannounceAfter(j + 1, n)
        BY <1>2, <2>2, <2>7 DEF Behind
      <3> QED
        BY <2>6, <2>7, <3>1
    <2>8. ASSUME announce[a] = "dropped", entries'[n] = a PROVE UnannounceAfter(0, n)'
      <3>0. Len(toSub') \in Nat
        BY <1>2
      <3>1. CASE m.type = "Announce" /\ m.of = a
        <4>1. UnannounceAfter(1, n)
          BY <1>2, <2>2, <2>8, <3>1 DEF Behind
        <4> QED
          BY <2>6, <2>8, <3>0, <4>1
      <3>2. CASE ~(m.type = "Announce" /\ m.of = a)
        <4>1. entries[n] = a /\ m.ns # n
          BY <1>1, <1>3, <1>4, <2>2, <2>3, <2>8, <3>2 DEF Announces, None
        <4>2. PICK k \in 1..Len(toSub) : 0 < k /\ toSub[k].ns = n /\ toSub[k].type = "Unannounce"
          BY <2>2, <2>8, <4>1 DEF Behind, UnannounceAfter
        <4>3. k # 1 /\ 1 < k
          BY <1>2, <4>1, <4>2
        <4>4. UnannounceAfter(1, n)
          BY <4>2, <4>3 DEF UnannounceAfter
        <4> QED
          BY <2>6, <2>8, <3>0, <4>4
      <3> QED
        BY <3>1, <3>2
    <2>9. Behind(a)'
      BY <1>1, <2>1, <2>7, <2>8 DEF Behind
    <2> QED
      BY <2>4, <2>5, <2>9
  <1> QED
    BY <1>5, <1>6, <1>7 DEF Told

LEMMA ToldAnnounced ==
  ASSUME IInv, Told, NEW b \in Announces, Ok(b) \/ RemoveAnnounced(b) \/ CancelAnnounced(b)
  PROVE  Told'
  <1>1. /\ announced[b] # "none"
        /\ UNCHANGED <<namespace, announce, accepted, announces, toSub, over>>
        /\ \/ /\ announced' = [announced EXCEPT ![b] = "ok"] /\ announced[b] = "queued"
              /\ entries' = entries /\ ToPub("AnnounceOk", namespace[b])
           \/ /\ \E s \in {"cancelling", "refusing"} :
                   announced' = [announced EXCEPT ![b] = s] /\ (announced[b] = "ok" => s = "cancelling")
              /\ announced[b] \in {"queued", "ok"}
              /\ entries' = [entries EXCEPT ![namespace[b]] = None] /\ toPub' = toPub
           \/ /\ announced' = [announced EXCEPT ![b] = "gone"]
              /\ announced[b] \in {"cancelling", "refusing"}
              /\ entries' = entries
              /\ \E t \in {"AnnounceError", "AnnounceCancel"} : ToPub(t, namespace[b])
    BY DEF Ok, RemoveAnnounced, CancelAnnounced, ReplyOf, publisher
  <1>2. /\ b \in Made /\ namespace[b] \in Namespaces
        /\ announced \in [Announces -> AnnouncedState]
        /\ entries \in [Namespaces -> Announces \cup {None}]
    BY <1>1, Basics DEF IInv, TypeOK, AnnouncedState
  <1>3. Keeps /\ Made' = Made
    <2>1. \A a \in Announces : Okayed(a) => Okayed(a)'
      BY <1>1, <1>2 DEF Okayed
    <2> QED
      BY <1>1, <2>1, SameKeeps DEF Made
  <1>4. \/ toPub' = toPub /\ (announced'[b] = "gone" => announced[b] = "gone")
        \/ \E m \in Replies :
             /\ toPub' = Append(toPub, m) /\ m.ns = namespace[b]
             /\ m.type # "AnnounceOk" <=> announced'[b] = "gone"
             /\ announced[b] # "gone"
    <2>1. ASSUME NEW t \in {"AnnounceOk", "AnnounceError", "AnnounceCancel"},
                 ToPub(t, namespace[b])
          PROVE  \E m \in Replies : /\ toPub' = Append(toPub, m) /\ m.ns = namespace[b]
                                    /\ m.type = t
      <3> DEFINE m == [type |-> t, ns |-> namespace[b]]
      <3>1. m \in Replies /\ toPub' = Append(toPub, m) /\ m.ns = namespace[b] /\ m.type = t
        BY <1>2, <2>1 DEF Replies, ToPub
      <3> QED
        BY <3>1
    <2> QED
      BY <1>1, <1>2, <2>1
  <1>5. Known'
    BY <1>2, <1>3, <1>4, KnownKeeps DEF Told
  <1>6. ASSUME NEW a \in Made, Once(a)' PROVE (OwnEntries(a) /\ Ends(a) /\ Behind(a))'
    <2> PICK n : n = namespace[a]
      OBVIOUS
    <2>1. Once(a) /\ namespace'[a] = n
      BY <1>1, <1>3, <1>6, OnceStays
    <2>2. /\ a \in Announces /\ n \in Namespaces
          /\ OwnEntries(a) /\ Ends(a) /\ Behind(a)
          /\ \A c \in Made : namespace[c] = n => c = a
      BY <2>1, OfItsOwn
    <2>3. a # b => announced'[a] = announced[a] /\ namespace[b] # n
      BY <1>1, <1>2, <2>2
    <2>4. entries'[n] = a => entries[n] = a
      BY <1>1, <1>2, <2>2 DEF Announces, None
    <2>5. OwnEntries(a)'
      <3>1. announced'[a] \in {"cancelling", "refusing", "gone"} => entries'[n] # a
        <4>1. CASE announced[a] \in {"cancelling", "refusing", "gone"}
          BY <2>2, <2>4, <4>1 DEF OwnEntries
        <4>2. CASE a = b /\ entries' = [entries EXCEPT ![namespace[b]] = None]
          BY <1>2, <2>2, <4>2 DEF Announces, None
        <4>3. CASE announced'[a] \in {"none", "queued", "ok"}
          BY <4>3
        <4> QED
          BY <1>1, <1>2, <2>2, <2>3, <4>1, <4>2, <4>3 DEF AnnouncedState
      <3> QED
        BY <1>1, <2>1, <2>2, <3>1 DEF OwnEntries
    <2>6. announced[a] = "gone" => announced'[a] = "gone"
      BY <1>1, <1>2, <2>2
    <2>7. announced'[a] = "gone" => announced[a] = "gone" \/ EndSent(n)'
      <3>1. CASE toPub' = toPub
        BY <1>1, <1>2, <1>4, <2>2, <2>3, <3>1
      <3>2. ASSUME NEW m \in Replies, toPub' = Append(toPub, m), m.ns = namespace[b],
                   m.type # "AnnounceOk", a = b
            PROVE  EndSent(n)'
        <4>1. toPub' \in Seq(Replies)
          BY <3>2, Basics, AppendFacts
        <4>2. m.type \in {"AnnounceError", "AnnounceCancel"}
          BY <3>2 DEF Replies
        <4> QED
          BY <3>2, <4>1, <4>2, NewReply, DomainPub DEF EndSent
      <3> QED
        BY <1>4, <2>3, <3>1, <3>2
    <2>8. Ends(a)'
      <3>1. \/ toPub' = toPub
            \/ \E m \in Replies :
                 /\ toPub' = Append(toPub, m)
                 /\ m.type # "AnnounceOk" /\ m.ns = namespace[a] => announced'[a] = "gone"
        BY <1>4, <2>3
      <3> QED
        BY <1>1, <1>3, <2>1, <2>2, <2>6, <2>7, <3>1, EndsKeeps
    <2>9. Behind(a)'
      BY <1>1, <1>3, <2>2, <2>4, BehindKeeps
    <2> QED
      BY <2>5, <2>8, <2>9
  <1> QED
    BY <1>3, <1>5, <1>6 DEF Told

LEMMA InitTold == Init => Told
  <1> SUFFICES ASSUME Init PROVE Told
    OBVIOUS
  <1>1. Len(namespace) = 0 /\ Len(toPub) = 0
    BY EmptyIsSeq DEF Init
  <1> QED
    BY <1>1 DEF Told, Known, Made

LEMMA NextTold == IInv /\ Told /\ [Next]_vars => Told'
  <1> SUFFICES ASSUME IInv, Told, [Next]_vars PROVE Told'
    OBVIOUS
  <1>1. ASSUME UNCHANGED vars PROVE Told'
    <2>1. UNCHANGED <<namespace, announce, announces, announced, entries, toSub, toPub>>
      BY <1>1 DEF vars, publisher, subscriber
    <2> QED
      BY <2>1 DEF Told, Known, Made, Once, OwnEntries, Ends, EndSent, IsEnd, Behind, UnannounceAfter
  <1> QED
    BY <1>1, ToldAnnounce, ToldDrop, ToldRecvPub, ToldRecvSub, ToldAnnounced DEF Next

(***************************************************************************)
(* No end of an announcement is lost where the two sides cross: what one   *)
(* side ended and the other still holds, a message on its way will end.    *)
(***************************************************************************)
THEOREM NoEndLost == Spec => []EndUnderWay
  <1>1. IInv /\ Told => EndUnderWay
    <2> SUFFICES ASSUME IInv, Told, NEW a \in DOMAIN namespace, Once(a)
                 PROVE  /\ announced[a] = "gone" /\ announce[a] = "open" => EndSent(namespace[a])
                        /\ announce[a] = "dropped" /\ entries[namespace[a]] = a =>
                             UnannounceSent(namespace[a])
      BY DEF EndUnderWay
    <2>1. a \in Made /\ DOMAIN toSub = 1..Len(toSub)
      BY Basics, LenType
    <2>2. Ends(a) /\ Behind(a)
      BY <2>1 DEF Told
    <2> QED
      BY <2>1, <2>2 DEF Ends, Behind, UnannounceAfter, UnannounceSent
  <1> QED
    BY <1>1, InitIInv, NextIInv, InitTold, NextTold, PTL DEF Spec
=============================================================================
