---------------------------- MODULE SessionSetup ----------------------------
(***************************************************************************)
(* How a session opens (session/mod.rs): the client sends the role it asks *)
(* for, the server lowers its own to match and answers with it, and the    *)
(* client lowers its role in turn.  A side has a Publisher, a Subscriber   *)
(* or both halves, by the role it ends with, and a message for a half that *)
(* is not there ends the session with RoleViolation.                       *)
(***************************************************************************)
VARIABLES
  role,             \* of each side: what it asks for, then what it has
  state,            \* new, waiting (the client), open, failed, ended, violation
  setup,            \* the SETUP under way to each side, or NoSetup
  flight            \* the kinds of messages under way to each side
setupVars == <<role, state, setup, flight>>

Sides == {"client", "server"}
Peer(s) == IF s = "client" THEN "server" ELSE "client"

Roles == {"Publisher", "Subscriber", "Both"}
IsPublisher(r) == r \in {"Publisher", "Both"}
IsSubscriber(r) == r \in {"Subscriber", "Both"}

\* A half sends one kind of control messages to the other half, and the publisher
\* sends streams and datagrams as well.
ToSubscriber == {"publisher message", "data"}
ToPublisher == {"subscriber message"}
Sends(r) == (IF IsPublisher(r) THEN ToSubscriber ELSE {})
            \cup (IF IsSubscriber(r) THEN ToPublisher ELSE {})
Handles(r) == (IF IsSubscriber(r) THEN ToSubscriber ELSE {})
              \cup (IF IsPublisher(r) THEN ToPublisher ELSE {})

\* A SETUP carries a role and the versions offered, or the one chosen.
NoSetup == [role |-> "none", versions |-> {}]
ClientSetup(r) == [role |-> r, versions |-> {"DRAFT_04"}]
ServerSetup(r) == [role |-> r, versions |-> {"DRAFT_04"}]

Clash(mine, theirs) == theirs # "Both" /\ mine = theirs
Downgrade(mine, theirs) ==
  CASE theirs = "Both" -> mine
    [] theirs = "Publisher" -> "Subscriber"
    [] theirs = "Subscriber" -> "Publisher"

SetupInit ==
  /\ role \in [Sides -> Roles]
  /\ state = [s \in Sides |-> "new"]
  /\ setup = [s \in Sides |-> NoSetup]
  /\ flight = [s \in Sides |-> {}]

Connect ==
  /\ state["client"] = "new"
  /\ state' = [state EXCEPT !["client"] = "waiting"]
  /\ setup' = [setup EXCEPT !["server"] = ClientSetup(role["client"])]
  /\ UNCHANGED <<role, flight>>

AcceptFails ==
  /\ state["server"] = "new" /\ setup["server"] # NoSetup
  /\ \/ "DRAFT_04" \notin setup["server"].versions
     \/ Clash(role["server"], setup["server"].role)
  /\ state' = [state EXCEPT !["server"] = "failed"]
  /\ UNCHANGED <<role, setup, flight>>

Accept ==
  LET lowered == Downgrade(role["server"], setup["server"].role) IN
  /\ state["server"] = "new" /\ setup["server"] # NoSetup
  /\ "DRAFT_04" \in setup["server"].versions
  /\ ~Clash(role["server"], setup["server"].role)
  /\ role' = [role EXCEPT !["server"] = lowered]
  /\ setup' = [setup EXCEPT !["client"] = ServerSetup(lowered)]
  /\ state' = [state EXCEPT !["server"] = "open"]
  /\ UNCHANGED flight

\* No answer comes from a server that failed, and none is right if the roles clash;
\* the version in it is not looked at.
ConnectFails ==
  /\ state["client"] = "waiting"
  /\ \/ setup["client"] = NoSetup /\ state["server"] = "failed"
     \/ setup["client"] # NoSetup /\ Clash(role["client"], setup["client"].role)
  /\ state' = [state EXCEPT !["client"] = "failed"]
  /\ UNCHANGED <<role, setup, flight>>

Connected ==
  /\ state["client"] = "waiting" /\ setup["client"] # NoSetup
  /\ ~Clash(role["client"], setup["client"].role)
  /\ role' = [role EXCEPT !["client"] = Downgrade(@, setup["client"].role)]
  /\ state' = [state EXCEPT !["client"] = "open"]
  /\ UNCHANGED <<setup, flight>>

Send(s) ==
  /\ state[s] = "open"
  /\ \E k \in Sends(role[s]) : flight' = [flight EXCEPT ![Peer(s)] = @ \cup {k}]
  /\ UNCHANGED <<role, state, setup>>

\* A message, stream or datagram goes to the half it is for.
Dispatch(s, k) ==
  /\ state[s] = "open" /\ k \in flight[s]
  /\ \/ k \in Handles(role[s]) /\ UNCHANGED state
     \/ k \notin Handles(role[s]) /\ state' = [state EXCEPT ![s] = "violation"]
  /\ UNCHANGED <<role, setup>>

RecvMessage(s) ==
  \E k \in {"publisher message", "subscriber message"} :
    /\ Dispatch(s, k)
    /\ flight' = [flight EXCEPT ![s] = @ \ {k}]

RecvData(s) ==
  /\ Dispatch(s, "data")
  /\ flight' = [flight EXCEPT ![s] = @ \ {"data"}]

\* The transport, the application or an error of a handler.
End(s) ==
  /\ state[s] = "open"
  /\ state' = [state EXCEPT ![s] = "ended"]
  /\ UNCHANGED <<role, setup, flight>>

SetupNext ==
  \/ Connect \/ AcceptFails \/ Accept \/ ConnectFails \/ Connected
  \/ \E s \in Sides : Send(s) \/ RecvMessage(s) \/ RecvData(s) \/ End(s)

SetupSpec == SetupInit /\ [][SetupNext]_setupVars
-----------------------------------------------------------------------------
(***************************************************************************)
(* What two sides that opened a session ask of each other is what          *)
(* Role::is_compatible says, which the handshake itself never calls.       *)
(***************************************************************************)
IsCompatible(a, b) ==
  /\ IsPublisher(a) <=> IsSubscriber(b)
  /\ IsSubscriber(a) <=> IsPublisher(b)

Opened(s) == state[s] \in {"open", "ended", "violation"}

RolesMatch == Opened("client") /\ Opened("server") => IsCompatible(role["client"], role["server"])

(***************************************************************************)
(* No message of one side is for a half the other does not have, however   *)
(* early it is sent: the server sends before the client has its role.      *)
(***************************************************************************)
NoViolation == \A s \in Sides : state[s] # "violation"

(***************************************************************************)
(* A session does not open on one side only: after the server has agreed,  *)
(* the client does, so its own test of the roles never fails.              *)
(***************************************************************************)
NeverHalfOpen == state["client"] = "failed" => ~Opened("server")
=============================================================================
