------------------------------ MODULE WsClient ------------------------------
(***************************************************************************)
(* A WebSocket client (base/ws_client.py and the venue classes built on    *)
(* it): topics spread over numbered connections, one reconnect loop per    *)
(* connection, and the connection policy the engine derives from the       *)
(* changes the loops report.                                               *)
(*                                                                         *)
(* A loop only yields while it connects, while it waits five seconds for a *)
(* login, while it waits for the disconnection and between two attempts;   *)
(* everything else happens in one step.  The client never clears its       *)
(* transport, so after a drop it still looks connected to _subscribe.      *)
(***************************************************************************)
EXTENDS Naturals, FiniteSets, SequencesExt

CONSTANTS
  Topics,        \* what can be subscribed to
  Requests,      \* the lists of topics of one subscribe or unsubscribe call
  PerClient,     \* max_subscriptions_per_client; None is any number >= |Topics|
  MaxClients,    \* max_clients; None is any number >= |Topics|
  SlowLogin,     \* a login may take longer than the five seconds given to it
  MaxDrops       \* bound: connections dropped by the network or the venue

ASSUME WsClientAssumption ==
  /\ Requests \subseteq Seq(Topics)
  /\ PerClient \in Nat \ {0} /\ MaxClients \in Nat \ {0}
  /\ SlowLogin \in BOOLEAN /\ MaxDrops \in Nat

\* The client never has more connections than this.
ClientIds == 0 .. MaxClients - 1

VARIABLES
  private,        \* a private stream: it logs in before it subscribes
  subscriptions,  \* _subscriptions
  assigned,       \* _client_subscriptions
  nextClient,     \* _next_client_id
  started,        \* _started
  pc,             \* where the loop of each connection stands
  transport,      \* _transports: "none", "up", or "down" once dropped
  ready,          \* _ready
  connectedState, \* _connection_registry of the engine
  allow,          \* the policy last sent to the strategy
  loggedIn,       \* connections the venue has taken a login on
  serving,        \* topics the venue sends on the present connection
  stranded,       \* topics registered whose request was not sent or was refused
  drops           \* connections dropped so far

clientVars == <<subscriptions, assigned, nextClient, stranded>>
loopVars   == <<started, pc, ready>>
linkVars   == <<private, transport, loggedIn, serving, drops>>
policyVars == <<connectedState, allow>>
wsVars == <<clientVars, loopVars, linkVars, policyVars>>

Clients == 0 .. nextClient - 1

Init ==
  /\ private \in BOOLEAN
  /\ subscriptions = {} /\ stranded = {}
  /\ assigned = [c \in ClientIds |-> {}]
  /\ nextClient = 0
  /\ started = FALSE /\ ready = FALSE /\ allow = FALSE
  /\ pc = [c \in ClientIds |-> "off"]
  /\ transport = [c \in ClientIds |-> "none"]
  /\ connectedState = [c \in ClientIds |-> FALSE]
  /\ loggedIn = [c \in ClientIds |-> FALSE]
  /\ serving = [c \in ClientIds |-> {}]
  /\ drops = 0

-----------------------------------------------------------------------------
(* The policy: every connection known to the engine is connected.           *)

\* Mutant: one connection is enough.
AnyConnected(state, n) == \E c \in 0 .. n - 1 : state[c]

PolicyAllows(state, n) == n > 0 /\ \A c \in 0 .. n - 1 : state[c]

NotifyConnectionChange(c, connected) ==
  /\ connectedState' = [connectedState EXCEPT ![c] = connected]
  /\ allow' = PolicyAllows(connectedState', nextClient)

-----------------------------------------------------------------------------
(* Subscribing.  Reg is the state of the registration loop: the assignment, *)
(* the connections made, and whether it ran into max_clients.               *)

Reg == [asg |-> assigned, n |-> nextClient, full |-> FALSE]
Known(reg) == UNION {reg.asg[c] : c \in ClientIds}
Roomy(reg) == {c \in 0 .. reg.n - 1 : Cardinality(reg.asg[c]) < PerClient}

\* _get_client_id_for_new_subscription: the first connection with room, a new
\* one while max_clients allows it, or the error.
PlaceNew(reg, t) ==
  CASE Roomy(reg) # {}    -> [reg EXCEPT !.asg[Min(Roomy(reg))] = @ \cup {t}]
    [] Roomy(reg) = {} /\ reg.n < MaxClients ->
         [reg EXCEPT !.asg[reg.n] = {t}, !.n = @ + 1]
    [] OTHER              -> [reg EXCEPT !.full = TRUE]

\* One turn of _register_subscriptions.
Place(reg, t) ==
  IF reg.full \/ t \in Known(reg) THEN reg ELSE PlaceNew(reg, t)

RegisterSubscriptions(ts) == FoldLeft(Place, Reg, ts)

\* The venue takes a subscription on an open connection, after the login.
Accepts(c) == transport[c] = "up" /\ (private => loggedIn[c])

\* _subscribe.  A new connection is announced as not connected and, once the
\* client is started, its loop is started.  When the registration raises, what
\* it has placed stays placed and nothing is sent.
Subscribe(ts) ==
  LET reg == RegisterSubscriptions(ts)
      fresh == [c \in ClientIds |-> reg.asg[c] \ assigned[c]]
  IN  /\ assigned' = reg.asg /\ nextClient' = reg.n
      /\ subscriptions' = Known(reg)
      /\ serving' = [c \in ClientIds |-> IF ~ reg.full /\ Accepts(c)
                                         THEN serving[c] \cup fresh[c] ELSE serving[c]]
      /\ stranded' = IF reg.full THEN stranded \cup UNION {fresh[c] : c \in ClientIds} ELSE stranded
      /\ pc' = [c \in ClientIds |-> IF started /\ c \in nextClient .. reg.n - 1
                                    THEN "connecting" ELSE pc[c]]
      /\ allow' = (allow /\ reg.n = nextClient)
      /\ UNCHANGED <<started, ready, transport, loggedIn, drops, private, connectedState>>

\* _unsubscribe.  On a transport that is gone the request is dropped, and the
\* venue forgot the topic with the connection.
Unsubscribe(ts) ==
  /\ subscriptions' = subscriptions \ ToSet(ts)
  /\ assigned' = [c \in ClientIds |-> assigned[c] \ ToSet(ts)]
  /\ stranded' = stranded \ ToSet(ts)
  /\ serving' = [c \in ClientIds |-> serving[c] \ ToSet(ts)]
  /\ UNCHANGED <<nextClient, loopVars, transport, loggedIn, drops, private, policyVars>>

-----------------------------------------------------------------------------
(* The connections.                                                         *)

\* connect: the first call starts the loop of every connection, of connection
\* 0 at least.  While the loops run another call changes nothing.
Connect ==
  /\ ~ started
  /\ started' = TRUE
  /\ nextClient' = IF nextClient = 0 THEN 1 ELSE nextClient
  /\ pc' = [c \in ClientIds |-> IF c < nextClient' THEN "connecting" ELSE pc[c]]
  /\ UNCHANGED <<subscriptions, assigned, stranded, ready, linkVars, policyVars>>

\* Mutant: only the first connection subscribes.
ResubscribeOnce(c) ==
  /\ pc[c] = "connecting"
  /\ transport' = [transport EXCEPT ![c] = "up"]
  /\ NotifyConnectionChange(c, TRUE)
  /\ IF private /\ assigned[c] # {}
     THEN pc' = [pc EXCEPT ![c] = "auth"] /\ UNCHANGED <<ready, serving, stranded>>
     ELSE /\ pc' = [pc EXCEPT ![c] = "wait"]
          /\ ready' = TRUE
          /\ serving' = [serving EXCEPT ![c] = IF ready THEN {} ELSE assigned[c]]
          /\ stranded' = stranded \ assigned[c]
  /\ UNCHANGED <<subscriptions, assigned, nextClient, started, loggedIn, drops, private>>

\* The connection is made, the change reported, and _resubscribe_for_client run
\* up to its login, or to its end when there is none.
ConnectOk(c) ==
  /\ pc[c] = "connecting"
  /\ transport' = [transport EXCEPT ![c] = "up"]
  /\ NotifyConnectionChange(c, TRUE)
  /\ IF private /\ assigned[c] # {}
     THEN pc' = [pc EXCEPT ![c] = "auth"] /\ UNCHANGED <<ready, serving, stranded>>
     ELSE /\ pc' = [pc EXCEPT ![c] = "wait"]
          /\ ready' = TRUE
          /\ serving' = [serving EXCEPT ![c] = assigned[c]]
          /\ stranded' = stranded \ assigned[c]
  /\ UNCHANGED <<subscriptions, assigned, nextClient, started, loggedIn, drops, private>>

\* The attempt fails; the loop sleeps reconnect_interval and tries again.
ConnectFail(c) ==
  /\ pc[c] = "connecting"
  /\ pc' = [pc EXCEPT ![c] = "backoff"]
  /\ UNCHANGED <<clientVars, started, ready, linkVars, policyVars>>

Retry(c) ==
  /\ pc[c] = "backoff"
  /\ pc' = [pc EXCEPT ![c] = "connecting"]
  /\ UNCHANGED <<clientVars, started, ready, linkVars, policyVars>>

\* The five seconds after the login are over: the topics the connection has by
\* now are sent, whether or not the venue has taken the login.
AuthDone(c) ==
  /\ pc[c] = "auth"
  /\ SlowLogin \/ loggedIn[c] \/ transport[c] = "down"
  /\ pc' = [pc EXCEPT ![c] = "wait"]
  /\ ready' = TRUE
  /\ serving' = [serving EXCEPT ![c] = IF Accepts(c) THEN assigned[c] ELSE @]
  /\ stranded' = IF Accepts(c) THEN stranded \ assigned[c] ELSE stranded \cup assigned[c]
  /\ UNCHANGED <<subscriptions, assigned, nextClient, started, transport, loggedIn, drops, private,
                 policyVars>>

\* wait_disconnected returns.
NoticeDrop(c) ==
  /\ pc[c] = "wait" /\ transport[c] = "down"
  /\ pc' = [pc EXCEPT ![c] = "backoff"]
  /\ NotifyConnectionChange(c, FALSE)
  /\ UNCHANGED <<clientVars, started, ready, linkVars>>

-----------------------------------------------------------------------------
(* The venue and the network.                                               *)

VenueTakesLogin(c) ==
  /\ private /\ pc[c] = "auth" /\ transport[c] = "up" /\ ~ loggedIn[c]
  /\ loggedIn' = [loggedIn EXCEPT ![c] = TRUE]
  /\ UNCHANGED <<clientVars, loopVars, private, transport, serving, drops, policyVars>>

Drop(c) ==
  /\ transport[c] = "up" /\ drops < MaxDrops
  /\ drops' = drops + 1
  /\ transport' = [transport EXCEPT ![c] = "down"]
  /\ loggedIn' = [loggedIn EXCEPT ![c] = FALSE]
  /\ serving' = [serving EXCEPT ![c] = {}]
  /\ UNCHANGED <<private, clientVars, loopVars, policyVars>>

-----------------------------------------------------------------------------
\* A private stream has all its topics before it connects, and keeps them.
MayRequest == private => ~ started

Request ==
  /\ MayRequest
  /\ \E ts \in Requests : Subscribe(ts) \/ Unsubscribe(ts)

Loop(c) == ConnectOk(c) \/ ConnectFail(c) \/ Retry(c) \/ AuthDone(c) \/ NoticeDrop(c)

Transport == Connect \/ \E c \in ClientIds : Loop(c) \/ VenueTakesLogin(c) \/ Drop(c)

Next == Request \/ Transport

Spec == Init /\ [][Next]_wsVars

\* The loops are tasks of the event loop.  A venue that is tried again and
\* again can be reached in the end, and takes a login.
Fairness ==
  /\ WF_wsVars(Connect)
  /\ \A c \in ClientIds :
       /\ SF_wsVars(ConnectOk(c))
       /\ WF_wsVars(Retry(c) \/ AuthDone(c) \/ NoticeDrop(c))
       /\ WF_wsVars(VenueTakesLogin(c))

FairSpec == Spec /\ Fairness

-----------------------------------------------------------------------------
(* Properties.                                                              *)

\* While its loop waits for the disconnection, an open connection carries
\* exactly the topics it has been given: nothing subscribed or unsubscribed
\* during a drop, a backoff, a connection or a login was missed.  Only a call
\* that raised, or a login not taken in five seconds, strands topics, and the
\* next connection makes up for it.
OpenConnectionServes ==
  \A c \in ClientIds :
    pc[c] = "wait" /\ transport[c] = "up"
    => /\ assigned[c] \ stranded \subseteq serving[c]
       /\ serving[c] \subseteq assigned[c]

\* The strategy may open positions only while every connection made so far is
\* open or its drop is still to be noticed by its loop.
AllowMeansConnected ==
  allow => /\ nextClient > 0
           /\ \A c \in Clients : /\ pc[c] \in {"auth", "wait"}
                                 /\ transport[c] # "none"
=============================================================================
