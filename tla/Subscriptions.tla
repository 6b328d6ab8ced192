---------------------------- MODULE Subscriptions ----------------------------
(***************************************************************************)
(* The subscription management system (base/sms.py) in front of a public   *)
(* connector's WebSocket client: the strategy's subscribe and unsubscribe  *)
(* requests wait in two queues, and each queue has one handler task.       *)
(*                                                                         *)
(* A handler does not yield between two requests while its queue has some, *)
(* and a put wakes the handler of its queue: woken is the order in which   *)
(* the loop runs the handlers.  A handler that raises is gone for good.    *)
(***************************************************************************)
EXTENDS WsClient

CONSTANTS
  Unlisted,   \* topics whose symbol the connector does not find in its market
  MaxAsks     \* bound: requests of the strategy

ASSUME SubscriptionsAssumption == Unlisted \subseteq Topics /\ MaxAsks \in Nat

VARIABLES
  subQueue,    \* _subscribe_queue
  unsubQueue,  \* _unsubscribe_queue
  alive,       \* the handlers that have not raised
  woken,       \* the handlers the loop has to run, in order
  wanted,      \* topics whose last request was a subscribe
  overlapped,  \* topics whose last request found the opposite one still queued
  asks

smsVars == <<subQueue, unsubQueue, alive, woken, wanted, overlapped, asks>>
allVars == <<wsVars, smsVars>>

Handlers == {"subscribe", "unsubscribe"}
TopicsIn(queue) == UNION {ToSet(queue[i]) : i \in DOMAIN queue}

SmsInit ==
  /\ Init
  /\ subQueue = <<>> /\ unsubQueue = <<>>
  /\ alive = Handlers /\ woken = <<>>
  /\ wanted = {} /\ overlapped = {} /\ asks = 0

Wake(h) == woken' = IF h \in alive /\ h \notin ToSet(woken) THEN Append(woken, h) ELSE woken

\* SubscriptionManagementSystem.subscribe
AskSubscribe(ts) ==
  /\ asks < MaxAsks /\ asks' = asks + 1
  /\ subQueue' = Append(subQueue, ts)
  /\ Wake("subscribe")
  /\ wanted' = wanted \cup ToSet(ts)
  /\ overlapped' = (overlapped \ ToSet(ts)) \cup (ToSet(ts) \cap TopicsIn(unsubQueue))
  /\ UNCHANGED <<wsVars, unsubQueue, alive>>

\* SubscriptionManagementSystem.unsubscribe
AskUnsubscribe(ts) ==
  /\ asks < MaxAsks /\ asks' = asks + 1
  /\ unsubQueue' = Append(unsubQueue, ts)
  /\ Wake("unsubscribe")
  /\ wanted' = wanted \ ToSet(ts)
  /\ overlapped' = (overlapped \ ToSet(ts)) \cup (ToSet(ts) \cap TopicsIn(subQueue))
  /\ UNCHANGED <<wsVars, subQueue, alive>>

Runs(h, queue) == woken # <<>> /\ Head(woken) = h /\ queue # <<>>
Raises(ts) == ToSet(ts) \cap Unlisted # {}

\* The handler goes on until its queue is empty, unless the request raised.
HandlerEnds(h, queue, raised) ==
  /\ alive' = IF raised THEN alive \ {h} ELSE alive
  /\ woken' = IF raised \/ Len(queue) = 1 THEN Tail(woken) ELSE woken

\* Mutant: a request that raises is only logged, and skipped.
HandleSubscribeSkips ==
  /\ Runs("subscribe", subQueue)
  /\ subQueue' = Tail(subQueue)
  /\ LET ts == Head(subQueue)
     IN  /\ HandlerEnds("subscribe", subQueue, FALSE)
         /\ IF Raises(ts) THEN UNCHANGED wsVars ELSE Subscribe(ts)
  /\ UNCHANGED <<unsubQueue, wanted, overlapped, asks>>

\* One request of _handle_subscribe: an unknown symbol raises before anything
\* is registered, a full client after a part of it is.
HandleSubscribe ==
  /\ Runs("subscribe", subQueue)
  /\ subQueue' = Tail(subQueue)
  /\ LET ts == Head(subQueue)
     IN  \/ /\ Raises(ts)
            /\ HandlerEnds("subscribe", subQueue, TRUE)
            /\ UNCHANGED wsVars
         \/ /\ ~ Raises(ts)
            /\ HandlerEnds("subscribe", subQueue, RegisterSubscriptions(ts).full)
            /\ Subscribe(ts)
  /\ UNCHANGED <<unsubQueue, wanted, overlapped, asks>>

HandleUnsubscribe ==
  /\ Runs("unsubscribe", unsubQueue)
  /\ unsubQueue' = Tail(unsubQueue)
  /\ LET ts == Head(unsubQueue)
     IN  \/ /\ Raises(ts)
            /\ HandlerEnds("unsubscribe", unsubQueue, TRUE)
            /\ UNCHANGED wsVars
         \/ /\ ~ Raises(ts)
            /\ HandlerEnds("unsubscribe", unsubQueue, FALSE)
            /\ Unsubscribe(ts)
  /\ UNCHANGED <<subQueue, wanted, overlapped, asks>>

\* Only a public stream is behind the SMS: the topics of a private one are
\* asked for by its connector.
Ask == ~ private /\ \E ts \in Requests : AskSubscribe(ts) \/ AskUnsubscribe(ts)
AskPrivate == private /\ Request /\ UNCHANGED smsVars

SmsNext ==
  \/ Ask \/ AskPrivate \/ HandleSubscribe \/ HandleUnsubscribe
  \/ Transport /\ UNCHANGED smsVars

SmsSpec == SmsInit /\ [][SmsNext]_allVars

SmsFairSpec ==
  /\ SmsSpec /\ Fairness
  /\ WF_allVars(HandleSubscribe) /\ WF_allVars(HandleUnsubscribe)

-----------------------------------------------------------------------------
(* Properties.                                                              *)

\* With both queues empty the client is registered for exactly what the
\* strategy asked for last, as long as no handler has raised and the strategy
\* did not turn a request around while it was still queued.
RegisteredAsAsked ==
  ~ private /\ subQueue = <<>> /\ unsubQueue = <<>> /\ alive = Handlers
  => wanted \ overlapped = subscriptions \ overlapped

\* What the strategy goes on wanting is delivered by some connection in the
\* end, through drops and reconnections.
WantedIsServed ==
  \A t \in Topics :
    t \in wanted
    ~> \/ t \notin wanted \/ t \in overlapped \/ alive # Handlers
       \/ \E c \in ClientIds : t \in serving[c]
=============================================================================
