--------------------------- MODULE OrderLifecycle ---------------------------
(***************************************************************************)
(* The life of an order inside one trading process: the strategy submits,  *)
(* the EMS queue consumer hands the submission to the OMS, the OMS calls   *)
(* the exchange and turns its answers and the user-data stream into status *)
(* updates, and the registry and the cache apply them.                     *)
(*                                                                         *)
(* Everything local runs on one asyncio loop, so an action is the code     *)
(* between two awaits.  Answers to calls may be handled in any order; the  *)
(* stream delivers the reports of one order in order.  The exchange is the *)
(* environment: it may do to a live order whatever a venue may do.         *)
(***************************************************************************)
EXTENDS OrderStatus, Naturals, Sequences, FiniteSets

CONSTANTS
  Oids,            \* client order ids the strategy may use
  Symbols,         \* instruments
  SymbolOf,        \* the instrument of each order
  Malformed,       \* orders whose OMS coroutine raises before it calls the venue
  CreateOps,       \* create submissions the strategy uses
  CancelOps,       \* cancel submissions the strategy uses
  CancelAllKind,   \* how the venue's EMS serves cancel_all_orders
  ModifyReports,   \* the OMS posts a status for the answer to a modify
  MaxRequests,     \* bound: cancels, cancel-alls and modifies of one behaviour
  MaxEvictions,    \* bound: cache evictions and database reloads
  SlowVenue,       \* an order may stay unacknowledged for more than five seconds
  LossyReplies,    \* an answer to a call may be lost
  LossyFeed        \* a report of the user-data stream may be lost

CallOps == {"create", "create_ws", "cancel", "cancel_ws", "modify"}
CancelAllKinds == {"native", "each_open", "each_visible"}

ASSUME LifecycleAssumption ==
  /\ SymbolOf \in [Oids -> Symbols]
  /\ Malformed \subseteq Oids
  /\ CreateOps \subseteq {"create", "create_ws"}
  /\ CancelOps \subseteq {"cancel", "cancel_ws"}
  /\ CancelAllKind \in CancelAllKinds
  /\ ModifyReports \in BOOLEAN
  /\ MaxRequests \in Nat /\ MaxEvictions \in Nat
  /\ SlowVenue \in BOOLEAN /\ LossyReplies \in BOOLEAN /\ LossyFeed \in BOOLEAN

VARIABLES
  \* strategy and EMS
  created,          \* orders the strategy has submitted
  swept,            \* orders submitted before a cancel-all of their symbol
  requests,         \* cancels, cancel-alls and modifies submitted so far
  queue,            \* the account's _order_submit_queue
  \* OrderRegistry
  registered,       \* _oids
  tmpOrders,        \* keys of _tmp_order
  \* AsyncCache
  memOrders,        \* _mem_orders, by status
  openOrders,       \* _mem_open_orders
  symbolOpenOrders, \* _mem_symbol_open_orders
  symbolOrders,     \* _mem_symbol_orders
  cancelIntent,     \* _cancel_intent_oids
  inflight,         \* _inflight_orders
  stored,           \* the order's row in the database
  evictions,        \* evictions and reloads so far
  \* message bus
  notified,         \* last order event the strategy received
  \* network
  calls,            \* calls of the OMS that have not been answered yet
  callCount,        \* calls made so far for each order
  sweeps,           \* native cancel-all requests on their way, by symbol
  feed,             \* the user-data stream, by order
  lost,             \* orders with a report lost from the stream
  \* exchange
  exch,             \* the venue's own state of the order
  exchCanceling     \* orders whose cancellation the venue has accepted

strategyVars == <<created, swept, requests, queue>>
registryVars == <<registered, tmpOrders>>
cacheSets    == <<openOrders, symbolOpenOrders, symbolOrders, cancelIntent, inflight>>
storeVars    == <<stored, evictions>>
netVars      == <<calls, callCount, sweeps, feed, lost>>
exchVars     == <<exch, exchCanceling>>
vars == <<strategyVars, registryVars, memOrders, cacheSets, storeVars, notified,
          netVars, exchVars>>

Submissions == [op : CallOps, oid : Oids] \cup [op : {"cancel_all"}, sym : Symbols]
Calls == [op : CallOps, oid : Oids, n : Nat, st : {"sent", "ok", "fail"}]
ReportStatuses == {"ACCEPTED", "PARTIALLY_FILLED", "FILLED", "CANCELED", "EXPIRED", "FAILED"}
ExchStates == {"none", "new", "partial", "filled", "canceled", "expired", "rejected"}

TypeOK ==
  /\ created \subseteq Oids /\ swept \subseteq Oids /\ requests \in Nat
  /\ queue \in Seq(Submissions)
  /\ registered \subseteq Oids /\ tmpOrders \subseteq Oids
  /\ memOrders \in [Oids -> OrderStatuses \cup {NoStatus}]
  /\ openOrders \subseteq Oids /\ symbolOpenOrders \subseteq Oids
  /\ symbolOrders \subseteq Oids
  /\ cancelIntent \subseteq Oids /\ inflight \subseteq Oids
  /\ stored \in [Oids -> OrderStatuses \cup {NoStatus}] /\ evictions \in Nat
  /\ notified \in [Oids -> OrderStatuses \cup {NoStatus}]
  /\ calls \subseteq Calls /\ callCount \in [Oids -> Nat]
  /\ sweeps \in [Symbols -> Nat]
  /\ feed \in [Oids -> Seq(ReportStatuses)] /\ lost \subseteq Oids
  /\ exch \in [Oids -> ExchStates] /\ exchCanceling \subseteq Oids

Init ==
  /\ created = {} /\ swept = {} /\ requests = 0 /\ queue = <<>>
  /\ registered = {} /\ tmpOrders = {}
  /\ memOrders = [o \in Oids |-> NoStatus]
  /\ openOrders = {} /\ symbolOpenOrders = {} /\ symbolOrders = {}
  /\ cancelIntent = {} /\ inflight = {}
  /\ stored = [o \in Oids |-> NoStatus] /\ evictions = 0
  /\ notified = [o \in Oids |-> NoStatus]
  /\ calls = {} /\ callCount = [o \in Oids |-> 0]
  /\ sweeps = [s \in Symbols |-> 0]
  /\ feed = [o \in Oids |-> <<>>] /\ lost = {}
  /\ exch = [o \in Oids |-> "none"] /\ exchCanceling = {}

OfSymbol(s) == {o \in Oids : SymbolOf[o] = s}
Live(o) == exch[o] \in {"new", "partial"}

-----------------------------------------------------------------------------
(* The strategy's calls.  Each puts one submission on the EMS queue; the    *)
(* cancels mark their intent in the cache first.                            *)

SubmitCreate(o) ==
  /\ o \notin created
  /\ created' = created \cup {o}
  /\ \E op \in CreateOps : queue' = Append(queue, [op |-> op, oid |-> o])
  /\ UNCHANGED <<swept, requests, registryVars, memOrders, cacheSets, storeVars, notified,
                 netVars, exchVars>>

\* cancel_order and cancel_order_ws
SubmitCancel(o) ==
  /\ o \in created /\ requests < MaxRequests
  /\ requests' = requests + 1
  /\ cancelIntent' = cancelIntent \cup {o}
  /\ \E op \in CancelOps : queue' = Append(queue, [op |-> op, oid |-> o])
  /\ UNCHANGED <<created, swept, registryVars, memOrders, openOrders, symbolOpenOrders,
                 symbolOrders, inflight, storeVars, notified, netVars, exchVars>>

SubmitCancelAll(s) ==
  /\ requests < MaxRequests
  /\ requests' = requests + 1
  /\ swept' = swept \cup (created \cap OfSymbol(s))
  /\ cancelIntent' = cancelIntent \cup (symbolOpenOrders \cap OfSymbol(s))
  /\ queue' = Append(queue, [op |-> "cancel_all", sym |-> s])
  /\ UNCHANGED <<created, registryVars, memOrders, openOrders, symbolOpenOrders,
                 symbolOrders, inflight, storeVars, notified, netVars, exchVars>>

SubmitModify(o) ==
  /\ o \in created /\ requests < MaxRequests
  /\ requests' = requests + 1
  /\ queue' = Append(queue, [op |-> "modify", oid |-> o])
  /\ UNCHANGED <<created, swept, registryVars, memOrders, cacheSets, storeVars, notified,
                 netVars, exchVars>>

-----------------------------------------------------------------------------
(* The EMS queue consumer: one submission per step, in queue order.  The    *)
(* OMS coroutine it starts runs up to its network call in the same step.    *)

NewCall(op, o) == [op |-> op, oid |-> o, n |-> callCount[o], st |-> "sent"]

HandleCreate ==
  /\ queue # <<>> /\ Head(queue).op \in {"create", "create_ws"}
  /\ LET sub == Head(queue) IN
       /\ registered' = registered \cup {sub.oid}
       /\ inflight' = inflight \cup {sub.oid}
       /\ tmpOrders' = IF sub.op = "create_ws" THEN tmpOrders \cup {sub.oid} ELSE tmpOrders
       /\ \/ /\ sub.oid \in Malformed
             /\ UNCHANGED <<calls, callCount>>
          \/ /\ sub.oid \notin Malformed
             /\ calls' = calls \cup {NewCall(sub.op, sub.oid)}
             /\ callCount' = [callCount EXCEPT ![sub.oid] = @ + 1]
  /\ queue' = Tail(queue)
  /\ UNCHANGED <<created, swept, requests, memOrders, openOrders, symbolOpenOrders, symbolOrders,
                 cancelIntent, storeVars, notified, sweeps, feed, lost, exchVars>>

\* _cancel_order, _cancel_order_ws and _modify_order
HandleRequest ==
  /\ queue # <<>> /\ Head(queue).op \in {"cancel", "cancel_ws", "modify"}
  /\ LET sub == Head(queue) IN
       /\ calls' = calls \cup {NewCall(sub.op, sub.oid)}
       /\ callCount' = [callCount EXCEPT ![sub.oid] = @ + 1]
  /\ queue' = Tail(queue)
  /\ UNCHANGED <<created, swept, requests, registryVars, memOrders, cacheSets, storeVars, notified,
                 sweeps, feed, lost, exchVars>>

\* The orders the venue's _cancel_all_orders asks to cancel one by one.
CancelAllTargets(s) ==
  CASE CancelAllKind = "native"       -> {}
    [] CancelAllKind = "each_open"    -> symbolOpenOrders \cap OfSymbol(s)
    [] CancelAllKind = "each_visible" -> (symbolOpenOrders \cap OfSymbol(s)) \ cancelIntent

\* Mutant: the cancel-all does not wait for orders in flight.
WaitForNothing(s) == TRUE

\* A venue without a cancel-all call first waits for the orders of the symbol
\* that are not acknowledged yet.  The wait also ends after five seconds: always
\* when nothing can answer for them any more, and at any time on a slow venue.
WaitIsOver(s) ==
  \/ CancelAllKind = "native"
  \/ SlowVenue
  \/ \A o \in inflight \cap OfSymbol(s) :
       /\ ~ \E c \in calls : c.oid = o /\ c.op \in {"create", "create_ws"}
       /\ feed[o] = <<>>

HandleCancelAll ==
  /\ queue # <<>> /\ Head(queue).op = "cancel_all"
  /\ LET s == Head(queue).sym IN
       /\ WaitIsOver(s)
       /\ calls' = calls \cup {NewCall("cancel", o) : o \in CancelAllTargets(s)}
       /\ callCount' = [o \in Oids |-> IF o \in CancelAllTargets(s)
                                       THEN callCount[o] + 1 ELSE callCount[o]]
       /\ sweeps' = IF CancelAllKind = "native" THEN [sweeps EXCEPT ![s] = @ + 1] ELSE sweeps
  /\ queue' = Tail(queue)
  /\ UNCHANGED <<created, swept, requests, registryVars, memOrders, cacheSets, storeVars, notified,
                 feed, lost, exchVars>>

-----------------------------------------------------------------------------
(* AsyncCache._order_status_update and order_status_update of the base OMS. *)

\* _check_status_transition
ValidTransition(o, status) == status \in StatusesAfter(memOrders[o])

\* Mutant: only an accepted order leaves the in-flight set.
InflightUntilAccepted(o, status) ==
  /\ memOrders' = [memOrders EXCEPT ![o] = status]
  /\ inflight' = IF status = "ACCEPTED" THEN inflight \ {o} ELSE inflight
  /\ openOrders' = openOrders \cup {o}
  /\ symbolOrders' = symbolOrders \cup {o}
  /\ symbolOpenOrders' = symbolOpenOrders \cup {o}
  /\ cancelIntent' = IF status = "CANCEL_FAILED" THEN cancelIntent \ {o} ELSE cancelIntent

\* Mutant: a failed cancel leaves its intent behind.
IntentOutlivesFailure(o, status) ==
  /\ memOrders' = [memOrders EXCEPT ![o] = status]
  /\ inflight' = inflight \ {o}
  /\ openOrders' = openOrders \cup {o}
  /\ symbolOrders' = symbolOrders \cup {o}
  /\ symbolOpenOrders' = symbolOpenOrders \cup {o}
  /\ UNCHANGED cancelIntent

\* The cache takes a status that leaves the order open.
CacheOpen(o, status) ==
  /\ memOrders' = [memOrders EXCEPT ![o] = status]
  /\ inflight' = inflight \ {o}
  /\ openOrders' = openOrders \cup {o}
  /\ symbolOrders' = symbolOrders \cup {o}
  /\ symbolOpenOrders' = symbolOpenOrders \cup {o}
  /\ cancelIntent' = IF status = "CANCEL_FAILED" THEN cancelIntent \ {o} ELSE cancelIntent

\* Mutant: the close leaves the symbol's open set as it was.
CloseForExchangeOnly(o, status) ==
  /\ memOrders' = [memOrders EXCEPT ![o] = status]
  /\ inflight' = inflight \ {o}
  /\ openOrders' = openOrders \ {o}
  /\ cancelIntent' = cancelIntent \ {o}
  /\ UNCHANGED <<symbolOrders, symbolOpenOrders>>

\* The cache takes a status that closes the order.
CacheClose(o, status) ==
  /\ memOrders' = [memOrders EXCEPT ![o] = status]
  /\ inflight' = inflight \ {o}
  /\ openOrders' = openOrders \ {o}
  /\ symbolOpenOrders' = symbolOpenOrders \ {o}
  /\ cancelIntent' = cancelIntent \ {o}
  /\ UNCHANGED symbolOrders

\* The strategy has a handler for every status but EXPIRED.
Notify(o, status) ==
  notified' = IF status = "EXPIRED" THEN notified ELSE [notified EXCEPT ![o] = status]

\* Mutant: the registry check is gone.
UpdateUnregistered(o, status) ==
  \/ /\ ~ ValidTransition(o, status)
     /\ Notify(o, status)
     /\ UNCHANGED <<registryVars, memOrders, cacheSets>>
  \/ /\ ValidTransition(o, status)
     /\ status \in LiveStatuses
     /\ CacheOpen(o, status)
     /\ Notify(o, status)
     /\ UNCHANGED registryVars
  \/ /\ ValidTransition(o, status)
     /\ status \in ClosedStatuses
     /\ CacheClose(o, status)
     /\ Notify(o, status)
     /\ registered' = registered \ {o}
     /\ tmpOrders' = tmpOrders \ {o}

\* An unregistered order is ignored.  A status the table does not allow leaves
\* the cache alone, yet the strategy is told of it all the same.
OrderStatusUpdate(o, status) ==
  \/ /\ o \notin registered
     /\ UNCHANGED <<registryVars, memOrders, cacheSets, notified>>
  \/ /\ o \in registered /\ ~ ValidTransition(o, status)
     /\ Notify(o, status)
     /\ UNCHANGED <<registryVars, memOrders, cacheSets>>
  \/ /\ o \in registered /\ ValidTransition(o, status)
     /\ status \in LiveStatuses
     /\ CacheOpen(o, status)
     /\ Notify(o, status)
     /\ UNCHANGED registryVars
  \/ /\ o \in registered /\ ValidTransition(o, status)
     /\ status \in ClosedStatuses
     /\ CacheClose(o, status)
     /\ Notify(o, status)
     /\ registered' = registered \ {o}
     /\ tmpOrders' = tmpOrders \ {o}

IgnoreUpdate == UNCHANGED <<registryVars, memOrders, cacheSets, notified>>

-----------------------------------------------------------------------------
(* Answers to calls, and the user-data stream.                              *)

Take(c) ==
  /\ calls' = calls \ {c}
  /\ UNCHANGED <<strategyVars, storeVars, callCount, sweeps, feed, lost, exchVars>>

\* Mutant: an exception of the request is only logged.
CreateFailureLogged(c) ==
  /\ c.op = "create"
  /\ Take(c)
  /\ \/ c.st = "ok" /\ OrderStatusUpdate(c.oid, "PENDING")
     \/ c.st = "fail" /\ IgnoreUpdate

HandleCreateAnswer(c) ==
  /\ c.op = "create"
  /\ Take(c)
  /\ \/ c.st = "ok" /\ OrderStatusUpdate(c.oid, "PENDING")
     \/ c.st = "fail" /\ OrderStatusUpdate(c.oid, "FAILED")

\* Mutant: an accepted cancel request is taken for the cancellation.
CancelAckIsCanceled(c) ==
  /\ c.op = "cancel"
  /\ Take(c)
  /\ \/ c.st = "ok" /\ OrderStatusUpdate(c.oid, "CANCELED")
     \/ c.st = "fail" /\ OrderStatusUpdate(c.oid, "CANCEL_FAILED")

HandleCancelAnswer(c) ==
  /\ c.op = "cancel"
  /\ Take(c)
  /\ \/ c.st = "ok" /\ OrderStatusUpdate(c.oid, "CANCELING")
     \/ c.st = "fail" /\ OrderStatusUpdate(c.oid, "CANCEL_FAILED")

\* A refused amendment is posted as a failed order.  Venues whose modify_order
\* posts nothing only return the order to a task nobody awaits.
HandleModifyAnswer(c) ==
  /\ c.op = "modify"
  /\ Take(c)
  /\ \/ c.st = "ok" /\ ModifyReports /\ OrderStatusUpdate(c.oid, "PENDING")
     \/ c.st = "fail" /\ ModifyReports /\ OrderStatusUpdate(c.oid, "FAILED")
     \/ c.st \in {"ok", "fail"} /\ ~ ModifyReports /\ IgnoreUpdate

\* An answer over the WebSocket API needs the temporary order of its request.
HandleCreateWsAnswer(c) ==
  /\ c.op = "create_ws"
  /\ Take(c)
  /\ \/ c.st = "ok" /\ c.oid \in tmpOrders /\ OrderStatusUpdate(c.oid, "PENDING")
     \/ c.st = "fail" /\ c.oid \in tmpOrders /\ OrderStatusUpdate(c.oid, "FAILED")
     \/ c.st \in {"ok", "fail"} /\ c.oid \notin tmpOrders /\ IgnoreUpdate

HandleCancelWsAnswer(c) ==
  /\ c.op = "cancel_ws"
  /\ Take(c)
  /\ \/ c.st = "ok" /\ c.oid \in tmpOrders /\ OrderStatusUpdate(c.oid, "CANCELING")
     \/ c.st = "fail" /\ c.oid \in tmpOrders /\ OrderStatusUpdate(c.oid, "CANCEL_FAILED")
     \/ c.st \in {"ok", "fail"} /\ c.oid \notin tmpOrders /\ IgnoreUpdate

HandleAnswer(c) ==
  \/ HandleCreateAnswer(c) \/ HandleCancelAnswer(c) \/ HandleModifyAnswer(c)
  \/ HandleCreateWsAnswer(c) \/ HandleCancelWsAnswer(c)

\* A REST call that times out is an exception in the OMS, like a refusal; an
\* answer over the WebSocket API that never comes is not noticed.
LoseAnswer(c) ==
  /\ LossyReplies /\ c.st \in {"sent", "ok"}
  /\ calls' = IF c.op \in {"create_ws", "cancel_ws"}
              THEN calls \ {c}
              ELSE (calls \ {c}) \cup {[c EXCEPT !.st = "fail"]}
  /\ UNCHANGED <<strategyVars, registryVars, memOrders, cacheSets, storeVars, notified,
                 callCount, sweeps, feed, lost, exchVars>>

DeliverReport(o) ==
  /\ feed[o] # <<>>
  /\ feed' = [feed EXCEPT ![o] = Tail(@)]
  /\ OrderStatusUpdate(o, Head(feed[o]))
  /\ UNCHANGED <<strategyVars, storeVars, calls, callCount, sweeps, lost, exchVars>>

\* The stream reconnects without asking for what it missed.
LoseReport(o) ==
  /\ LossyFeed /\ feed[o] # <<>>
  /\ feed' = [feed EXCEPT ![o] = Tail(@)]
  /\ lost' = lost \cup {o}
  /\ UNCHANGED <<strategyVars, registryVars, memOrders, cacheSets, storeVars, notified,
                 calls, callCount, sweeps, exchVars>>

-----------------------------------------------------------------------------
(* The cache's own steps.                                                   *)

\* One round of _periodic_sync finds the order older than expired_time: its
\* row is written by sync_orders, then _cleanup_expired_data drops it from two
\* of the structures that hold it.  A create still unanswered is not that old.
EvictOrder(o) ==
  /\ evictions < MaxEvictions
  /\ memOrders[o] # NoStatus
  /\ ~ \E c \in calls : c.oid = o /\ c.op \in {"create", "create_ws"}
  /\ stored' = [stored EXCEPT ![o] = memOrders[o]]
  /\ memOrders' = [memOrders EXCEPT ![o] = NoStatus]
  /\ symbolOrders' = symbolOrders \ {o}
  /\ evictions' = evictions + 1
  /\ UNCHANGED <<strategyVars, registryVars, openOrders, symbolOpenOrders, cancelIntent,
                 inflight, notified, netVars, exchVars>>

\* get_order of an order that is not in memory brings its row back.
ReloadOrder(o) ==
  /\ memOrders[o] = NoStatus /\ stored[o] # NoStatus
  /\ memOrders' = [memOrders EXCEPT ![o] = stored[o]]
  /\ UNCHANGED <<strategyVars, registryVars, cacheSets, storeVars, notified, netVars,
                 exchVars>>

-----------------------------------------------------------------------------
(* The exchange.                                                            *)

Answered(c, st) == (calls \ {c}) \cup {[c EXCEPT !.st = st]}
Report(o, status) == [feed EXCEPT ![o] = Append(@, status)]
OrderReport(o) == IF exch[o] = "partial" THEN "PARTIALLY_FILLED" ELSE "ACCEPTED"

ExchangeAcceptsCreate(c) ==
  /\ c.st = "sent" /\ c.op \in {"create", "create_ws"}
  /\ calls' = Answered(c, "ok")
  /\ exch' = [exch EXCEPT ![c.oid] = "new"]
  /\ feed' = Report(c.oid, "ACCEPTED")
  /\ UNCHANGED <<strategyVars, registryVars, memOrders, cacheSets, storeVars, notified,
                 callCount, sweeps, lost, exchCanceling>>

\* The venue takes the request and rejects the order afterwards.
ExchangeRejectsLater(c) ==
  /\ c.st = "sent" /\ c.op \in {"create", "create_ws"}
  /\ calls' = Answered(c, "ok")
  /\ exch' = [exch EXCEPT ![c.oid] = "rejected"]
  /\ feed' = Report(c.oid, "FAILED")
  /\ UNCHANGED <<strategyVars, registryVars, memOrders, cacheSets, storeVars, notified,
                 callCount, sweeps, lost, exchCanceling>>

\* An error answer, rate limits included.
ExchangeRefuses(c) ==
  /\ c.st = "sent"
  /\ calls' = Answered(c, "fail")
  /\ UNCHANGED <<strategyVars, registryVars, memOrders, cacheSets, storeVars, notified,
                 callCount, sweeps, feed, lost, exchVars>>

ExchangeAcceptsCancel(c) ==
  /\ c.st = "sent" /\ c.op \in {"cancel", "cancel_ws"} /\ Live(c.oid)
  /\ calls' = Answered(c, "ok")
  /\ exchCanceling' = exchCanceling \cup {c.oid}
  /\ UNCHANGED <<strategyVars, registryVars, memOrders, cacheSets, storeVars, notified,
                 callCount, sweeps, feed, lost, exch>>

ExchangeAcceptsModify(c) ==
  /\ c.st = "sent" /\ c.op = "modify" /\ Live(c.oid) /\ c.oid \notin exchCanceling
  /\ calls' = Answered(c, "ok")
  /\ feed' = Report(c.oid, OrderReport(c.oid))
  /\ UNCHANGED <<strategyVars, registryVars, memOrders, cacheSets, storeVars, notified,
                 callCount, sweeps, lost, exchVars>>

\* A native cancel-all; the OMS only logs a refusal.
ExchangeSweeps(s) ==
  /\ sweeps[s] > 0
  /\ sweeps' = [sweeps EXCEPT ![s] = @ - 1]
  /\ \/ exchCanceling' = exchCanceling \cup {o \in OfSymbol(s) : Live(o)}
     \/ UNCHANGED exchCanceling
  /\ UNCHANGED <<strategyVars, registryVars, memOrders, cacheSets, storeVars, notified,
                 calls, callCount, feed, lost, exch>>

Becomes(o, state, status) ==
  /\ exch' = [exch EXCEPT ![o] = state]
  /\ feed' = Report(o, status)
  /\ UNCHANGED <<strategyVars, registryVars, memOrders, cacheSets, storeVars, notified,
                 calls, callCount, sweeps, lost, exchCanceling>>

ExchangePartialFill(o) == exch[o] = "new" /\ Becomes(o, "partial", "PARTIALLY_FILLED")
ExchangeFill(o)        == Live(o) /\ Becomes(o, "filled", "FILLED")
ExchangeExpire(o)      == Live(o) /\ Becomes(o, "expired", "EXPIRED")
ExchangeCancel(o)      == Live(o) /\ o \in exchCanceling /\ Becomes(o, "canceled", "CANCELED")

-----------------------------------------------------------------------------
Strategy ==
  \/ \E o \in Oids : SubmitCreate(o) \/ SubmitCancel(o) \/ SubmitModify(o)
  \/ \E s \in Symbols : SubmitCancelAll(s)

Ems == HandleCreate \/ HandleRequest \/ HandleCancelAll

Client ==
  \/ \E c \in calls : HandleAnswer(c)
  \/ \E o \in Oids : DeliverReport(o)

Cache == \E o \in Oids : EvictOrder(o) \/ ReloadOrder(o)

Network ==
  \/ \E c \in calls : LoseAnswer(c)
  \/ \E o \in Oids : LoseReport(o)

Exchange ==
  \/ \E c \in calls :
       \/ ExchangeAcceptsCreate(c) \/ ExchangeRejectsLater(c) \/ ExchangeRefuses(c)
       \/ ExchangeAcceptsCancel(c) \/ ExchangeAcceptsModify(c)
  \/ \E s \in Symbols : ExchangeSweeps(s)
  \/ \E o \in Oids :
       \/ ExchangePartialFill(o) \/ ExchangeFill(o)
       \/ ExchangeExpire(o) \/ ExchangeCancel(o)

Next == Strategy \/ Ems \/ Client \/ Cache \/ Network \/ Exchange

Spec == Init /\ [][Next]_vars

\* The loop runs every ready task and callback, and the venue answers every
\* request; what the strategy, the market and the network do is free.
Fairness ==
  /\ WF_vars(Ems)
  /\ \A o \in Oids :
       /\ WF_vars(\E c \in calls : c.oid = o /\ HandleAnswer(c))
       /\ WF_vars(DeliverReport(o))
       /\ WF_vars(\E c \in calls : c.oid = o /\ ExchangeRefuses(c))

FairSpec == Spec /\ Fairness

-----------------------------------------------------------------------------
(* Properties.                                                              *)

\* The registry follows exactly the orders the cache holds as in flight or as
\* open, so an update of an open order is never dropped and a closed order is
\* never opened again by a late answer, also after its eviction.
RegistryMatchesCache ==
  /\ registered = inflight \cup openOrders
  /\ inflight \cap openOrders = {}
  /\ tmpOrders \subseteq registered

\* The open sets and the order objects tell the same story whenever both know
\* the order, through evictions and reloads from the database.
OpenSetsMatchOrders ==
  /\ openOrders = symbolOpenOrders
  /\ \A o \in Oids :
       /\ memOrders[o] \in LiveStatuses => o \in openOrders
       /\ memOrders[o] \in ClosedStatuses => o \notin openOrders
       /\ o \in symbolOrders /\ o \in registered => memOrders[o] \in LiveStatuses

\* A closing status taken from the venue is the venue's own, whatever answer
\* of a cancel or a modify raced with it.
ClosedIsTrue ==
  \A o \in Oids :
    /\ memOrders[o] = "FILLED" => exch[o] = "filled"
    /\ memOrders[o] = "CANCELED" => exch[o] = "canceled"
    /\ memOrders[o] = "EXPIRED" => exch[o] = "expired"

\* The last thing the strategy hears of a closed order is how it closed: no
\* late PENDING, CANCELING or CANCEL_FAILED follows.  (EXPIRED has no event.)
CloseIsLastEvent ==
  \A o \in Oids :
    memOrders[o] \in ClosedStatuses \ {"EXPIRED"} => notified[o] = memOrders[o]

\* A live order the process has stopped following is one it told the strategy
\* had failed.
OrphanWasAnnounced ==
  \A o \in Oids : Live(o) /\ o \notin registered => notified[o] = "FAILED"

\* Once every report of a filled or cancelled order is delivered the order is
\* closed locally, in whatever order the answers of its calls were handled.
CloseReachesCache ==
  \A o \in Oids :
    /\ exch[o] \in {"filled", "canceled"} /\ feed[o] = <<>> /\ o \notin lost
    => o \notin registered /\ o \notin openOrders

CancelQueued(o) ==
  \E i \in DOMAIN queue :
    \/ queue[i].op \in {"cancel", "cancel_ws"} /\ queue[i].oid = o
    \/ queue[i].op = "cancel_all" /\ queue[i].sym = SymbolOf[o]

CancelUnderway(o) ==
  \/ \E c \in calls : c.oid = o /\ c.op \in {"cancel", "cancel_ws"}
  \/ sweeps[SymbolOf[o]] > 0
  \/ o \in exchCanceling

\* get_open_orders leaves an open order out only while its cancellation is
\* queued, on its way, or accepted by the venue.
HiddenIsBeingCanceled ==
  \A o \in openOrders \cap cancelIntent :
    Live(o) => CancelQueued(o) \/ CancelUnderway(o)

\* A cancel-all reaches every order of the symbol submitted before it, those
\* not acknowledged yet included, or the strategy sees its cancel fail.
CancelAllReaches ==
  \A o \in swept \ lost :
    Live(o) /\ o \in registered
    => CancelQueued(o) \/ CancelUnderway(o) \/ memOrders[o] = "CANCEL_FAILED"

\* The strategy hears of every well-formed order it submits.
EveryOrderIsAnswered ==
  \A o \in Oids \ Malformed : o \in created ~> notified[o] # NoStatus

\* A fill on the venue closes the order locally.
FillIsSeen == \A o \in Oids : exch[o] = "filled" ~> o \notin registered

\* The status the order has had last, kept by its database row once evicted.
LastStatus == [o \in Oids |-> IF memOrders[o] # NoStatus THEN memOrders[o] ELSE stored[o]]

\* What the cache shows of an order is a history of OrderStatusSpec: the table
\* is obeyed and a close is final, whatever races, is evicted or is reloaded.
Promise == INSTANCE OrderStatusSpec WITH shown <- memOrders, last <- LastStatus
StatusPromise == Promise!Spec
=============================================================================
