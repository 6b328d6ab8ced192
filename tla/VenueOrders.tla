---------------------------- MODULE VenueOrders ----------------------------
(***************************************************************************)
(* The same submissions on each venue: the bounded queue of one account,   *)
(* its consumer, and what the venue's OMS sends, answers and reads.  The   *)
(* account and the orders' tickets are chosen in the initial state.        *)
(*                                                                         *)
(* OrderLifecycle has the races of one order in full; here every order     *)
(* takes its course once, and the question is what the five translations   *)
(* make of it.  Batches and tp/sl orders are awaited inside the consumer,  *)
(* which an exception ends.                                                *)
(***************************************************************************)
EXTENDS OrderTickets, FiniteSets, SequencesExt

CONSTANTS
  Oids,           \* client order ids
  Singles,        \* the orders that may be submitted one by one
  BatchOf,        \* the orders of a batch, in their order
  TicketsOf,      \* the tickets each order may have on each account
  UsedAccounts,   \* the accounts looked at
  CreateOps,      \* create submissions used
  RequestOps,     \* cancels, modifies and cancel-alls used
  QueueMax,       \* bound of the submit queue (100000 in the code)
  MaxRequests,    \* bound: requests of one behaviour
  Worked,         \* bound: the orders the venue does more with than take or refuse them
  Lossy,          \* calls may time out and answers be lost
  ContractSize    \* units in a contract of OKX's derivatives

Binance     == INSTANCE BinanceOrders
Okx         == INSTANCE OkxOrders
Bybit       == INSTANCE BybitOrders
Bitget      == INSTANCE BitgetOrders
Hyperliquid == INSTANCE HyperliquidOrders

AllAccounts == Binance!Accounts \cup Okx!Accounts \cup Bybit!Accounts
               \cup Bitget!Accounts \cup Hyperliquid!Accounts

Creates == {"create", "create_ws", "tp_sl", "batch"}
Stopping == {"stop_loss", "take_profit"}
Requests == {"cancel", "cancel_ws", "modify", "cancel_all"}

\* The products an account can trade, of the ones a strategy would send to it.
Sells(a) ==
  CASE a \in {"binance_spot", "binance_margin", "bitget_spot"} -> {"spot"}
    [] a = "binance_linear"  -> {"linear"}
    [] a = "binance_inverse" -> {"inverse"}
    [] a = "bitget_futures"  -> {"linear", "inverse"}
    [] a = "hyperliquid"     -> {"spot", "linear"}
    [] OTHER -> Products

ASSUME VenueOrdersAssumption ==
  /\ Singles \subseteq Oids /\ Worked \subseteq Oids
  /\ BatchOf \in Seq(Oids) /\ IsInjective(BatchOf)
  /\ UsedAccounts \subseteq AllAccounts
  /\ CreateOps \subseteq Creates /\ RequestOps \subseteq Requests
  /\ QueueMax \in Nat \ {0} /\ MaxRequests \in Nat /\ Lossy \in BOOLEAN
  /\ ContractSize \in Nat \ {0}
  /\ \A a \in UsedAccounts, o \in Oids :
       \A t \in TicketsOf[a][o] :
         t \in Tickets(Nat) /\ t.amount % ContractSize = 0 /\ t.product \in Sells(a)

VARIABLES
  account,     \* the account of this process
  ticket,      \* what the strategy asks for under each id
  as,          \* the kind of submission each order was created by
  requests,    \* requests made so far
  queue,       \* _order_submit_queues[account]
  late,        \* puts waiting in tasks for room in the queue
  dead,        \* the consumer's task has ended with an exception
  calls,       \* coroutines of the OMS waiting for the venue
  registered,  \* OrderRegistry._oids
  tmpOrders,   \* keys of OrderRegistry._tmp_order
  shown,       \* the cache's order objects
  told,        \* the last event the strategy got of each order
  exch,        \* the venue's orders
  canceling,   \* cancellations the venue has accepted
  feed,        \* order reports on their way
  unclear,     \* orders of which a call ended without the venue's verdict
  strayed      \* requests that missed a live order they named

clientVars == <<as, requests, queue, late, dead>>
localVars  == <<registered, tmpOrders, shown, told>>
venueVars  == <<exch, canceling, feed>>
vars == <<account, ticket, clientVars, calls, localVars, venueVars, unclear, strayed>>

NoOrder == [status |-> NoStatus, type |-> "none", tif |-> "none", amount |-> 0,
            product |-> "none"]
NotThere == [state |-> "none", wire |-> [route |-> NoRoute]]

-----------------------------------------------------------------------------
(* What differs between the venues.                                         *)

OnBinance     == account \in Binance!Accounts
OnBitget      == account \in Bitget!Accounts
OnHyperliquid == account \in Hyperliquid!Accounts

\* create_order of the account's OMS up to its first await
CreateOrder(t) ==
  CASE OnBinance         -> Binance!CreateOrder(account, t)
    [] account = "okx"   -> Okx!CreateOrder(account, t)
    [] account = "bybit" -> Bybit!CreateOrder(account, t)
    [] OnBitget          -> Bitget!CreateOrder(account, t)
    [] OnHyperliquid     -> Hyperliquid!CreateOrder(account, t)

CreateOrderWs(t) ==
  CASE OnBinance         -> Binance!CreateOrderWs(account, t)
    [] account = "okx"   -> Okx!CreateOrderWs(account, t)
    [] account = "bybit" -> Bybit!CreateOrderWs(account, t)
    [] OnBitget          -> Bitget!CreateOrderWs(account, t)
    [] OnHyperliquid     -> Hyperliquid!CreateOrderWs(account, t)

CreateTpSlOrder(t) ==
  CASE account = "okx"   -> Okx!CreateTpSlOrder(account, t)
    [] account = "bybit" -> Bybit!CreateTpSlOrder(account, t)
    [] OnBitget          -> Bitget!CreateTpSlOrder(account, t)
    [] OnHyperliquid     -> Hyperliquid!CreateTpSlOrder(account, t)

\* One leg of create_batch_orders; first is the ticket of the batch's first.
BatchLeg(first, t) ==
  CASE account = "binance_pm" -> Binance!CreateOrder(account, t)
    [] OnBinance /\ account # "binance_pm" -> Binance!BatchLeg(account, t)
    [] account = "okx"   -> Okx!BatchLeg(account, t)
    [] account = "bybit" -> Bybit!BatchLeg(first, t)
    [] OnBitget          -> Bitget!BatchLeg(account, t)
    [] OnHyperliquid     -> Hyperliquid!BatchLeg(account, t)

CancelOrder(t) ==
  CASE OnBinance         -> Binance!CancelOrder(account, t)
    [] account = "okx"   -> Okx!CancelOrder(account, t)
    [] account = "bybit" -> Bybit!CancelOrder(account, t)
    [] OnBitget          -> Bitget!CancelOrder(account, t)
    [] OnHyperliquid     -> Hyperliquid!CancelOrder(account, t)

CancelOrderWs(t) ==
  CASE OnBinance         -> Binance!CancelOrderWs(account, t)
    [] account = "okx"   -> Okx!CancelOrderWs(account, t)
    [] account = "bybit" -> Bybit!CancelOrderWs(account, t)
    [] OnBitget          -> Bitget!CancelOrderWs(account, t)
    [] OnHyperliquid     -> Hyperliquid!CancelOrderWs(account, t)

ModifyOrder(t) ==
  CASE OnBinance         -> Binance!ModifyOrder(account, t)
    [] account = "okx"   -> Okx!ModifyOrder(account, t)
    [] account = "bybit" -> Bybit!ModifyOrder(account, t)
    [] OnBitget          -> Bitget!ModifyOrder(account, t)
    [] OnHyperliquid     -> Hyperliquid!ModifyOrder(account, t)

\* The venues with a request that cancels all orders of a symbol.  The others
\* cancel the open orders one by one, which OrderLifecycle has.
SweepsNatively == OnBinance \/ account \in {"bybit", "bitget_uta"}
CancelAllOrders(t) ==
  CASE OnBinance         -> Binance!CancelAllOrders(account, t)
    [] account = "bybit" -> Bybit!CancelAllOrders(account, t)
    [] OnBitget          -> Bitget!CancelAllOrders(account, t)

BatchVerdicts(legs, taken) ==
  CASE OnBinance         -> Binance!BatchVerdicts(taken)
    [] account = "okx"   -> Okx!BatchVerdicts(taken)
    [] account = "bybit" -> Bybit!BatchVerdicts(taken)
    [] OnHyperliquid     -> Hyperliquid!BatchVerdicts([i \in DOMAIN legs |-> ticket[legs[i]]], taken)

WsApiVerdict(kind, ok) ==
  CASE OnBinance         -> Binance!WsApiVerdict(kind, ok)
    [] account = "okx"   -> Okx!WsApiVerdict(kind, ok)
    [] account = "bybit" -> Bybit!WsApiVerdict(kind, ok)
    [] OnBitget          -> Bitget!WsApiVerdict(account, kind, ok)
    [] OnHyperliquid     -> Hyperliquid!WsApiVerdict(kind, ok)

\* Bitget and Hyperliquid read a report against the temporary order.
NeedsTmp == OnBitget \/ OnHyperliquid
ReadReport(o, state) ==
  LET w == exch[o].wire IN
  CASE OnBinance         -> Binance!ReadReport(account, w, state)
    [] account = "okx"   -> Okx!ReadReport(account, w, state)
    [] account = "bybit" -> Bybit!ReadReport(account, w, state)
    [] NeedsTmp /\ o \notin tmpOrders -> Dropped
    [] OnBitget /\ o \in tmpOrders -> Bitget!ReadReport(account, ticket[o], w, state)
    [] OnHyperliquid /\ o \in tmpOrders -> Hyperliquid!ReadReport(account, ticket[o], w, state)

NativeStates ==
  CASE OnBinance         -> Binance!NativeStates
    [] account = "okx"   -> Okx!NativeStates
    [] account = "bybit" -> Bybit!NativeStates
    [] OnBitget          -> Bitget!NativeStates(account)
    [] OnHyperliquid     -> Hyperliquid!NativeStates

\* Who registers a temporary order, and when.
RegistersTmp(op) ==
  \/ op = "create_ws"
  \/ op = "create" /\ NeedsTmp
  \/ op = "batch" /\ OnHyperliquid

\* Hyperliquid's EMS awaits every create, all of them await batches and tp/sl.
\* Over the WebSocket API only the sending is awaited.
Awaited(op)   == op \in {"batch", "tp_sl"} \/ (OnHyperliquid /\ op \in {"create", "create_ws"})
HoldsQueue(op) == Awaited(op) /\ op # "create_ws"

\* Binance's portfolio margin account gathers the creates of a batch.
Gathers(op) == op = "batch" /\ account = "binance_pm"

\* The id a request names: the one the create call returned, or the one the
\* events carry, which on Hyperliquid is another.
KnowsId(by) == ~ OnHyperliquid \/ by = "heard"

Creating == {"create", "create_ws", "tp_sl", "batch"} \cup Stopping
IsLive(o) == exch[o].state \in {"taken", "new", "partial"}

Init ==
  /\ account \in UsedAccounts
  /\ ticket \in {f \in [Oids -> UNION Range(TicketsOf[account])] :
                   \A o \in Oids : f[o] \in TicketsOf[account][o]}
  /\ as = [o \in Oids |-> "none"] /\ requests = 0
  /\ queue = <<>> /\ late = <<>> /\ dead = FALSE /\ calls = {}
  /\ registered = {} /\ tmpOrders = {}
  /\ shown = [o \in Oids |-> NoOrder] /\ told = [o \in Oids |-> NoStatus]
  /\ exch = [o \in Oids |-> NotThere]
  /\ canceling = {} /\ feed = <<>> /\ unclear = {} /\ strayed = {}

-----------------------------------------------------------------------------
(* The strategy's calls.                                                    *)

\* _safe_put: without room the put becomes a task, and what is put while the
\* task waits may overtake it.
SafePut(s) ==
  IF Len(queue) < QueueMax
  THEN queue' = Append(queue, s) /\ UNCHANGED late
  ELSE late' = Append(late, s) /\ UNCHANGED queue

FlushLate ==
  /\ late # <<>> /\ Len(queue) < QueueMax
  /\ queue' = Append(queue, Head(late)) /\ late' = Tail(late)
  /\ UNCHANGED <<account, ticket, as, requests, dead, calls, localVars, venueVars, unclear,
                 strayed>>

SubmitCreate(o) ==
  /\ as[o] = "none"
  /\ \E op \in CreateOps \ {"batch"} :
       /\ as' = [as EXCEPT ![o] = op]
       /\ SafePut([op |-> op, legs |-> <<o>>, by |-> "given"])
  /\ UNCHANGED <<account, ticket, requests, dead, calls, localVars, venueVars, unclear, strayed>>

SubmitBatch ==
  /\ "batch" \in CreateOps /\ \A o \in Range(BatchOf) : as[o] = "none"
  /\ as' = [o \in Oids |-> IF o \in Range(BatchOf) THEN "batch" ELSE as[o]]
  /\ SafePut([op |-> "batch", legs |-> BatchOf, by |-> "given"])
  /\ UNCHANGED <<account, ticket, requests, dead, calls, localVars, venueVars, unclear, strayed>>

\* A cancel-all names the symbol of the order.
SubmitRequest(o) ==
  /\ as[o] # "none" /\ requests < MaxRequests
  /\ requests' = requests + 1
  /\ \E op \in RequestOps, by \in {"given", "heard"} :
       /\ op = "cancel_all" => SweepsNatively
       /\ by = "heard" => OnHyperliquid
       /\ SafePut([op |-> op, legs |-> <<o>>, by |-> by])
  /\ UNCHANGED <<account, ticket, as, dead, calls, localVars, venueVars, unclear, strayed>>

-----------------------------------------------------------------------------
(* Status updates: _order_status_update of the cache and of the base OMS.   *)

AsTicket(o) == [type |-> ticket[o].type, tif |-> ticket[o].tif, amount |-> ticket[o].amount,
                product |-> ticket[o].product]
Blank(o)    == [type |-> "none", tif |-> "none", amount |-> 0, product |-> ticket[o].product]

\* An order object of the cache with the fields c.
InStatus(status, c) ==
  [status |-> status, type |-> c.type, tif |-> c.tif, amount |-> c.amount, product |-> c.product]

\* Updates of the orders os, status[o] with the fields content[o], when known
\* and tmp are registered: an unknown order's is ignored, the strategy hears of
\* every other, and the cache takes what the table allows.
Update(known, tmp, os, status, content) ==
  LET heard  == os \cap known
      taken  == {o \in heard : status[o] \in StatusesAfter(shown[o].status)}
      closed == {o \in taken : status[o] \in ClosedStatuses}
  IN /\ shown' = [o \in Oids |-> IF o \in taken
                                 THEN InStatus(status[o], content[o]) ELSE shown[o]]
     /\ told' = [o \in Oids |-> IF o \in heard /\ status[o] # "EXPIRED"
                                THEN status[o] ELSE told[o]]
     /\ registered' = known \ closed
     /\ tmpOrders' = tmp \ closed

Post(os, status, content) == Update(registered, tmpOrders, os, status, content)
PostTickets(os, status)   == Post(os, status, [o \in Oids |-> AsTicket(o)])
PostBlanks(os, status)    == Post(os, status, [o \in Oids |-> Blank(o)])
Silence == UNCHANGED localVars

-----------------------------------------------------------------------------
(* The consumer: one submission, and the coroutines that start with it.     *)

Legs(c) == Range(c.legs)
LegOf(c, o) == CHOOSE i \in DOMAIN c.legs : c.legs[i] = o
One(o)  == <<o>>

\* What a submission starts: the kind, the orders and what becomes of each.
Coroutines(s) ==
  LET o == Head(s.legs)
      t == ticket[o]
  IN CASE s.op = "create"    -> {[op |-> "create", legs |-> s.legs, outs |-> <<CreateOrder(t)>>]}
       [] s.op = "create_ws" -> {[op |-> "create_ws", legs |-> s.legs, outs |-> <<CreateOrderWs(t)>>]}
       [] s.op = "tp_sl" /\ OnBinance ->
            {[op |-> p.op, legs |-> s.legs, outs |-> <<p.out>>] : p \in Binance!TpSlParts(account, t)}
       [] s.op = "tp_sl" /\ ~ OnBinance ->
            {[op |-> "tp_sl", legs |-> s.legs, outs |-> <<CreateTpSlOrder(t)>>]}
       [] s.op = "batch" /\ Gathers("batch") ->
            {[op |-> "create", legs |-> One(p), outs |-> <<CreateOrder(ticket[p])>>] :
               p \in Range(s.legs)}
       [] s.op = "batch" /\ ~ Gathers("batch") ->
            {[op |-> "batch", legs |-> s.legs,
              outs |-> [i \in DOMAIN s.legs |-> BatchLeg(t, ticket[s.legs[i]])]]}
       [] s.op = "cancel"    -> {[op |-> "cancel", legs |-> s.legs, outs |-> <<CancelOrder(t)>>]}
       [] s.op = "cancel_ws" -> {[op |-> "cancel_ws", legs |-> s.legs, outs |-> <<CancelOrderWs(t)>>]}
       [] s.op = "modify"    -> {[op |-> "modify", legs |-> s.legs, outs |-> <<ModifyOrder(t)>>]}
       [] s.op = "cancel_all" ->
            {[op |-> "cancel_all", legs |-> s.legs, outs |-> <<CancelAllOrders(t)>>]}

Raising(k) == \E i \in DOMAIN k.outs : k.outs[i] = Raises
Failing(k) == ~ Raising(k) /\ \E i \in DOMAIN k.outs : k.outs[i] = Fails
Sending(k) == ~ Raising(k) /\ ~ Failing(k)

Call(s, k) ==
  [op |-> k.op, legs |-> k.legs, wires |-> [i \in DOMAIN k.outs |-> k.outs[i].wire],
   by |-> s.by, n |-> requests, inline |-> HoldsQueue(s.op), st |-> "sent",
   taken |-> [i \in DOMAIN k.legs |-> FALSE]]

\* A coroutine that fails before it sends posts that at once; the stops do not.
FailedAtOnce(ks) ==
  UNION {Legs(k) : k \in {j \in ks : Failing(j) /\ j.op \notin Stopping \cup {"cancel_all"}}}

\* An exception of an awaited coroutine ends the consumer, one of a task does not.
Consume ==
  /\ queue # <<>> /\ ~ dead /\ \A c \in calls : ~ c.inline
  /\ LET s  == Head(queue)
         ks == Coroutines(s)
         failure == IF s.op \in {"cancel", "cancel_ws"} THEN "CANCEL_FAILED" ELSE "FAILED"
         known == IF s.op \in Creates THEN registered \cup Range(s.legs) ELSE registered
         tmp   == IF RegistersTmp(s.op) THEN tmpOrders \cup Range(s.legs) ELSE tmpOrders
     IN /\ calls' = calls \cup {Call(s, k) : k \in {j \in ks : Sending(j)}}
        /\ dead' = (Awaited(s.op) /\ \E k \in ks : Raising(k))
        /\ Update(known, tmp, FailedAtOnce(ks), [o \in Oids |-> failure],
                  [o \in Oids |-> Blank(o)])
  /\ queue' = Tail(queue)
  /\ UNCHANGED <<account, ticket, as, requests, late, venueVars, unclear, strayed>>

-----------------------------------------------------------------------------
(* Answers.                                                                 *)

\* broken: the request ended with an exception, with no answer of the venue.
Broken(c) == c.st = "broken"
Ok(c)     == ~ Broken(c) /\ \A i \in DOMAIN c.taken : c.taken[i]

\* The update made of the answer raises, whatever the answer was.
UpdateRaises(c) ==
  /\ c.op = "create"
  /\ \E o \in Legs(c) : \/ OnBitget /\ Bitget!UpdateRaises(ticket[o])
                        \/ OnHyperliquid /\ Hyperliquid!UpdateRaises(ticket[o])

\* The coroutine goes on; if it raises and the consumer awaits it, that ends too.
Take(c) ==
  /\ calls' = calls \ {c}
  /\ dead' = (dead \/ (c.inline /\ UpdateRaises(c)))
  /\ UNCHANGED <<account, ticket, as, requests, queue, late, venueVars, unclear, strayed>>

\* Mutant: an exception of the request is only logged.
ExceptionLogged(c) ==
  /\ c.op = "create"
  /\ Take(c)
  /\ IF Broken(c) \/ ~ Ok(c) THEN Silence ELSE PostTickets(Legs(c), [o \in Oids |-> "PENDING"])

\* create_order after its await
HandleCreateAnswer(c) ==
  /\ c.op = "create"
  /\ Take(c)
  /\ IF UpdateRaises(c) THEN Silence
     ELSE PostTickets(Legs(c), [o \in Oids |-> IF Ok(c) THEN "PENDING" ELSE "FAILED"])

\* Mutant: a leg is given the verdict of the leg before it.
VerdictsMisaligned(c) ==
  /\ c.op = "batch"
  /\ Take(c)
  /\ LET v == IF Broken(c) THEN AllFailed(c.taken) ELSE BatchVerdicts(c.legs, c.taken)
     IN PostTickets(Legs(c), [o \in Oids |-> v[1]])

\* create_batch_orders after its await
HandleBatchAnswer(c) ==
  /\ c.op = "batch"
  /\ Take(c)
  /\ LET v == IF Broken(c) THEN AllFailed(c.taken) ELSE BatchVerdicts(c.legs, c.taken)
     IN PostTickets(Legs(c), [o \in Oids |-> IF o \in Legs(c) THEN v[LegOf(c, o)] ELSE "FAILED"])

\* An answer of the WebSocket API is read against the temporary order.  A
\* payload Hyperliquid refuses as a whole is only logged.
HandleWsAnswer(c) ==
  /\ c.op \in {"create_ws", "cancel_ws"}
  /\ Take(c)
  /\ LET kind == IF c.op = "create_ws" THEN "create" ELSE "cancel" IN
       \/ /\ Legs(c) \subseteq tmpOrders /\ (c.op = "cancel_ws" => KnowsId(c.by))
          /\ PostTickets(Legs(c), [o \in Oids |-> WsApiVerdict(kind, Ok(c))])
       \/ /\ ~ (Legs(c) \subseteq tmpOrders /\ (c.op = "cancel_ws" => KnowsId(c.by)))
          /\ Silence
       \/ OnHyperliquid /\ ~ Ok(c) /\ Silence

\* The answer to a tp/sl order is returned to a caller that drops it; the stop
\* orders and the cancel-alls have none to give.
HandleSilentAnswer(c) ==
  /\ c.op \in {"tp_sl", "cancel_all"} \cup Stopping
  /\ Take(c)
  /\ Silence

\* cancel_order after its await.  Only Binance's answer repeats the order.
HandleCancelAnswer(c) ==
  /\ c.op = "cancel"
  /\ Take(c)
  /\ LET os     == IF KnowsId(c.by) THEN Legs(c) ELSE {}
         status == [o \in Oids |-> IF Ok(c) THEN "CANCELING" ELSE "CANCEL_FAILED"]
     IN IF OnBinance /\ Ok(c) THEN PostTickets(os, status) ELSE PostBlanks(os, status)

\* modify_order after its await; Bybit's answer is dropped like a tp/sl order's.
ModifyPosts == OnBinance \/ account = "okx"
HandleModifyAnswer(c) ==
  /\ c.op = "modify"
  /\ Take(c)
  /\ LET status == [o \in Oids |-> IF Ok(c) THEN "PENDING" ELSE "FAILED"] IN
       \/ ModifyPosts /\ OnBinance /\ Ok(c) /\ PostTickets(Legs(c), status)
       \/ ModifyPosts /\ ~ (OnBinance /\ Ok(c)) /\ PostBlanks(Legs(c), status)
       \/ ~ ModifyPosts /\ Silence

HandleAnswer(c) ==
  /\ c.st # "sent"
  /\ \/ HandleCreateAnswer(c) \/ HandleBatchAnswer(c) \/ HandleWsAnswer(c)
     \/ HandleSilentAnswer(c) \/ HandleCancelAnswer(c) \/ HandleModifyAnswer(c)

\* The connection was renewed before the answer came.
LoseAnswer(c) ==
  /\ Lossy /\ c.op \in {"create_ws", "cancel_ws"} /\ c.st = "answered"
  /\ calls' = calls \ {c}
  /\ unclear' = unclear \cup Legs(c)
  /\ UNCHANGED <<account, ticket, clientVars, localVars, venueVars, strayed>>

\* A report of the user-data stream is read by the account's handler.
DeliverReport ==
  /\ feed # <<>>
  /\ feed' = Tail(feed)
  /\ LET o == Head(feed).oid
         r == ReadReport(o, Head(feed).state)
     IN \/ r = Dropped /\ Silence
        \/ /\ r # Dropped
           /\ Post({o}, [p \in Oids |-> r.status],
                   [p \in Oids |-> [type |-> r.type, tif |-> r.tif, amount |-> r.amount,
                                    product |-> r.product]])
  /\ UNCHANGED <<account, ticket, clientVars, calls, exch, canceling, unclear, strayed>>

-----------------------------------------------------------------------------
(* The venue.                                                               *)

\* Over REST the answer may not come: the request ends with an exception.
MayBreak(c) == Lossy /\ c.op \notin {"create_ws", "cancel_ws"}

Answered(c, taken, st) ==
  calls' = (calls \ {c}) \cup {[c EXCEPT !.taken = taken, !.st = st]}

\* An order without the price it needs is refused.
Takeable(o) == ~ Unpriced(ticket[o])

VenueCreates(c) ==
  /\ c.st = "sent" /\ c.op \in Creating
  /\ \E taken \in [DOMAIN c.legs -> BOOLEAN], st \in {"answered", "broken"} :
       /\ \A i \in DOMAIN c.legs : taken[i] => Takeable(c.legs[i])
       /\ st = "broken" => MayBreak(c)
       /\ Answered(c, taken, st)
       /\ exch' = IF c.op \in Stopping THEN exch
                  ELSE [o \in Oids |->
                    IF o \in Legs(c)
                    THEN [state |-> IF taken[LegOf(c, o)] THEN "taken" ELSE "refused",
                          wire |-> c.wires[LegOf(c, o)]]
                    ELSE exch[o]]
       /\ unclear' = IF st = "broken" /\ c.op \notin Stopping
                     THEN unclear \cup Legs(c) ELSE unclear
  /\ UNCHANGED <<account, ticket, clientVars, localVars, canceling, feed, strayed>>

\* The venue looks for the order in the book the request names, by the id it names.
Finds(c, o) == IsLive(o) /\ exch[o].wire.route = c.wires[1].route /\ KnowsId(c.by)

VenueRequests(c) ==
  /\ c.st = "sent" /\ c.op \in Requests
  /\ \E done \in BOOLEAN, st \in {"answered", "broken"} :
       LET o == Head(c.legs) IN
       /\ c.op # "cancel_all" /\ done => Finds(c, o)
       /\ st = "broken" => MayBreak(c)
       /\ Answered(c, <<done>>, st)
       /\ canceling' =
            CASE done /\ c.op \in {"cancel", "cancel_ws"} -> canceling \cup {o}
              [] done /\ c.op = "cancel_all" -> canceling \cup {p \in Oids : Finds(c, p)}
              [] OTHER -> canceling
       /\ unclear' = IF c.op = "modify" /\ (st = "broken" \/ ~ done)
                     THEN unclear \cup {o} ELSE unclear
       /\ strayed' = IF IsLive(o) /\ ~ Finds(c, o) THEN strayed \cup {<<o, c.by>>} ELSE strayed
  /\ UNCHANGED <<account, ticket, clientVars, localVars, exch, feed>>

\* What happens to an order, in the venue's own words.
Becomes(o, state, event) ==
  /\ exch' = [exch EXCEPT ![o].state = state]
  /\ \E name \in NativeStates[event] : feed' = Append(feed, [oid |-> o, state |-> name])
  /\ UNCHANGED <<account, ticket, clientVars, calls, localVars, canceling, unclear, strayed>>

VenueMoves(o) ==
  \/ exch[o].state = "taken" /\ (Becomes(o, "new", "new") \/ Becomes(o, "rejected", "rejected"))
  \/ exch[o].state = "new" /\ Becomes(o, "partial", "partial")
  \/ exch[o].state \in {"new", "partial"}
     /\ (Becomes(o, "filled", "filled") \/ Becomes(o, "expired", "expired"))
  \/ exch[o].state \in {"new", "partial"} /\ o \in canceling /\ Becomes(o, "canceled", "canceled")

Strategy == SubmitBatch \/ (\E o \in Singles : SubmitCreate(o)) \/ (\E o \in Oids : SubmitRequest(o))
Client   == FlushLate \/ Consume \/ DeliverReport
            \/ (\E c \in calls : HandleAnswer(c) \/ LoseAnswer(c))
Venue    == (\E c \in calls : VenueCreates(c) \/ VenueRequests(c)) \/ (\E o \in Worked : VenueMoves(o))

Next == Strategy \/ Client \/ Venue
Spec == Init /\ [][Next]_vars

-----------------------------------------------------------------------------
(* Correctness.                                                             *)

CreateUnderway(o) == \E c \in calls : o \in Legs(c) /\ c.op \in Creating \ Stopping
BatchMates(o)     == IF as[o] = "batch" THEN Range(BatchOf) ELSE {o}

\* A batch of which one exception fails every leg: OKX's REST client raises when
\* a part was refused, Hyperliquid's loop when a leg has no price.
FailsAsOne(o) ==
  /\ as[o] = "batch"
  /\ \/ account = "okx" /\ \E p \in BatchMates(o) : exch[p].state = "refused"
     \/ OnHyperliquid /\ \E p \in BatchMates(o) : Hyperliquid!LegRaises(ticket[p])

\* The verdict the strategy hears about a create is the venue's on that very
\* order: FAILED means there is none, and one the venue refused is not left
\* pending.  Out of this are calls whose answer was lost, refused modifies and
\* the batches that fail as one.
VerdictIsItsOwn ==
  \A o \in Oids :
    /\ IsLive(o) /\ told[o] = "FAILED" => o \in unclear \/ FailsAsOne(o)
    /\ exch[o].state = "refused" /\ ~ CreateUnderway(o) /\ o \notin unclear =>
         shown[o].status # "PENDING" /\ told[o] # "PENDING"

Reported == {"ACCEPTED", "PARTIALLY_FILLED", "FILLED", "CANCELED", "EXPIRED"}

\* A Bybit batch goes to the category of its first order.
MixedBatch(o) ==
  account = "bybit" /\ \E p \in BatchMates(o) : ticket[p].product # ticket[o].product

\* What the venue reports of an order is read as the order that was asked for:
\* the parameters sent and the report parsed are inverse to each other on every
\* venue, whatever the contract size.
ReportedAsAsked ==
  \A o \in Oids : shown[o].status \in Reported =>
    /\ shown[o].type = ticket[o].type /\ shown[o].amount = ticket[o].amount
    /\ shown[o].product = ticket[o].product \/ MixedBatch(o)
    /\ ticket[o].type = "LIMIT" => shown[o].tif \in {ticket[o].tif, "none"}

\* A request finds the live order it names, on the account's part of the venue
\* the create went to; but Hyperliquid knows an order by another id than the one
\* create_order returned.
EveryRequestReachesItsOrder ==
  \A m \in strayed : MixedBatch(m[1]) \/ (OnHyperliquid /\ m[2] = "given")

\* Left without a word: a coroutine that raised before it sent, a refused tp/sl
\* order, a refused payload of Hyperliquid's WebSocket API, and a create refused
\* for want of a price where the update of the refusal raises.
Unspoken(o) ==
  \/ exch[o].state = "none"
     /\ \E k \in Coroutines([op |-> as[o], legs |-> IF as[o] = "batch" THEN BatchOf ELSE One(o),
                             by |-> "given"]) : o \in Legs(k) /\ Raising(k)
  \/ exch[o].state = "refused"
     /\ \/ as[o] = "tp_sl" /\ ~ OnBinance
        \/ as[o] = "create_ws" /\ OnHyperliquid
        \/ as[o] = "create" /\ (OnBitget \/ OnHyperliquid) /\ Unpriced(ticket[o])

\* An order the consumer has dealt with is not left behind: when its call has
\* ended and its reports are read, the strategy has heard of it.
EveryOrderIsSettled ==
  \A o \in Oids :
    \/ as[o] = "none" \/ o \in unclear \/ Unspoken(o) \/ CreateUnderway(o)
    \/ \E s \in Range(queue) \cup Range(late) : s.op \in Creates /\ o \in Range(s.legs)
    \/ exch[o].state = "taken" \/ \E i \in DOMAIN feed : feed[i].oid = o
    \/ told[o] # NoStatus
=============================================================================
