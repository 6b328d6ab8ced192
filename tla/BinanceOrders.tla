--------------------------- MODULE BinanceOrders ---------------------------
(***************************************************************************)
(* BinanceOrderManagementSystem and the enum parser: requests, their       *)
(* routes, answers and reports, for the five kinds of account.             *)
(***************************************************************************)
EXTENDS OrderTickets

Accounts == {"binance_spot", "binance_margin", "binance_linear", "binance_inverse", "binance_pm"}

\* BinanceAccountType: what is_spot, is_margin, is_linear and is_inverse tell.
MarketType == [binance_spot |-> "spot", binance_margin |-> "spot",
               binance_linear |-> "linear", binance_inverse |-> "inverse"]

\* _execute_order_request.  Spot symbols may be traded on margin as well.
CreateRoute(a, p) ==
  IF a = "binance_pm" \/ MarketType[a] = p THEN <<a, p>> ELSE NoRoute

\* Mutant: a portfolio margin account cancels inverse orders in the linear book.
CancelOnLinear(a, p) ==
  IF a = "binance_pm" THEN <<a, IF p = "inverse" THEN "linear" ELSE p>>
  ELSE IF MarketType[a] = p THEN <<a, p>> ELSE NoRoute

\* _execute_cancel_order_request
CancelRoute(a, p) ==
  IF a = "binance_pm" \/ MarketType[a] = p THEN <<a, p>> ELSE NoRoute

\* _execute_cancel_all_orders_request looks at the market of a portfolio
\* margin account only; an answer that is not a list must have code 200.
SweepRoute(a, p) == IF a = "binance_pm" THEN <<a, p>> ELSE <<a, MarketType[a]>>

\* _execute_modify_order_request, and modify_order before it.
ModifyRoute(a, p) ==
  CASE p = "spot" \/ a \in {"binance_spot", "binance_margin"} -> NoRoute
    [] a = "binance_pm" -> <<a, p>>
    [] OTHER -> <<a, MarketType[a]>>

\* _execute_batch_order_request
BatchRoute(a) ==
  IF a \in {"binance_linear", "binance_inverse"} THEN <<a, MarketType[a]>> ELSE NoRoute

\* _execute_order_request_ws: the client of the account, the call of the market.
HasWsApi(a) == a \in {"binance_spot", "binance_linear", "binance_inverse"}
CreateWsRoute(a, p) == IF HasWsApi(a) THEN <<a, p>> ELSE NoRoute
CancelWsRoute(a, p) == IF HasWsApi(a) THEN <<a, p>> ELSE NoRoute

\* Mutant: a post-only order of a futures account is sent as an ordinary one.
PostOnlyForgotten(t) ==
  [type |-> IF t.type = "POST_ONLY" THEN "LIMIT" ELSE t.type,
   tif  |-> IF t.type = "MARKET" THEN "none" ELSE t.tif]

\* How the type is put: post-only is a type of its own on spot and a time in
\* force on futures; only a limit order has a time in force.
TypeParams(t) ==
  CASE t.type = "POST_ONLY" /\ t.product = "spot" -> [type |-> "LIMIT_MAKER", tif |-> "none"]
    [] t.type = "POST_ONLY" /\ t.product # "spot" -> [type |-> "LIMIT", tif |-> "GTX"]
    [] t.type = "LIMIT"     -> [type |-> "LIMIT", tif |-> t.tif]
    [] t.type = "MARKET"    -> [type |-> "MARKET", tif |-> "none"]

Params(route, t) ==
  [route |-> route, type |-> TypeParams(t).type, tif |-> TypeParams(t).tif, size |-> t.amount]

Malformed(t) == NeedsPrice(t) /\ ~ t.priced

CreateOrder(a, t) ==
  IF Malformed(t) THEN Raises
  ELSE SendsOrFails(CreateRoute(a, t.product), Params(CreateRoute(a, t.product), t))

\* create_order_ws has no try: a missing client is an exception of the task.
CreateOrderWs(a, t) ==
  IF Malformed(t) THEN Raises
  ELSE SendsOrRaises(CreateWsRoute(a, t.product), Params(CreateWsRoute(a, t.product), t))

\* One leg of a batch.
BatchLeg(a, t) ==
  IF Malformed(t) THEN Raises
  ELSE SendsOrFails(BatchRoute(a), Params(BatchRoute(a), t))

BatchVerdicts(taken) == OnePerLeg(taken)

\* The stop order that is gathered with a tp/sl order: only its own request
\* is logged when it fails, a missing price raises out of the gather.
StopLossOrder(a, t) ==
  CASE t.stop = "none"     -> Fails
    [] t.stop = "unpriced" -> Raises
    [] OTHER -> SendsOrFails(CreateRoute(a, t.product),
                  [route |-> CreateRoute(a, t.product),
                   type  |-> IF t.product = "spot"
                             THEN IF t.stop = "limit" THEN "STOP_LOSS_LIMIT" ELSE "STOP_LOSS"
                             ELSE IF t.stop = "limit" THEN "STOP" ELSE "STOP_MARKET",
                   tif   |-> IF t.stop = "limit" THEN "GTC" ELSE "none", size |-> t.amount])

TakeProfitOrder(a, t) ==
  CASE t.stop = "none"     -> Fails
    [] t.stop = "unpriced" -> Raises
    [] OTHER -> SendsOrFails(CreateRoute(a, t.product),
                  [route |-> CreateRoute(a, t.product),
                   type  |-> IF t.product = "spot"
                             THEN IF t.stop = "limit" THEN "TAKE_PROFIT_LIMIT" ELSE "TAKE_PROFIT"
                             ELSE IF t.stop = "limit" THEN "TAKE_PROFIT" ELSE "TAKE_PROFIT_MARKET",
                   tif   |-> IF t.stop = "limit" THEN "GTC" ELSE "none", size |-> t.amount])

\* create_tp_sl_order gathers three coroutines, so each goes its own way; the
\* exception of one ends the gather and not the others.
TpSlParts(a, t) ==
  {[op |-> "create", out |-> CreateOrder(a, t)],
   [op |-> "stop_loss", out |-> StopLossOrder(a, t)],
   [op |-> "take_profit", out |-> TakeProfitOrder(a, t)]}

CancelOrder(a, t) ==
  SendsOrFails(CancelRoute(a, t.product), [route |-> CancelRoute(a, t.product)])

CancelOrderWs(a, t) ==
  SendsOrRaises(CancelWsRoute(a, t.product), [route |-> CancelWsRoute(a, t.product)])

CancelAllOrders(a, t) ==
  SendsOrFails(SweepRoute(a, t.product), [route |-> SweepRoute(a, t.product)])

\* modify_order refuses a spot market before its try.
ModifyOrder(a, t) ==
  IF t.product = "spot" THEN Raises
  ELSE SendsOrFails(ModifyRoute(a, t.product), [route |-> ModifyRoute(a, t.product)])

\* _ws_api_msg_handler: the id of the request carries its kind.
WsApiVerdict(kind, ok) ==
  CASE kind = "create" /\ ok   -> "PENDING"
    [] kind = "create" /\ ~ ok -> "FAILED"
    [] kind = "cancel" /\ ok   -> "CANCELING"
    [] kind = "cancel" /\ ~ ok -> "CANCEL_FAILED"

\* BinanceOrderStatus and its table.
OrderStatusMap ==
  [NEW |-> "ACCEPTED", PARTIALLY_FILLED |-> "PARTIALLY_FILLED", FILLED |-> "FILLED",
   CANCELED |-> "CANCELED", EXPIRED |-> "EXPIRED", EXPIRED_IN_MATCH |-> "EXPIRED"]

\* BinanceTimeInForce, of which GTX is a good-till-cancel post-only order.
TimeInForceMap == [IOC |-> "IOC", GTC |-> "GTC", FOK |-> "FOK", GTX |-> "GTC"]

\* parse_futures_order_type
FuturesOrderType(type, tif) == IF tif = "GTX" THEN "POST_ONLY" ELSE type

\* parse_spot_order_type
SpotOrderType(type) == IF type = "LIMIT_MAKER" THEN "POST_ONLY" ELSE type

\* A venue reports the time in force it works with: good till cancel if none.
WorkingTif(w) == IF w.tif = "none" THEN "GTC" ELSE w.tif

\* _parse_order_trade_update: the business unit, or the account, tells the market.
OrderTradeUpdate(w, state) ==
  [status |-> OrderStatusMap[state], type |-> FuturesOrderType(w.type, w.tif),
   tif |-> TimeInForceMap[WorkingTif(w)], amount |-> w.size, product |-> w.route[2]]

\* _parse_execution_report, of a spot account
ExecutionReport(w, state) ==
  [status |-> OrderStatusMap[state], type |-> SpotOrderType(w.type),
   tif |-> TimeInForceMap[WorkingTif(w)], amount |-> w.size, product |-> "spot"]

\* _parse_pm_execution_report, of a margin or portfolio margin account
PmExecutionReport(w, state) ==
  [status |-> OrderStatusMap[state], type |-> SpotOrderType(w.type),
   tif |-> TimeInForceMap[WorkingTif(w)], amount |-> w.size, product |-> "spot"]

\* _ws_spot_msg_handler serves spot accounts, _ws_msg_handler all others.
ReadReport(a, w, state) ==
  CASE a = "binance_spot" -> ExecutionReport(w, state)
    [] a # "binance_spot" /\ w.route[2] = "spot" -> PmExecutionReport(w, state)
    [] OTHER -> OrderTradeUpdate(w, state)

\* The names the venue has for what happens to an order.
NativeStates ==
  [new |-> {"NEW"}, partial |-> {"PARTIALLY_FILLED"}, filled |-> {"FILLED"},
   canceled |-> {"CANCELED"}, expired |-> {"EXPIRED", "EXPIRED_IN_MATCH"}, rejected |-> {}]
=============================================================================
