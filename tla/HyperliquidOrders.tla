-------------------------- MODULE HyperliquidOrders --------------------------
(***************************************************************************)
(* HyperLiquidOrderManagementSystem, the enum parser and what is special   *)
(* about this venue's EMS: every create is awaited by the queue's consumer *)
(* and is made under another id than the one the strategy was given.  As   *)
(* on Bitget, a market order is priced off the book.                       *)
(***************************************************************************)
EXTENDS OrderTickets

Accounts == {"hyperliquid"}

Route(p) == <<"hyperliquid", p>>

OffTheBook(t)  == t.type = "MARKET" /\ ~ t.priced

\* to_hyperliquid_time_in_force has no FOK.
Unspeakable(t) == t.type = "LIMIT" /\ t.tif = "FOK"

Params(t) ==
  [route |-> Route(t.product), type |-> "limit",
   tif   |-> CASE t.type = "POST_ONLY" -> "Alo"
               [] t.type = "LIMIT"     -> t.tif
               [] t.type = "MARKET"    -> "IOC",
   size  |-> t.amount]

\* As on Bitget, float(price) raises in both branches after the request; here it
\* does so inside the queue's consumer.
UpdateRaises(t) == Unpriced(t)

CreateOrder(a, t)   == IF OffTheBook(t) \/ Unspeakable(t) THEN Raises ELSE Sends(Params(t))
CreateOrderWs(a, t) == IF OffTheBook(t) \/ Unspeakable(t) THEN Raises ELSE Sends(Params(t))
BatchLeg(a, t)      == IF OffTheBook(t) \/ Unspeakable(t) THEN Raises ELSE Sends(Params(t))

\* raise NotImplementedError
CreateTpSlOrder(a, t) == Raises
ModifyOrder(a, t)     == Raises

CancelOrder(a, t)   == Sends([route |-> Route(t.product)])
CancelOrderWs(a, t) == Sends([route |-> Route(t.product)])

\* One status a leg.  The loop puts float of the strategy's own price into each
\* update, and a market order has none: an exception, and all legs are failed,
\* the ones taken included.
LegRaises(t) == t.type = "MARKET" \/ Unpriced(t)
BatchVerdicts(ts, taken) ==
  IF \E i \in DOMAIN ts : LegRaises(ts[i]) THEN AllFailed(taken) ELSE OnePerLeg(taken)

\* _create_order_from_ws_response
PlaceVerdict(ok) == IF ok THEN "PENDING" ELSE "FAILED"

\* _create_cancel_order_from_ws_response
CancelVerdict(ok) == IF ok THEN "CANCELING" ELSE "CANCEL_FAILED"

\* _ws_api_msg_handler and _parse_ws_api_response; a payload that is not ok as a
\* whole is only logged.
WsApiVerdict(kind, ok) == IF kind = "create" THEN PlaceVerdict(ok) ELSE CancelVerdict(ok)

OrderStatusMap ==
  [open |-> "ACCEPTED", filled |-> "FILLED", canceled |-> "CANCELED",
   triggered |-> "ACCEPTED", rejected |-> "FAILED", marginCanceled |-> "CANCELED",
   selfTradeCanceled |-> "CANCELED", reduceOnlyCanceled |-> "CANCELED",
   siblingFilledCanceled |-> "CANCELED", delistedCanceled |-> "CANCELED",
   liquidatedCanceled |-> "CANCELED", scheduledCancel |-> "CANCELED",
   tickRejected |-> "FAILED", badAloPxRejected |-> "FAILED",
   iocCancelRejected |-> "FAILED", oracleRejected |-> "FAILED"]

\* _parse_order_update, with the type of the temporary order.
ReadReport(a, t, w, state) ==
  [status |-> OrderStatusMap[state], type |-> t.type, tif |-> "none",
   amount |-> w.size, product |-> w.route[2]]

\* HyperLiquidOrderStatusType, one of each family.
NativeStates ==
  [new |-> {"open"}, partial |-> {"open"}, filled |-> {"filled"}, canceled |-> {"canceled"},
   expired |-> {"marginCanceled"}, rejected |-> {"badAloPxRejected"}]
=============================================================================
