---------------------------- MODULE BybitOrders ----------------------------
(***************************************************************************)
(* BybitOrderManagementSystem and the enum parser.  The category of a      *)
(* request says which book its symbol is in.                               *)
(***************************************************************************)
EXTENDS OrderTickets

Accounts == {"bybit"}

\* _get_category
Category(p) == <<"bybit", p>>

\* Post-only is a time in force of a limit order; a market order has none.
Params(category, t) ==
  [route |-> category,
   type  |-> IF t.type = "MARKET" THEN "Market" ELSE "Limit",
   tif   |-> CASE t.type = "POST_ONLY" -> "PostOnly"
               [] t.type = "LIMIT"     -> t.tif
               [] t.type = "MARKET"    -> "none",
   size  |-> t.amount]

Malformed(t) == NeedsPrice(t) /\ ~ t.priced

CreateOrder(a, t)   == IF Malformed(t) THEN Raises ELSE Sends(Params(Category(t.product), t))
CreateOrderWs(a, t) == IF Malformed(t) THEN Raises ELSE Sends(Params(Category(t.product), t))

\* A batch is sent under the category of its first order.
BatchLeg(first, t) ==
  IF Malformed(t) THEN Raises ELSE Sends(Params(Category(first.product), t))

\* The stops travel with the order; a limit stop must have its price.
CreateTpSlOrder(a, t) ==
  IF Malformed(t) \/ t.stop = "unpriced" THEN Raises
  ELSE Sends(Params(Category(t.product), t))

CancelOrder(a, t)     == Sends([route |-> Category(t.product)])
CancelOrderWs(a, t)   == Sends([route |-> Category(t.product)])
CancelAllOrders(a, t) == Sends([route |-> Category(t.product)])
ModifyOrder(a, t)     == Sends([route |-> Category(t.product)])

\* retExtInfo has one code a leg.
BatchVerdicts(taken) == OnePerLeg(taken)

\* _parse_order_create
CreateVerdict(ok) == IF ok THEN "PENDING" ELSE "FAILED"

\* _parse_order_cancel
CancelVerdict(ok) == IF ok THEN "CANCELING" ELSE "CANCEL_FAILED"

\* _ws_api_msg_handler
WsApiVerdict(kind, ok) == IF kind = "create" THEN CreateVerdict(ok) ELSE CancelVerdict(ok)

OrderStatusMap ==
  [New |-> "ACCEPTED", PartiallyFilled |-> "PARTIALLY_FILLED",
   PartiallyFilledCanceled |-> "CANCELED", Filled |-> "FILLED",
   Cancelled |-> "CANCELED", Triggered |-> "ACCEPTED", Untriggered |-> "PENDING",
   Deactivated |-> "EXPIRED", Rejected |-> "FAILED"]

TimeInForceMap == [GTC |-> "GTC", IOC |-> "IOC", FOK |-> "FOK", PostOnly |-> "GTC"]

\* parse_order_type
OrderTypeRead(type, tif) ==
  CASE tif = "PostOnly" -> "POST_ONLY"
    [] tif # "PostOnly" /\ type = "Limit"  -> "LIMIT"
    [] tif # "PostOnly" /\ type = "Market" -> "MARKET"

\* The venue works a market order as an immediate-or-cancel one.
WorkingTif(w) == IF w.tif = "none" THEN "IOC" ELSE w.tif

\* _parse_order_update
ReadReport(a, w, state) ==
  [status |-> OrderStatusMap[state], type |-> OrderTypeRead(w.type, w.tif),
   tif |-> TimeInForceMap[WorkingTif(w)], amount |-> w.size, product |-> w.route[2]]

NativeStates ==
  [new |-> {"New"}, partial |-> {"PartiallyFilled"}, filled |-> {"Filled"},
   canceled |-> {"Cancelled", "PartiallyFilledCanceled"}, expired |-> {"Deactivated"},
   rejected |-> {"Rejected"}]
=============================================================================
