---------------------------- MODULE BitgetOrders ----------------------------
(***************************************************************************)
(* BitgetOrderManagementSystem, for the unified account and for the        *)
(* classic ones, and the enum parser.  Market orders are sent as limit     *)
(* orders at a price off the book, so "priced" says of a market ticket     *)
(* that the cache holds a book of its symbol.                              *)
(***************************************************************************)
EXTENDS OrderTickets

Accounts == {"bitget_uta", "bitget_spot", "bitget_futures"}

\* _get_inst_type, with one settlement coin.
InstType(a, p) == <<a, p>>

OffTheBook(t) == t.type = "MARKET" /\ ~ t.priced

\* time in force or force; a limit order without a price is sent all the same.
Params(a, t) ==
  [route |-> InstType(a, t.product), type |-> "limit",
   tif   |-> CASE t.type = "POST_ONLY" -> "post_only"
               [] t.type = "LIMIT"     -> t.tif
               [] t.type = "MARKET"    -> "IOC",
   size  |-> t.amount]

\* float(price) is in the update of the answer, and again in that of the except
\* branch, which therefore raises as well: nothing is posted.
UpdateRaises(t) == Unpriced(t)

\* The account picks one of two halves of the method; they differ in names only.
\* What becomes of the answer is UpdateRaises's.
CreateOrder(a, t)   == IF OffTheBook(t) THEN Raises ELSE Sends(Params(a, t))
CreateOrderWs(a, t) == IF OffTheBook(t) THEN Raises ELSE Sends(Params(a, t))

\* raise NotImplementedError
BatchLeg(a, t)        == Raises
CreateTpSlOrder(a, t) == Raises
ModifyOrder(a, t)     == Raises

\* By client id; only the classic accounts name the book.
CancelOrder(a, t)   == Sends([route |-> InstType(a, t.product)])
CancelOrderWs(a, t) == Sends([route |-> InstType(a, t.product)])

\* The classic accounts have none: their EMS cancels the orders one by one.
CancelAllOrders(a, t) ==
  IF a = "bitget_uta" THEN Sends([route |-> InstType(a, t.product)]) ELSE Raises

\* _handle_uta_place_order_response
UtaPlaceVerdict(ok) == IF ok THEN "PENDING" ELSE "FAILED"
\* _handle_uta_cancel_order_response
UtaCancelVerdict(ok) == IF ok THEN "CANCELING" ELSE "CANCEL_FAILED"
\* _handle_place_order_response
PlaceVerdict(ok) == IF ok THEN "PENDING" ELSE "FAILED"
\* _handle_cancel_order_response
CancelVerdict(ok) == IF ok THEN "CANCELING" ELSE "CANCEL_FAILED"

\* _ws_uta_api_msg_handler and _handle_id_messages: the id has the kind as prefix.
UtaWsApiVerdict(kind, ok) ==
  IF kind = "create" THEN UtaPlaceVerdict(ok) ELSE UtaCancelVerdict(ok)

\* _ws_api_msg_handler and _handle_arg_messages
ClassicWsApiVerdict(kind, ok) ==
  IF kind = "create" THEN PlaceVerdict(ok) ELSE CancelVerdict(ok)

WsApiVerdict(a, kind, ok) ==
  IF a = "bitget_uta" THEN UtaWsApiVerdict(kind, ok) ELSE ClassicWsApiVerdict(kind, ok)

OrderStatusMap ==
  [live |-> "ACCEPTED", filled |-> "FILLED", canceled |-> "CANCELED",
   cancelled |-> "CANCELED", partially_filled |-> "PARTIALLY_FILLED"]

\* _handle_uta_order_event; the new of a unified account has no status here.
UtaOrderEvent(t, w, state) ==
  IF state \notin DOMAIN OrderStatusMap THEN Dropped
  ELSE [status |-> OrderStatusMap[state], type |-> t.type, tif |-> "none",
        amount |-> w.size, product |-> w.route[2]]

\* _handle_orders_event: newSize on spot, size on futures.
OrdersEvent(t, w, state) ==
  [status |-> OrderStatusMap[state], type |-> t.type, tif |-> "none",
   amount |-> w.size, product |-> w.route[2]]

\* Both take the type from the temporary order, of which t is the ticket.
ReadReport(a, t, w, state) ==
  IF a = "bitget_uta" THEN UtaOrderEvent(t, w, state) ELSE OrdersEvent(t, w, state)

NativeStates(a) ==
  [new |-> IF a = "bitget_uta" THEN {"new", "live"} ELSE {"live"},
   partial |-> {"partially_filled"}, filled |-> {"filled"},
   canceled |-> {"canceled", "cancelled"}, expired |-> {"cancelled"}, rejected |-> {}]
=============================================================================
