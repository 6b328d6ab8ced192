----------------------------- MODULE OkxOrders -----------------------------
(***************************************************************************)
(* OkxOrderManagementSystem and the enum parser.  One account trades every *)
(* market; an order of a derivative is counted in contracts.               *)
(***************************************************************************)
EXTENDS OrderTickets

CONSTANT ContractSize   \* market.info.ctVal, of every derivative

Accounts == {"okx"}

Route(p) == <<"okx", p>>

\* sz: a ticket's amount is a whole number of contracts.
Contracts(t) == IF t.product = "spot" THEN t.amount ELSE t.amount \div ContractSize

\* to_okx_order_type: type and time in force are one word.
OrderTypeWord(t) ==
  CASE t.type = "MARKET"    -> "market"
    [] t.type = "POST_ONLY" -> "post_only"
    [] t.type = "LIMIT" /\ t.tif = "GTC" -> "limit"
    [] t.type = "LIMIT" /\ t.tif = "FOK" -> "fok"
    [] t.type = "LIMIT" /\ t.tif = "IOC" -> "ioc"

Params(t) ==
  [route |-> Route(t.product), type |-> OrderTypeWord(t), tif |-> "none", size |-> Contracts(t)]

Malformed(t) == NeedsPrice(t) /\ ~ t.priced

CreateOrder(a, t)   == IF Malformed(t) THEN Raises ELSE Sends(Params(t))
CreateOrderWs(a, t) == IF Malformed(t) THEN Raises ELSE Sends(Params(t))
BatchLeg(a, t)      == IF Malformed(t) THEN Raises ELSE Sends(Params(t))

\* The stops are attached to the order's own request; their prices are not looked at.
CreateTpSlOrder(a, t) == IF Malformed(t) THEN Raises ELSE Sends(Params(t))

CancelOrder(a, t)   == Sends([route |-> Route(t.product)])
CancelOrderWs(a, t) == Sends([route |-> Route(t.product)])
ModifyOrder(a, t)   == Sends([route |-> Route(t.product)])

\* Each leg has its sCode; but an answer whose own code is not 0, which is how
\* the venue says that it took a part only, is an exception of the REST client.
BatchVerdicts(taken) ==
  IF \A i \in DOMAIN taken : taken[i] THEN OnePerLeg(taken) ELSE AllFailed(taken)

\* _ws_api_msg_handler: the op of the answer tells its kind.
WsApiVerdict(kind, ok) ==
  CASE kind = "create" /\ ok   -> "PENDING"
    [] kind = "create" /\ ~ ok -> "FAILED"
    [] kind = "cancel" /\ ok   -> "CANCELING"
    [] kind = "cancel" /\ ~ ok -> "CANCEL_FAILED"

OrderStatusMap ==
  [live |-> "ACCEPTED", partially_filled |-> "PARTIALLY_FILLED", filled |-> "FILLED",
   canceled |-> "CANCELED"]

\* parse_order_type
OrderTypeMap ==
  [market |-> "MARKET", limit |-> "LIMIT", ioc |-> "LIMIT", fok |-> "LIMIT",
   post_only |-> "POST_ONLY"]

\* parse_time_in_force
TimeInForceMap ==
  [market |-> "GTC", limit |-> "GTC", ioc |-> "IOC", fok |-> "FOK", post_only |-> "GTC"]

\* _handle_orders.  A state outside the table is an exception that drops the
\* report and the rest of its frame.
ReadReport(a, w, state) ==
  IF state \notin DOMAIN OrderStatusMap THEN Dropped
  ELSE [status |-> OrderStatusMap[state], type |-> OrderTypeMap[w.type],
        tif |-> TimeInForceMap[w.type],
        amount |-> IF w.route[2] = "spot" THEN w.size ELSE w.size * ContractSize,
        product |-> w.route[2]]

\* A market maker's order may be canceled by the venue's protection.
NativeStates ==
  [new |-> {"live"}, partial |-> {"partially_filled"}, filled |-> {"filled"},
   canceled |-> {"canceled"}, expired |-> {"canceled", "mmp_canceled"}, rejected |-> {}]
=============================================================================
