----------------------------- MODULE ApiLimits -----------------------------
(***************************************************************************)
(* The rate limiters: of which windows a request takes before it is sent,  *)
(* on every account and for every operation, over REST, over the WebSocket *)
(* API and in the blocking client.                                         *)
(***************************************************************************)
EXTENDS Naturals, Sequences

CONSTANT BatchSize   \* orders of a batch

\* What a request takes of a window.  Without room it is refused at once, or
\* waits until there is some or its patience is at an end.
Takes(window, cost)  == [window |-> window, cost |-> cost, waits |-> FALSE]
Awaits(window, cost) == [window |-> window, cost |-> cost, waits |-> TRUE]

WsOps   == {"create_ws", "cancel_ws"}
SyncOps == {"query"}

-----------------------------------------------------------------------------
(* Binance: every part of the API counts orders and weight.                 *)

BinanceApi == [binance_spot |-> "api", binance_margin |-> "api", binance_linear |-> "fapi",
               binance_inverse |-> "dapi", binance_pm |-> "papi"]

\* Creates, cancels and modifies take of the same windows.
BinanceOrderLimit(a, weight, orders) ==
  CASE BinanceApi[a] = "api"  -> <<Takes("order_sec", 1), Takes("order_day", 1),
                                   Takes("weight", weight), Takes("raw", 1)>>
    [] BinanceApi[a] = "fapi" -> <<Takes("order_sec", 1), Takes("order_min", orders),
                                   Takes("weight", weight)>>
    [] BinanceApi[a] \in {"dapi", "papi"} -> <<Takes("order_min", 1), Takes("weight", weight)>>

\* Listen keys and, in the blocking client, queries wait for their weight.
BinanceWeightLimit(a, weight) ==
  IF BinanceApi[a] = "api" THEN <<Awaits("weight", weight), Awaits("raw", 1)>>
  ELSE <<Awaits("weight", weight)>>

BinanceCreate(a)    == BinanceOrderLimit(a, IF a = "binance_margin" THEN 6 ELSE 1, 1)
BinanceCancel(a, p) == BinanceOrderLimit(a, IF a = "binance_pm" /\ p = "spot" THEN 2 ELSE 1, 1)
BinanceModify(a)    == BinanceOrderLimit(a, 1, 1)
BinanceSweep(a, p)  == BinanceOrderLimit(a, IF a = "binance_pm" /\ p = "spot" THEN 5 ELSE 1, 1)
BinanceBatch(a)     == BinanceOrderLimit(a, 5, 5)
BinanceListenKey(a) == BinanceWeightLimit(a, 1)
BinanceQuery(a)     == BinanceWeightLimit(a, IF BinanceApi[a] \in {"api", "papi"} THEN 20 ELSE 5)

\* A futures order costs no weight over the WebSocket API.
BinanceWs(a, op) == BinanceOrderLimit(a, IF op = "create_ws" /\ BinanceApi[a] # "api"
                                         THEN 0 ELSE 1, 1)

Binance(a, p, op) ==
  CASE op \in {"create", "tp_sl"} -> BinanceCreate(a)
    [] op = "cancel"     -> BinanceCancel(a, p)
    [] op = "modify"     -> BinanceModify(a)
    [] op = "cancel_all" -> BinanceSweep(a, p)
    [] op = "batch"      -> BinanceBatch(a)
    [] op = "listen_key" -> BinanceListenKey(a)
    [] op = "query"      -> BinanceQuery(a)
    [] op \in WsOps      -> BinanceWs(a, op)

-----------------------------------------------------------------------------
(* OKX: one window for every endpoint.                                      *)

OkxOrder(op) ==
  CASE op \in {"create", "tp_sl"} -> <<Takes("/trade/order", 1)>>
    [] op = "cancel" -> <<Takes("/trade/cancel-order", 1)>>
    [] op = "modify" -> <<Takes("/trade/amend-order", 1)>>
    [] op = "batch"  -> <<Takes("/trade/batch-orders", BatchSize)>>
OkxWs(op) == IF op = "create_ws" THEN <<Takes("/ws/order", 1)>> ELSE <<Takes("/ws/cancel", 1)>>
OkxQuery  == <<Awaits("/market/candles", 1)>>

Okx(op) ==
  CASE op \in WsOps   -> OkxWs(op)
    [] op \in SyncOps -> OkxQuery
    [] OTHER -> OkxOrder(op)

-----------------------------------------------------------------------------
(* Bybit: a window for every endpoint, on spot and off it, and over REST    *)
(* then one of the address, for which a request waits.                      *)

BybitOrderLimit(p, endpoint, cost) ==
  <<Takes(<<IF p = "spot" THEN "spot" ELSE "futures", endpoint>>, cost)>>
BybitIpLimit == <<Awaits(<<"any", "ip">>, 1)>>

BybitOrder(p, op) ==
  CASE op \in {"create", "tp_sl"} -> BybitOrderLimit(p, "/order/create", 1)
    [] op = "cancel"     -> BybitOrderLimit(p, "/order/cancel", 1)
    [] op = "modify"     -> BybitOrderLimit(p, "/order/amend", 1)
    [] op = "cancel_all" -> BybitOrderLimit(p, "/order/cancel-all", 1)
    [] op = "batch"      -> BybitOrderLimit(p, "/order/create-batch", BatchSize)
BybitWs(p, op) == BybitOrderLimit(p, IF op = "create_ws" THEN "order.create" ELSE "order.cancel", 1)
BybitQuery     == <<Awaits(<<"any", "/position/list">>, 1)>> \o BybitIpLimit

Bybit(p, op) ==
  CASE op \in WsOps   -> BybitWs(p, op)
    [] op \in SyncOps -> BybitQuery
    [] OTHER -> BybitOrder(p, op) \o BybitIpLimit

-----------------------------------------------------------------------------
(* Bitget: a window for every endpoint of the account, and the address's.   *)

BitgetOrderLimit(endpoint) == <<Takes(endpoint, 1)>>
BitgetIpLimit == <<Awaits("ip", 1)>>

BitgetOrder(op) ==
  CASE op = "create"     -> BitgetOrderLimit("place-order")
    [] op = "cancel"     -> BitgetOrderLimit("cancel-order")
    [] op = "cancel_all" -> BitgetOrderLimit("cancel-symbol-order")
BitgetWs(op) ==
  BitgetOrderLimit(IF op = "create_ws" THEN "place-order" ELSE "cancel-order")
BitgetQuery == <<Awaits("/position", 1)>> \o BitgetIpLimit

Bitget(op) ==
  CASE op \in WsOps   -> BitgetWs(op)
    [] op \in SyncOps -> BitgetQuery
    [] OTHER -> BitgetOrder(op) \o BitgetIpLimit

-----------------------------------------------------------------------------
(* Hyperliquid: one window for whatever is signed, one for the rest.        *)

HyperliquidCost(orders) == 1 + orders \div 40
HyperliquidExchange(op) ==
  <<Takes("exchange", HyperliquidCost(IF op = "batch" THEN BatchSize ELSE 1))>>
HyperliquidInfo == <<Awaits("info", 2)>>

Hyperliquid(op) == IF op \in SyncOps THEN HyperliquidInfo ELSE HyperliquidExchange(op)

-----------------------------------------------------------------------------
(* Any account.                                                             *)

BinanceAccounts == DOMAIN BinanceApi
BitgetAccounts  == {"bitget_uta", "bitget_futures", "bitget_spot"}
Accounts == BinanceAccounts \cup BitgetAccounts \cup {"okx", "bybit", "hyperliquid"}

\* The operations that come to a request of their own on an account.
Operations(a) ==
  {"create", "cancel", "query"}
  \cup (IF a \notin {"binance_margin", "binance_pm"} THEN WsOps ELSE {})
  \cup (IF a \in {"binance_linear", "binance_inverse", "okx", "bybit", "hyperliquid"}
        THEN {"batch"} ELSE {})
  \cup (IF a \in {"binance_linear", "binance_inverse", "binance_pm", "okx", "bybit"}
        THEN {"modify"} ELSE {})
  \cup (IF a \in BinanceAccounts \cup {"bybit", "bitget_uta"} THEN {"cancel_all"} ELSE {})
  \cup (IF a \in {"okx", "bybit"} THEN {"tp_sl"} ELSE {})
  \cup (IF a \in BinanceAccounts \ {"binance_spot"} THEN {"listen_key"} ELSE {})

\* The products whose orders take of windows of their own.
Products(a) == IF a \in {"binance_pm", "bybit"} THEN {"spot", "linear"} ELSE {"linear"}

\* The limiter a request passes: every client has its own.
Limiter(op) == IF op \in WsOps THEN "ws" ELSE IF op \in SyncOps THEN "sync" ELSE "rest"

\* The windows of a request, in the order they are asked.
Windows(a, p, op) ==
  LET path == CASE a \in BinanceAccounts -> Binance(a, p, op)
                [] a = "okx"             -> Okx(op)
                [] a = "bybit"           -> Bybit(p, op)
                [] a \in BitgetAccounts  -> Bitget(op)
                [] a = "hyperliquid"     -> Hyperliquid(op)
  IN [i \in DOMAIN path |-> [path[i] EXCEPT !.window = <<Limiter(op), path[i].window>>]]

AllWindows(a, p) ==
  UNION {{Windows(a, p, op)[i].window : i \in DOMAIN Windows(a, p, op)} : op \in Operations(a)}
=============================================================================
