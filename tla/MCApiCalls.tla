----------------------------- MODULE MCApiCalls -----------------------------
EXTENDS ApiCalls
MCAccounts == Accounts
MCOps == {"create", "create_ws", "tp_sl", "batch", "cancel", "cancel_ws", "modify", "cancel_all",
          "query", "listen_key"}

\* Quotas scaled so that a second order finds a window full: the costs are the
\* code's own, and the weights are large enough for each of them.
Names(a) == {w[2] : w \in UNION {AllWindows(a, p) : p \in Products(a)}}
Scaled(a) ==
  IF a \in BinanceAccounts
  THEN [order_sec |-> 1, order_day |-> 2, order_min |-> IF a = "binance_linear" THEN 5 ELSE 1,
        weight |-> 20, raw |-> 2]
  ELSE [w \in Names(a) |-> BatchSize]
MCQuotas == [a \in Accounts |-> Scaled(a)]
=============================================================================
