------------------------------- MODULE MCFeeds -------------------------------
(* Feeds on seven accounts, with a few feeds asked for at a time. *)
EXTENDS Feeds

MCAccounts == {<<"binance", "spot">>, <<"binance", "linear">>, <<"okx", "linear">>,
               <<"bybit", "spot">>, <<"bybit", "linear">>, <<"bitget", "linear">>,
               <<"hyperliquid", "linear">>}

MCMenus ==
  {{Plain(p) : p \in Prices},
   {Trades, Feed("built_kline", "1m"), Feed("volume_kline", "t1")},
   {Plain("bookl1"), Feed("bookl2", "5"), Feed("bookl2", "50")},
   {Feed("kline", "1h"), Feed("kline", "8h"), Feed("built_kline", "1h")},
   {Feed("bookl2", "50")}}

Symmetry == Permutations(Symbols)
=============================================================================
