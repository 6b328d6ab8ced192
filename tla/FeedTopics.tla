----------------------------- MODULE FeedTopics -----------------------------
(***************************************************************************)
(* The market data of the five venues: which call of its WebSocket client  *)
(* a connector makes for a feed, which topic that client asks the venue    *)
(* for, and which events a message of a topic becomes.  The three are      *)
(* written apart in the code, and so is the way back of an unsubscription; *)
(* nothing there makes them agree.                                         *)
(*                                                                         *)
(* A table is a set of pairs; a feed without a row is refused: the call    *)
(* raises.  The symbol goes through all of them unchanged, by the maps     *)
(* between symbols and ids, and is left out.                               *)
(***************************************************************************)
EXTENDS Sequences

Levels == {"5", "10", "20", "50"}

Feed(d, x) == [data |-> d, detail |-> x]
Plain(d) == Feed(d, "none")
Prices == {"funding_rate", "index_price", "mark_price"}

Compose(R, S) == {<<p[1][1], p[2][2]>> : p \in {q \in R \X S : q[1][2] = q[2][1]}}

\* Pairs of an interval and its word at the venue, and the way back.
Words(intervals) == {<<i, i>> : i \in intervals}
Parsed(words, w) == (CHOOSE p \in words : p[2] = w)[1]

-----------------------------------------------------------------------------
(* Binance: three prices in one stream, and none of them for spot.          *)

BinanceWords == Words({"1s", "1m", "3m", "5m", "15m", "30m", "1h", "2h", "4h", "6h",
                       "8h", "12h", "1d", "3d", "1w", "1M"})

BinanceSubscribes ==
       {<<Plain("trade"), <<"trade">>>>, <<Plain("bookl1"), <<"book_ticker">>>>}
  \cup {<<Feed("bookl2", l), <<"partial_book_depth", l>>>> : l \in Levels}
  \cup {<<Feed("kline", p[1]), <<"kline", p[2]>>>> : p \in BinanceWords}
  \cup {<<Plain(p), <<"mark_price">>>> : p \in Prices}

\* Written out again, call by call.
BinanceUnsubscribes == BinanceSubscribes

BinanceStreams(market) ==
       {<<<<"trade">>, <<"trade">>>>, <<<<"book_ticker">>, <<"bookTicker">>>>}
  \cup {<<<<"partial_book_depth", l>>, <<"depth", l>>>> : l \in Levels \ {"50"}}
  \cup {<<<<"kline", p[2]>>, <<"kline", p[2]>>>> : p \in BinanceWords}
  \cup (IF market = "spot" THEN {} ELSE {<<<<"mark_price">>, <<"markPrice">>>>})
BinanceUnstreams(market) == BinanceStreams(market)

BinanceDepthEvents == {<<<<"depth", l>>, <<Plain("bookl2")>>>> : l \in Levels}

BinanceEvents ==
  BinanceDepthEvents
  \cup {<<<<"trade">>, <<Plain("trade")>>>>, <<<<"bookTicker">>, <<Plain("bookl1")>>>>,
        <<<<"markPrice">>, <<Plain("funding_rate"), Plain("mark_price"), Plain("index_price")>>>>}
  \cup {<<<<"kline", p[2]>>, <<Feed("kline", Parsed(BinanceWords, p[2]))>>>> : p \in BinanceWords}

-----------------------------------------------------------------------------
(* OKX: a channel for each price; candles come on a second client.          *)

OkxWords ==
  {<<"1s", "candle1s">>, <<"1m", "candle1m">>, <<"3m", "candle3m">>,
   <<"5m", "candle5m">>, <<"15m", "candle15m">>, <<"30m", "candle30m">>,
   <<"1h", "candle1H">>, <<"4h", "candle4H">>, <<"6h", "candle6Hutc">>,
   <<"12h", "candle12Hutc">>, <<"1d", "candle1Dutc">>, <<"3d", "candle3Dutc">>,
   <<"1w", "candle1Wutc">>, <<"1M", "candle1Mutc">>}

OkxSubscribes ==
       {<<Plain("trade"), <<"trade">>>>, <<Plain("bookl1"), <<"order_book", "bbo-tbt">>>>,
        <<Feed("bookl2", "5"), <<"order_book", "books5">>>>}
  \cup {<<Feed("kline", p[1]), <<"candlesticks", p[2]>>>> : p \in OkxWords}
  \cup {<<Plain(p), <<p>>>> : p \in Prices}
OkxUnsubscribes == OkxSubscribes

OkxChannels ==
       {<<<<"trade">>, <<"trades">>>>, <<<<"funding_rate">>, <<"funding-rate">>>>,
        <<<<"index_price">>, <<"index-tickers">>>>, <<<<"mark_price">>, <<"mark-price">>>>}
  \cup {<<<<"order_book", c>>, <<c>>>> : c \in {"bbo-tbt", "books5"}}
  \cup {<<<<"candlesticks", p[2]>>, <<p[2]>>>> : p \in OkxWords}
OkxUnchannels == OkxChannels

\* The handler knows "index-ticker"; no message has that channel.
OkxPriceEvents ==
  {<<<<"index-ticker">>, <<Plain("index_price")>>>>, <<<<"mark-price">>, <<Plain("mark_price")>>>>,
   <<<<"funding-rate">>, <<Plain("funding_rate")>>>>}

OkxEvents ==
  OkxPriceEvents
  \cup {<<<<"trades">>, <<Plain("trade")>>>>, <<<<"bbo-tbt">>, <<Plain("bookl1")>>>>,
        <<<<"books5">>, <<Plain("bookl2")>>>>}
  \cup {<<<<p[2]>>, <<Feed("kline", Parsed(OkxWords, p[2]))>>>> : p \in OkxWords}

-----------------------------------------------------------------------------
(* Bybit: three prices in one ticker; a spot ticker has none of them, and   *)
(* its handler raises before it publishes.                                  *)

BybitWords ==
  {<<"1m", "1">>, <<"3m", "3">>, <<"5m", "5">>, <<"15m", "15">>, <<"30m", "30">>,
   <<"1h", "60">>, <<"2h", "120">>, <<"4h", "240">>, <<"6h", "360">>, <<"12h", "720">>,
   <<"1d", "D">>, <<"1w", "W">>, <<"1M", "M">>}

BybitPrices == {<<Plain(p), <<"ticker">>>> : p \in Prices}

BybitSubscribes ==
  BybitPrices
  \cup {<<Plain("trade"), <<"trade">>>>, <<Plain("bookl1"), <<"order_book", "1">>>>,
        <<Feed("bookl2", "50"), <<"order_book", "50">>>>}
  \cup {<<Feed("kline", p[1]), <<"kline", p[2]>>>> : p \in BybitWords}

BybitTopics ==
       {<<<<"trade">>, <<"publicTrade">>>>, <<<<"ticker">>, <<"tickers">>>>}
  \cup {<<<<"order_book", d>>, <<"orderbook", d>>>> : d \in {"1", "50"}}
  \cup {<<<<"kline", p[2]>>, <<"kline", p[2]>>>> : p \in BybitWords}
BybitUntopics == BybitTopics

\* Mutant: the index price of a ticker is not published.
BybitEventsNoIndex(market) ==
       {<<<<"publicTrade">>, <<Plain("trade")>>>>, <<<<"orderbook", "1">>, <<Plain("bookl1")>>>>,
        <<<<"tickers">>, <<Plain("funding_rate"), Plain("mark_price")>>>>}
  \cup {<<<<"kline", p[2]>>, <<Feed("kline", Parsed(BybitWords, p[2]))>>>> : p \in BybitWords}

BybitEvents(market) ==
       {<<<<"publicTrade">>, <<Plain("trade")>>>>, <<<<"orderbook", "1">>, <<Plain("bookl1")>>>>,
        <<<<"orderbook", "50">>, <<Plain("bookl2")>>>>}
  \cup (IF market = "spot" THEN {}
        ELSE {<<<<"tickers">>, <<Plain("funding_rate"), Plain("index_price"), Plain("mark_price")>>>>})
  \cup {<<<<"kline", p[2]>>, <<Feed("kline", Parsed(BybitWords, p[2]))>>>> : p \in BybitWords}

-----------------------------------------------------------------------------
(* Bitget: trades, the best quotes and klines.                              *)

BitgetWords ==
  {<<"1m", "1m">>, <<"5m", "5m">>, <<"15m", "15m">>, <<"30m", "30m">>, <<"1h", "1H">>,
   <<"4h", "4H">>, <<"6h", "6H">>, <<"12h", "12H">>, <<"1d", "1D">>}

BitgetSubscribes ==
       {<<Plain("trade"), <<"trades_v3">>>>, <<Plain("bookl1"), <<"depth_v3", "books1">>>>}
  \cup {<<Feed("kline", p[1]), <<"candlestick_v3", p[2]>>>> : p \in BitgetWords}

BitgetTopics ==
       {<<<<"trades_v3">>, <<"publicTrade">>>>, <<<<"depth_v3", "books1">>, <<"books1">>>>}
  \cup {<<<<"candlestick_v3", p[2]>>, <<"kline", p[2]>>>> : p \in BitgetWords}

BitgetEvents ==
       {<<<<"publicTrade">>, <<Plain("trade")>>>>, <<<<"books1">>, <<Plain("bookl1")>>>>}
  \cup {<<<<"kline", p[2]>>, <<Feed("kline", Parsed(BitgetWords, p[2]))>>>> : p \in BitgetWords}

-----------------------------------------------------------------------------
(* Hyperliquid: the same three.                                             *)

HyperliquidWords == Words({"1m", "3m", "5m", "15m", "30m", "1h", "2h", "4h", "8h", "12h",
                           "1d", "1w", "1M"})

HyperliquidSubscribes ==
       {<<Plain("trade"), <<"trades">>>>, <<Plain("bookl1"), <<"bbo">>>>}
  \cup {<<Feed("kline", p[1]), <<"candle", p[2]>>>> : p \in HyperliquidWords}

HyperliquidTopics ==
       {<<<<"trades">>, <<"trades">>>>, <<<<"bbo">>, <<"bbo">>>>}
  \cup {<<<<"candle", p[2]>>, <<"candle", p[2]>>>> : p \in HyperliquidWords}

HyperliquidEvents ==
       {<<<<"trades">>, <<Plain("trade")>>>>, <<<<"bbo">>, <<Plain("bookl1")>>>>}
  \cup {<<<<"candle", p[2]>>, <<Feed("kline", Parsed(HyperliquidWords, p[2]))>>>> : p \in HyperliquidWords}
=============================================================================
