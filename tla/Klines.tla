-------------------------------- MODULE Klines --------------------------------
(***************************************************************************)
(* The klines a connector builds itself from a symbol's trades             *)
(* (aggregation.py): one TimeKlineAggregator, whose timer fires at every   *)
(* interval, and one VolumeKlineAggregator, fed by the same trades.        *)
(* Prices and sizes are whole numbers: the rounding of floats is left out. *)
(***************************************************************************)
EXTENDS Integers, Sequences, FiniteSets, SequencesExt, FiniteSetsExt

CONSTANTS
  Prices, Sizes,
  Threshold,           \* volume_threshold
  MaxTime, MaxTrades   \* bounds: intervals, trades

ASSUME KlinesAssumption ==
  /\ Prices \subseteq Nat \ {0} /\ Sizes \subseteq Nat \ {0}
  /\ Threshold \in Nat \ {0}
  /\ MaxTime \in Nat /\ MaxTrades \in Nat

VARIABLES
  volumeType,           \* "DEFAULT", "BUY" or "SELL"
  buildWithNoUpdates,   \* build_with_no_updates
  late,                 \* TRUE: a trade came after one with a later timestamp
  timeBuilder, volumeBuilder,   \* the KlineBuilder of each aggregator
  timeBars, volumeBars,         \* the klines the last step published
  sent,                         \* volume and buy volume published by each
  now, trades

vars == <<volumeType, buildWithNoUpdates, late, timeBuilder, volumeBuilder, timeBars, volumeBars, sent,
          now, trades>>

Nothing == 0   \* None as a price
Sides == {"BUY", "SELL"}

NewBuilder ==
  [open |-> Nothing, high |-> Nothing, low |-> Nothing, close |-> Nothing,
   lastClose |-> Nothing, volume |-> 0, buyVolume |-> 0, count |-> 0,
   initialized |-> FALSE, tsLast |-> 0]

\* KlineBuilder.update drops what is older than the last trade it took.
Takes(b, trade) == trade.timestamp >= b.tsLast /\ trade.price > 0

Update(b, trade) ==
  IF ~ Takes(b, trade) THEN b
  ELSE LET first == b.open = Nothing
       IN  [b EXCEPT !.open = IF first THEN trade.price ELSE @,
                     !.high = IF first \/ trade.price > @ THEN trade.price ELSE @,
                     !.low = IF first \/ trade.price < @ THEN trade.price ELSE @,
                     !.close = trade.price,
                     !.volume = @ + trade.size,
                     !.buyVolume = @ + (IF trade.side = "BUY" THEN trade.size ELSE 0),
                     !.count = @ + 1,
                     !.initialized = TRUE,
                     !.tsLast = trade.timestamp]

\* The kline of a builder: flat at the last close if it took no trade.
Kline(b) ==
  LET flat == b.open = Nothing
      close == IF flat THEN b.lastClose ELSE b.close
  IN  [open |-> IF flat THEN b.lastClose ELSE b.open,
       high |-> IF flat THEN close ELSE Max({b.high, close}),
       low |-> IF flat THEN close ELSE Min({b.low, close}),
       close |-> close, volume |-> b.volume, buyVolume |-> b.buyVolume]

\* KlineBuilder.build's last lines and reset.
Reset(b) ==
  [b EXCEPT !.open = Nothing, !.high = Nothing, !.low = Nothing,
            !.close = Kline(b).close, !.lastClose = Kline(b).close,
            !.volume = 0, !.buyVolume = 0, !.count = 0]

-----------------------------------------------------------------------------
(* VolumeKlineAggregator.                                                   *)

\* Mutant: the rest of a trade that closes a bar is given up.
PiecesOneBar(size, volume) == <<Min({size, Threshold - volume})>>

\* Mutant: a trade is never split.
PiecesUnsplit(size, volume) == <<size>>

\* The loop of _apply_update: what is missing to the threshold, whole
\* thresholds, and a rest below it.
Pieces(size, volume) ==
  LET missing == Threshold - volume
      rest == size - missing
  IN  IF rest < 0 THEN <<size>>
      ELSE <<missing>> \o [i \in 1 .. rest \div Threshold |-> Threshold]
           \o (IF rest % Threshold > 0 THEN <<rest % Threshold>> ELSE <<>>)

\* One turn of the loop; the kline is built whether or not the builder took
\* the piece, unless it never took any.
Apply(state, trade, piece) ==
  LET b == Update(state.builder, [trade EXCEPT !.size = piece])
      closes == state.builder.volume + piece >= Threshold
  IN  IF closes /\ b.initialized
      THEN [builder |-> Reset(b), bars |-> Append(state.bars, Kline(b))]
      ELSE [state EXCEPT !.builder = b]

WantedSide(trade) == volumeType \in {"DEFAULT", trade.side}

ApplyVolume(trade) ==
  IF ~ WantedSide(trade) THEN [builder |-> volumeBuilder, bars |-> <<>>]
  ELSE FoldLeft(LAMBDA state, piece : Apply(state, trade, piece),
                [builder |-> volumeBuilder, bars |-> <<>>],
                Pieces(trade.size, volumeBuilder.volume))

-----------------------------------------------------------------------------
(* The connector.                                                           *)

Total(amounts) == FoldLeft(LAMBDA total, amount : total + amount, 0, amounts)
VolumeOf(bars) == Total([i \in DOMAIN bars |-> bars[i].volume])
BuyVolumeOf(bars) == Total([i \in DOMAIN bars |-> bars[i].buyVolume])

KlinesInit ==
  /\ volumeType \in {"DEFAULT", "BUY", "SELL"} /\ buildWithNoUpdates \in BOOLEAN
  /\ late = FALSE
  /\ timeBuilder = NewBuilder /\ volumeBuilder = NewBuilder
  /\ timeBars = <<>> /\ volumeBars = <<>>
  /\ sent = [time |-> 0, timeBuy |-> 0, volume |-> 0]
  /\ now = 0 /\ trades = 0

\* _handle_trade_for_aggregators routes the trade to both.
HandleTrade(trade) ==
  /\ trades < MaxTrades /\ trades' = trades + 1
  /\ timeBuilder' = Update(timeBuilder, trade) /\ timeBars' = <<>>
  /\ LET after == ApplyVolume(trade)
     IN  /\ volumeBuilder' = after.builder
         /\ volumeBars' = after.bars
         /\ sent' = [sent EXCEPT !.volume = @ + VolumeOf(after.bars)]
  /\ late' = (late \/ trade.timestamp < now)
  /\ UNCHANGED <<volumeType, buildWithNoUpdates, now>>

\* The timer fires: _build_bar.
BuildBar ==
  /\ now < MaxTime /\ now' = now + 1
  /\ LET builds == /\ buildWithNoUpdates \/ timeBuilder.count > 0
                   /\ timeBuilder.initialized
         bars == IF builds THEN <<Kline(timeBuilder)>> ELSE <<>>
     IN  /\ timeBars' = bars
         /\ timeBuilder' = IF builds THEN Reset(timeBuilder) ELSE timeBuilder
         /\ sent' = [sent EXCEPT !.time = @ + VolumeOf(bars), !.timeBuy = @ + BuyVolumeOf(bars)]
  /\ volumeBars' = <<>>
  /\ UNCHANGED <<volumeType, buildWithNoUpdates, late, volumeBuilder, trades>>

\* A late trade carries the timestamp of the interval before.
Timestamps == IF now > 0 THEN {now - 1, now} ELSE {now}

KlinesNext ==
  \/ \E p \in Prices, z \in Sizes, s \in Sides, t \in Timestamps :
       HandleTrade([price |-> p, size |-> z, side |-> s, timestamp |-> t])
  \/ BuildBar

KlinesSpec == KlinesInit /\ [][KlinesNext]_vars

-----------------------------------------------------------------------------
(* Properties.                                                              *)

\* Every volume kline is published at its threshold, not below and not above,
\* however large the trade that closes it, as long as trades come in order: of
\* a late one the loop counts what the builder drops.
BarsAreFull == \A i \in DOMAIN volumeBars : ~ late => volumeBars[i].volume = Threshold

\* The two aggregators count the same trades: what one has published and still
\* holds, the other has too, of every side or of the side it selects.  With
\* both sides they also drop the same late trades.
AggregatorsAgree ==
  LET held == sent.volume + volumeBuilder.volume
      all == sent.time + timeBuilder.volume
      buys == sent.timeBuy + timeBuilder.buyVolume
  IN  ~ late \/ volumeType = "DEFAULT" => held = CASE volumeType = "DEFAULT" -> all
               [] volumeType = "BUY" -> buys
               [] volumeType = "SELL" -> all - buys
=============================================================================
