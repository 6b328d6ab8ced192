---------------------------- MODULE VenueAccounts ----------------------------
(***************************************************************************)
(* The positions and balances of one account: read once over REST when the *)
(* OMS is built (base/oms.py), kept by the private stream after that, and  *)
(* held in memory by the cache.  Nothing is read again at a reconnection.  *)
(*                                                                         *)
(* A position of the venue is a signed number of its units; the cache has  *)
(* one in the units orders are placed in.  One asset is the base of the    *)
(* spot market, the other its quote.                                       *)
(***************************************************************************)
EXTENDS Integers, FiniteSets, SequencesExt

CONSTANTS
  Accounts,       \* pairs of a venue and a kind of account
  ProductOf,      \* what each symbol is: a function on the symbols
  ContractSize,   \* OKX: base units of one contract, a function on the symbols
  Known,          \* the symbols exchange.market_id was loaded with
  FillSize, Fee,  \* of a fill on the spot market, whose price is 1
  Profits,        \* unrealized profits of an asset when the OMS is built
  MaxSize,        \* bound: units of a position
  MaxTotal,       \* bound: units of an asset
  MaxWire,        \* bound: frames under way
  MaxMoves,       \* bound: changes at the venue
  MaxRetry,       \* failures in a row after which a listen key is given up
  KeyLife         \* keep-alives an unattended key lives for

Symbols     == DOMAIN ProductOf
AllAccounts == {"binance"} \X {"spot", "linear", "inverse", "pm"}
               \cup {<<"okx", "unified">>, <<"bybit", "unified">>, <<"hyperliquid", "all">>}
               \cup {"bitget"} \X {"spot", "futures", "uta"}
Assets      == {"base", "quote"}
NoSymbol    == "none"

ASSUME AccountsAssumption ==
  /\ Accounts \subseteq AllAccounts
  /\ ProductOf \in [Symbols -> {"usdt", "usdc", "inverse", "option", "spot"}]
  /\ ContractSize \in [Symbols -> Nat \ {0}]
  /\ IsFiniteSet(Symbols) /\ Symbols \cap (Assets \cup {NoSymbol}) = {}
  /\ \A s, t \in Symbols : ProductOf[s] = "spot" /\ ProductOf[t] = "spot" => s = t
  /\ Known \subseteq Symbols /\ \A s \in Known : ProductOf[s] # "option"
  /\ Profits \subseteq Int
  /\ Fee \in Nat /\ FillSize \in Nat /\ Fee < FillSize
  /\ MaxSize \in Nat /\ MaxTotal \in Nat /\ MaxSize <= MaxTotal
  /\ MaxWire \in Nat /\ MaxMoves \in Nat /\ MaxRetry \in Nat /\ KeyLife \in Nat

VARIABLES
  account,
  hedged,         \* the account is in hedge mode at the venue
  stage,          \* "down", "built", "refused" (the OMS could not be built)
  connected,      \* the private stream is up
  keyFailures,    \* failures in a row to keep the listen key of Binance alive
  keyExpired,
  positions,      \* at the venue
  wallets,        \* at the venue: total and locked of each asset in each wallet
  wire,           \* frames under way
  cache,          \* [positions, balances] of the cache
  lost,           \* symbols and assets the cache has not what the stream tells
                  \* of them: their last change never reached it, or the start
                  \* read something else
  moves

venue == <<account, hedged, positions, wallets, moves>>
key   == <<keyFailures, keyExpired>>
vars  == <<venue, stage, connected, key, wire, cache, lost>>

V == account[1]
IsPm       == account = <<"binance", "pm">>
IsSnapshot == account = <<"bitget", "futures">>     \* frames list all open positions

-----------------------------------------------------------------------------
(* What an account trades, and in which units.                              *)

Tradable == {s \in Symbols :
  LET p == ProductOf[s] IN
  CASE account[2] = "spot"    -> FALSE
    [] account[2] = "linear"  -> p \in {"usdt", "usdc"}
    [] account[2] = "inverse" -> p = "inverse"
    [] V = "hyperliquid"      -> p \in {"usdc", "spot"}
    [] V = "bybit"            -> p # "spot"
    [] OTHER                  -> p \notin {"spot", "option"}}
Held == {s \in Tradable : ProductOf[s] # "spot"}

Wallets == IF IsPm THEN {"margin", "um", "cm"} ELSE {"cash"}
Unit(s) == IF V = "okx" THEN ContractSize[s] ELSE 1

\* The suffix a venue's raw symbol has in market_id.
Suffix(p) == CASE p = "inverse" -> "_inverse" [] p \in {"usdt", "usdc"} -> "_linear"
               [] OTHER -> "_" \o p
MarketId(s, suffix) == IF s \in Known /\ suffix = Suffix(ProductOf[s]) THEN s ELSE NoSymbol
RawMarketId(s)      == IF s \in Known THEN s ELSE NoSymbol

-----------------------------------------------------------------------------
(* The cache.                                                               *)

\* dict.pop and dict.update.
Drop(f, x)    == [y \in DOMAIN f \ {x} |-> f[y]]
Updated(f, g) == [y \in DOMAIN f \cup DOMAIN g |-> IF y \in DOMAIN g THEN g[y] ELSE f[y]]

\* _apply_position: a position that is closed leaves the cache.
ApplyPosition(c, s, amount) ==
  [c EXCEPT !.positions = IF amount = 0 THEN Drop(@, s) ELSE Updated(@, [x \in {s} |-> amount])]
\* A message has what is free and locked of some assets.
ApplyBalances(c, told) == [c EXCEPT !.balances = Updated(@, told)]

EmptyCache == [positions |-> <<>>, balances |-> <<>>]
Cached(s) == IF s \in DOMAIN cache.positions THEN cache.positions[s] ELSE 0
CachedTotal(a) == cache.balances[a].free + cache.balances[a].locked

-----------------------------------------------------------------------------
(* What the venues report.  A position is a signed number, or a side with a *)
(* size; a fill of Hyperliquid has what was held before it and its own size.*)

IsSpot(s)      == ProductOf[s] = "spot"
Abs(n)         == IF n < 0 THEN -n ELSE n
SideOf(amount) == IF amount = 0 THEN "flat" ELSE IF amount > 0 THEN "long" ELSE "short"

NetReport(s, amount)   == [symbol |-> s, side |-> "net", size |-> amount]
SidedReport(s, amount) == [symbol |-> s, side |-> SideOf(amount), size |-> Abs(amount)]
Fill(s, before, after) ==
  [symbol |-> s, side |-> SideOf(after - before), start |-> before,
   size |-> IF IsSpot(s) THEN FillSize ELSE Abs(after - before)]

Report(s, before, after) ==
  CASE V \in {"binance", "okx"} -> NetReport(s, after)
    [] V = "hyperliquid"        -> Fill(s, before, after)
    [] OTHER                    -> SidedReport(s, after)

\* parse_to_position_side, and the negation of SHORT.
Signed(e) == IF e.side = "short" THEN -e.size ELSE e.size

\* What is read of an asset's report.
Parsed(w) == [free |-> w.total - w.locked, locked |-> w.locked]
\* ACCOUNT_UPDATE of Binance has the wallet's total only.
ParsedUpdate(w) == [free |-> w.total, locked |-> 0]

TotalOf(a) ==
  LET has == wallets[a]
  IN  IF IsPm THEN has["margin"].total + has["um"].total + has["cm"].total
      ELSE has["cash"].total
LockedOf(a) == wallets[a][IF IsPm THEN "margin" ELSE "cash"].locked

\* An entry is read under the id its symbol has, and changes a position in the
\* units of orders; one without an id is passed over.
ApplyEntry(c, e) ==
  IF e.symbol = NoSymbol THEN c ELSE ApplyPosition(c, e.symbol, Signed(e) * Unit(e.symbol))
ApplyEntries(c, es) == FoldLeft(ApplyEntry, c, es)
Named(es, id) == [i \in DOMAIN es |-> [es[i] EXCEPT !.symbol = id[i]]]
\* An exception, or a return, at the first without one leaves the rest unread.
Taken(es, id) ==
  SubSeq(Named(es, id), 1, Min({i \in DOMAIN es : id[i] = NoSymbol} \cup {Len(es) + 1}) - 1)

-----------------------------------------------------------------------------
(* The OMS is built: balances, then positions, then the check of the mode.  *)
(* "listed" are the positions the answer has, the flat ones of some symbols *)
(* among them.                                                              *)

\* Binance's linear and inverse accounts are read with the margin balance of
\* each asset, the profit of the open positions in it; the stream has the wallet.
ReadsMargin == account \in {<<"binance", "linear">>, <<"binance", "inverse">>}
MarginProfits ==
  {p \in [Assets -> Profits] :
     (\E a \in Assets : p[a] # 0) => ReadsMargin /\ \E s \in Held : positions[s] # 0}

\* _init_account_balance; Bitget waits for the stream.
InitBalances(c, profit) ==
  IF V = "bitget" THEN c
  ELSE ApplyBalances(c, [a \in Assets |->
         Parsed([total |-> TotalOf(a) + profit[a], locked |-> LockedOf(a)])])

ListedReport(s) == IF V \in {"bybit", "bitget"} THEN SidedReport(s, positions[s])
                   ELSE NetReport(s, positions[s])
ApplyListed(c, read) ==
  LET q == SetToSeq(read)
  IN  ApplyEntries(c, [i \in DOMAIN q |-> ListedReport(q[i])])

\* BinanceOms._apply_position: under the suffix of the account, or of the
\* request for a portfolio margin account; symbols not known are passed over.
BinanceInit(c, listed) ==
  LET Suffixed(s) == MarketId(s, CASE account[2] = "linear"  -> "_linear"
                                   [] account[2] = "inverse" -> "_inverse"
                                   [] OTHER -> Suffix(ProductOf[s]))
  IN  ApplyListed(c, {s \in listed : Suffixed(s) # NoSymbol /\ positions[s] # 0})

OkxInit(c, listed)         == ApplyListed(c, {s \in listed : RawMarketId(s) # NoSymbol})
BybitInit(c, listed)       == ApplyListed(c, listed)
BitgetInit(c, listed)      == ApplyListed(c, {s \in listed : s \in Known /\ positions[s] # 0})
HyperliquidInit(c, listed) ==
  ApplyListed(c, {s \in listed : RawMarketId(s) # NoSymbol /\ positions[s] # 0})

InitPositions(c, listed) ==
  CASE V = "binance" -> BinanceInit(c, listed) [] V = "okx" -> OkxInit(c, listed)
    [] V = "bybit" -> BybitInit(c, listed)     [] V = "bitget" -> BitgetInit(c, listed)
    [] OTHER -> HyperliquidInit(c, listed)

\* An exception: Binance and OKX ask for the mode, the others see it in the
\* positions that are listed; Bybit has no symbol for one it does not know.
ModeRefused(listed) ==
  /\ hedged
  /\ CASE V \in {"binance", "okx"} -> TRUE
       [] account = <<"bitget", "uta">> -> \E s \in listed : positions[s] # 0
       [] OTHER -> listed # {}
Refused(listed) == \/ ModeRefused(listed)
                   \/ V = "bybit" /\ ~(listed \subseteq Known)

Unread == IF V = "bitget" THEN Assets ELSE {}

Build ==
  /\ stage = "down"
  /\ \E listed \in SUBSET {s \in Held : ProductOf[s] # "option"}, profit \in MarginProfits :
       /\ {s \in Held : positions[s] # 0 /\ ProductOf[s] # "option"} \subseteq listed
       /\ stage' = IF Refused(listed) THEN "refused" ELSE "built"
       /\ cache' = IF Refused(listed) THEN cache
                   ELSE InitPositions(InitBalances(cache, profit), listed)
       /\ lost' = Unread \cup {a \in Assets : profit[a] # 0}
  /\ UNCHANGED <<venue, connected, key, wire>>

-----------------------------------------------------------------------------
(* The private stream.                                                      *)

\* The symbols and assets a frame tells of.
Mentions(f) ==
  {f.positions[i].symbol : i \in DOMAIN f.positions}
  \cup DOMAIN f.balances
  \cup (IF f.snapshot = "none" THEN {} ELSE {s \in Held : ProductOf[s] = f.snapshot})
  \cup (IF \E i \in DOMAIN f.positions : IsSpot(f.positions[i].symbol)
        THEN Assets ELSE {})

Listening == connected /\ ~keyExpired
Send(f) ==
  IF Listening THEN wire' = Append(wire, f) /\ UNCHANGED lost
  ELSE lost' = lost \cup Mentions(f) /\ UNCHANGED wire

Frame(ps, bs, snapshot) == [positions |-> ps, balances |-> bs, snapshot |-> snapshot]

HeldOf(s) == IF IsSpot(s) THEN wallets["base"]["cash"].total ELSE positions[s]
AmountsAfter(s) ==
  IF IsSpot(s) THEN {HeldOf(s) + FillSize - Fee, HeldOf(s) - FillSize} \cap 0..MaxTotal
  ELSE (-MaxSize..MaxSize) \ {positions[s]}

\* One or two positions change, at Binance and on Bitget's snapshots in one
\* product.  Binance tells of the balance in the same frame, and Bitget of all
\* the open positions of the product.
Changes ==
  {q \in UNION {[1..n -> Tradable] : n \in 1..2} :
     /\ IsInjective(q)
     /\ (V = "binance" \/ IsSnapshot) =>
          \A i, j \in DOMAIN q : Suffix(ProductOf[q[i]]) = Suffix(ProductOf[q[j]])
     /\ IsSnapshot => \A i, j \in DOMAIN q : ProductOf[q[i]] = ProductOf[q[j]]}

Paid(w) == [total |-> w.total - 1, locked |-> 0]
WalletOf(s) == IF ~IsPm THEN "cash" ELSE IF ProductOf[s] = "inverse" THEN "cm" ELSE "um"

Trade ==
  /\ ~hedged /\ stage # "refused" /\ moves < MaxMoves /\ Len(wire) < MaxWire
  /\ \E q \in Changes : \E after \in [DOMAIN q -> -MaxSize..MaxTotal] :
       LET reports == [i \in DOMAIN q |-> Report(q[i], HeldOf(q[i]), after[i])]
           bought  == {i \in DOMAIN q : IsSpot(q[i])}
           product == ProductOf[q[1]]
           w       == WalletOf(q[1])
       IN
       /\ \A i \in DOMAIN q : after[i] \in AmountsAfter(q[i])
       /\ positions' = [s \in DOMAIN positions |->
            IF \E i \in DOMAIN q : q[i] = s /\ ~IsSpot(s)
            THEN after[CHOOSE i \in DOMAIN q : q[i] = s] ELSE positions[s]]
       /\ \/ /\ V = "binance"
             /\ wallets["quote"][w].total > 0
             /\ wallets' = [wallets EXCEPT !["quote"][w] = Paid(@)]
             /\ Send(Frame(reports, [a \in {"quote"} |-> ParsedUpdate(wallets'["quote"][w])],
                  "none"))
          \/ /\ IsSnapshot
             /\ UNCHANGED wallets
             /\ \E open \in SetToSeqs({s \in Held : ProductOf[s] = product /\ positions'[s] # 0}) :
                  Send(Frame([i \in DOMAIN open |-> SidedReport(open[i], positions'[open[i]])],
                             <<>>, product))
          \/ /\ V # "binance" /\ ~IsSnapshot /\ bought = {}
             /\ UNCHANGED wallets
             /\ Send(Frame(reports, <<>>, "none"))
          \/ \E i \in bought :
               LET buys == after[i] > HeldOf(q[i])
                   paid == wallets["quote"]["cash"].total
                             + IF buys THEN -FillSize ELSE FillSize - Fee
               IN
               /\ paid \in 0..MaxTotal
               /\ wallets' = [wallets EXCEPT !["base"]["cash"] = [total |-> after[i], locked |-> 0],
                                             !["quote"]["cash"] = [total |-> paid, locked |-> 0]]
               /\ Send(Frame(reports, <<>>, "none"))
  /\ moves' = moves + 1
  /\ UNCHANGED <<account, hedged, stage, connected, key, cache>>

\* A deposit, a withdrawal, or an order that locks or frees an asset.
\* Hyperliquid tells of fills only.
Transfer ==
  /\ stage # "refused" /\ moves < MaxMoves /\ Len(wire) < MaxWire
  /\ V = "hyperliquid" => wire = <<>>
  /\ \E a \in Assets, w \in Wallets, locked \in 0..1 :
       \E total \in {wallets[a][w].total, wallets[a][w].total + 1} \cap 1..MaxTotal :
       /\ [total |-> total, locked |-> locked] # wallets[a][w]
       /\ wallets' = [wallets EXCEPT ![a][w] = [total |-> total, locked |-> locked]]
       /\ IF V = "hyperliquid" THEN lost' = lost \cup {a} /\ UNCHANGED wire
          ELSE Send(Frame(<<>>, [x \in {a} |->
                                   IF V = "binance" /\ account[2] # "spot" /\ w # "margin"
                                   THEN ParsedUpdate(wallets'[a][w])
                                   ELSE Parsed(wallets'[a][w])], "none"))
  /\ moves' = moves + 1
  /\ UNCHANGED <<account, hedged, positions, stage, connected, key, cache>>

-----------------------------------------------------------------------------
(* A frame is handled: its balances first, then its positions.              *)

Applied(c, f, es) == ApplyEntries(ApplyBalances(c, f.balances), es)

\* _parse_account_update, _parse_out_bound_account_position: under the suffix
\* of the account or of the business unit.
BinanceHandle(c, f) ==
  LET suffix(s) == CASE account[2] = "linear"  -> "_linear"
                     [] account[2] = "inverse" -> "_inverse"
                     [] OTHER -> IF ProductOf[s] = "inverse" THEN "_inverse" ELSE "_linear"
      id == [i \in DOMAIN f.positions |->
               MarketId(f.positions[i].symbol, suffix(f.positions[i].symbol))]
  IN  Applied(c, f, Taken(f.positions, id))

\* _handle_positions, _handle_account
OkxHandle(c, f) ==
  LET id == [i \in DOMAIN f.positions |-> RawMarketId(f.positions[i].symbol)]
  IN  Applied(c, f, Named(f.positions, id))

\* _parse_position_update: an entry neither linear nor inverse goes by the id
\* of the entry before it, and the first has none.
BybitHandle(c, f) ==
  LET es       == f.positions
      named(i) == {j \in 1..i : ProductOf[es[j].symbol] \in {"usdt", "usdc", "inverse"}}
      id       == [i \in DOMAIN es |->
                     IF named(i) = {} THEN NoSymbol
                     ELSE LET s == es[Max(named(i))].symbol IN MarketId(s, Suffix(ProductOf[s]))]
  IN  Applied(c, f, Taken(es, id))

\* _handle_uta_position_event, _handle_uta_account_event
BitgetUtaHandle(c, f) ==
  LET suffix(s) == IF ProductOf[s] \in {"usdt", "usdc"} THEN "_linear" ELSE "_inverse"
      id == [i \in DOMAIN f.positions |->
               MarketId(f.positions[i].symbol, suffix(f.positions[i].symbol))]
  IN  Applied(c, f, Named(f.positions, id))

\* Mutant: a position a snapshot no longer lists is kept.
BitgetHandleKeepsAbsent(c, f) ==
  LET id == [i \in DOMAIN f.positions |-> MarketId(f.positions[i].symbol, Suffix(f.snapshot))]
  IN  Applied(c, f, Taken(f.positions, id))

\* _handle_positions_event: the positions listed, then those of the product
\* that were in the cache and are not listed are closed.
BitgetHandle(c, f) ==
  LET es     == f.positions
      id     == [i \in DOMAIN es |-> MarketId(es[i].symbol, Suffix(f.snapshot))]
      listed == Applied(c, f, Taken(es, id))
      closed == SetToSeq({s \in DOMAIN c.positions : ProductOf[s] = f.snapshot}
                           \ {es[i].symbol : i \in DOMAIN es})
  IN  IF \E i \in DOMAIN es : id[i] = NoSymbol THEN listed
      ELSE ApplyEntries(listed, [i \in DOMAIN closed |-> NetReport(closed[i], 0)])

\* Mutant: a fill costs nothing.
HyperliquidFillWithoutFee(c, e) ==
  IF ~IsSpot(e.symbol) THEN ApplyPosition(c, e.symbol, e.start + Signed(e))
  ELSE LET quote == c.balances["quote"].free + c.balances["quote"].locked
       IN  ApplyBalances(c, [a \in Assets |->
             [locked |-> 0,
               free |-> IF a = "base" THEN e.start + Signed(e) ELSE quote - Signed(e)]])

\* _parse_user_events: a fill of a spot market changes two balances, the
\* quote's by what the cache has of it.
HyperliquidFill(c, e) ==
  LET sz   == Signed(e)
      buys  == e.side = "long"
      quote == c.balances["quote"].free + c.balances["quote"].locked
  IN
  IF ~IsSpot(e.symbol) THEN ApplyPosition(c, e.symbol, e.start + sz)
  ELSE ApplyBalances(c, [a \in Assets |->
         [locked |-> 0, free |-> IF a = "base" THEN e.start + sz - IF buys THEN Fee ELSE 0
                                 ELSE quote - sz - IF buys THEN 0 ELSE Fee]])
ApplyFills(c, es) == FoldLeft(HyperliquidFill, c, es)
HyperliquidHandle(c, f) ==
  LET id == [i \in DOMAIN f.positions |-> RawMarketId(f.positions[i].symbol)]
  IN  ApplyFills(c, Taken(f.positions, id))

Handled(c, f) ==
  CASE V = "binance" -> BinanceHandle(c, f)
    [] V = "okx"     -> OkxHandle(c, f)
    [] V = "bybit"   -> BybitHandle(c, f)
    [] V = "bitget"  -> IF account[2] = "uta" THEN BitgetUtaHandle(c, f) ELSE BitgetHandle(c, f)
    [] OTHER         -> HyperliquidHandle(c, f)

\* What a frame tells of to no effect: at OKX and on a unified account of
\* Bitget the symbols not known, elsewhere also what is behind them, and all of
\* a frame with an option.  One wallet of a portfolio margin account stands for
\* the three, and the quote of Hyperliquid is never told of again.
Missed(f) ==
  LET es == f.positions
      skipped == {i \in DOMAIN es : es[i].symbol \notin Known}
      behind  == {i \in DOMAIN es : \E j \in skipped : j <= i}
      unread  == CASE V = "okx" -> skipped
                   [] account = <<"bitget", "uta">> -> skipped
                   [] \E i \in DOMAIN es : ProductOf[es[i].symbol] = "option" -> DOMAIN es
                   [] OTHER -> behind
      missed  == {es[i].symbol : i \in unread}
  IN  missed \cup (IF IsPm THEN DOMAIN f.balances ELSE {})
        \cup (IF \E s \in missed : IsSpot(s) THEN Assets ELSE {})
        \cup (IF V = "hyperliquid" THEN lost \cap {"quote"} ELSE {})
        \cup (IF IsSnapshot /\ skipped # {}
              THEN Mentions(f) \ {es[i].symbol : i \in DOMAIN es \ behind} ELSE {})

Handle ==
  /\ wire # <<>> /\ stage = "built"
  /\ cache' = Handled(cache, Head(wire))
  /\ lost' = (lost \ Mentions(Head(wire))) \cup Missed(Head(wire))
  /\ wire' = Tail(wire)
  /\ UNCHANGED <<venue, stage, connected, key>>

\* PrivateConnector.connect, and the reconnections of its client.
Connect ==
  /\ stage = "built" /\ ~connected
  /\ connected' = TRUE
  /\ UNCHANGED <<venue, stage, key, wire, cache, lost>>

AllMentioned == UNION {Mentions(wire[i]) : i \in DOMAIN wire}
Disconnect ==
  /\ connected
  /\ connected' = FALSE /\ wire' = <<>> /\ lost' = lost \cup AllMentioned
  /\ UNCHANGED <<venue, stage, key, cache>>

\* _keep_alive_user_data_stream: every twenty minutes, until MaxRetry failures
\* in a row; a key lives for an hour.  It is never asked for again.
HasKey == V = "binance" /\ account[2] # "spot"
KeepAlive ==
  /\ HasKey /\ stage = "built" /\ keyFailures < MaxRetry
  /\ \/ keyFailures' = 0 /\ ~keyExpired
     \/ keyFailures' = keyFailures + 1
  /\ UNCHANGED <<venue, stage, connected, keyExpired, wire, cache, lost>>
KeyExpires ==
  /\ HasKey /\ keyFailures >= KeyLife /\ ~keyExpired /\ wire = <<>>
  /\ keyExpired' = TRUE
  /\ UNCHANGED <<venue, stage, connected, keyFailures, wire, cache, lost>>

\* The process stops, or is killed, and starts again with an empty cache.
Restart ==
  /\ stage # "down"
  /\ stage' = "down" /\ connected' = FALSE /\ wire' = <<>> /\ lost' = {}
  /\ cache' = EmptyCache /\ keyFailures' = 0 /\ keyExpired' = FALSE
  /\ UNCHANGED venue

Init ==
  /\ account \in Accounts
  /\ hedged \in IF V = "hyperliquid" \/ Held = {} THEN {FALSE} ELSE BOOLEAN
  /\ stage = "down" /\ connected = FALSE /\ keyFailures = 0 /\ keyExpired = FALSE
  /\ positions \in {p \in [Symbols -> -MaxSize..MaxSize] : \A s \in Symbols \ Held : p[s] = 0}
  /\ wallets = [a \in Assets |-> [w \in Wallets |-> [total |-> 2, locked |-> 1]]]
  /\ wire = <<>> /\ cache = EmptyCache /\ lost = {} /\ moves = 0

Next == \/ Build \/ Trade \/ Transfer \/ Handle \/ Connect \/ Disconnect
        \/ KeepAlive \/ KeyExpires \/ Restart
Spec == Init /\ [][Next]_vars

-----------------------------------------------------------------------------
(* Properties.                                                              *)

\* Once the frames under way are handled, the cache has the position the venue
\* has of every known symbol, in the units of orders: through openings, closings
\* and turns, on every kind of account, a start or a reconnection in between.
\* What was lost in a gap of the stream or behind an unreadable entry is excepted.
PositionsFollowVenue ==
  stage = "built" /\ wire = <<>> =>
    /\ \A s \in (Held \cap Known) \ lost : Cached(s) = positions[s] * Unit(s)
    /\ DOMAIN cache.positions \subseteq Held \cap Known

\* The same of what an asset's free and locked add up to, at Binance's futures
\* accounts of the wallet's balance: a profit read with it at the start stays in
\* the cache until a frame tells of the asset, and is excepted until then.
BalancesFollowVenue ==
  stage = "built" /\ wire = <<>> =>
    \A a \in Assets \ lost : CachedTotal(a) = TotalOf(a)
=============================================================================
