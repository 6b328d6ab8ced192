------------------------- MODULE VenueAccountsProofs -------------------------
(***************************************************************************)
(* Proofs about the positions and balances an OMS keeps of its account, on *)
(* every venue: for every set of symbols, products and contract sizes, any *)
(* number of frames under way, trades of any symbols, transfers, listen    *)
(* keys that expire and streams that break.                                *)
(*                                                                         *)
(* The first parts are about the handlers: whatever the venue, a frame     *)
(* leaves the cache where the frame has it, but for what it could not read *)
(* (HandledFollows).  The rest is about the steps: the last frame under    *)
(* way that tells of a position or an asset has it where the venue has it, *)
(* and if there is none the cache has, unless its last change was lost.    *)
(* The quote of Hyperliquid is told of by no frame; there the moves of the *)
(* frames under way, in order, lead from the cache to the venue.           *)
(***************************************************************************)
EXTENDS VenueAccounts, FoldLemmas, SequenceTheorems, FiniteSetTheorems

-----------------------------------------------------------------------------
(* What a cache and a frame are.                                            *)

Holdings == UNION {[D -> Int] : D \in SUBSET Symbols}
Purse    == [free : Int, locked : Int]
Purses   == UNION {[D -> Purse] : D \in SUBSET Assets}
Caches   == [positions : Holdings, balances : Purses]

Sides   == {"net", "flat", "long", "short"}
Ids     == Symbols \cup {NoSymbol}
Reports == [symbol : Ids, side : Sides, size : Int]
Fills   == [symbol : Ids, side : Sides, start : Int, size : Int]
Frames  == [positions : Seq(Reports \cup Fills), balances : Purses,
            snapshot : {"none", "usdt", "usdc", "inverse"}]

HeldIn(c, s)  == IF s \in DOMAIN c.positions THEN c.positions[s] ELSE 0
TotalIn(c, a) == c.balances[a].free + c.balances[a].locked

\* A symbol is told of once in a frame; a frame of Hyperliquid has fills only,
\* and a snapshot the positions of its product only.
GoodFrame(f) ==
  /\ \A i, j \in DOMAIN f.positions : f.positions[i].symbol = f.positions[j].symbol => i = j
  /\ \A i \in DOMAIN f.positions : f.positions[i].symbol \in Tradable
  /\ V = "hyperliquid" =>
       DOMAIN f.balances = {} /\ \A i \in DOMAIN f.positions : f.positions[i] \in Fills
  /\ IF IsSnapshot THEN \A i \in DOMAIN f.positions : ProductOf[f.positions[i].symbol] = f.snapshot
     ELSE f.snapshot = "none"

\* A frame has the position of a symbol at x; a fill has it by what was held
\* before, and a snapshot has at zero what it does not list.
Amount(e) == IF V = "hyperliquid" THEN e.start + Signed(e) ELSE Signed(e) * Unit(e.symbol)
Tells(f, s, x) ==
  /\ \A i \in DOMAIN f.positions : f.positions[i].symbol = s => Amount(f.positions[i]) = x
  /\ (\A i \in DOMAIN f.positions : f.positions[i].symbol # s) => x = 0

\* A frame has the total of an asset at x.
Bought(e) == e.start + Signed(e) - IF e.side = "long" THEN Fee ELSE 0
TellsTotal(f, a, x) ==
  /\ a \in DOMAIN f.balances => f.balances[a].free + f.balances[a].locked = x
  /\ \A i \in DOMAIN f.positions : IsSpot(f.positions[i].symbol) => Bought(f.positions[i]) = x

\* What a frame of Hyperliquid changes the quote by.
Paying(e) == 0 - Signed(e) - IF e.side = "long" THEN 0 ELSE Fee
Moves(f, d) ==
  /\ (\A i \in DOMAIN f.positions : ~ IsSpot(f.positions[i].symbol)) => d = 0
  /\ \A i \in DOMAIN f.positions : IsSpot(f.positions[i].symbol) => d = Paying(f.positions[i])

-----------------------------------------------------------------------------
(* The invariant.                                                           *)

Money  == [total : Int, locked : Int]
Wealth == [Assets -> [Wallets -> Money]]

AccountsTypeOK ==
  /\ account \in Accounts
  /\ positions \in [Symbols -> Int]
  /\ wallets \in Wealth
  /\ cache \in Caches
  /\ wire \in Seq(Frames)

\* Frames are under way only while the stream is up, and the stream only while
\* there is an OMS.
StreamOK ==
  /\ Listening \/ wire = <<>>
  /\ stage # "built" => ~ connected /\ cache = EmptyCache
  /\ stage = "built" /\ V = "hyperliquid" => DOMAIN cache.balances = Assets
  /\ DOMAIN cache.positions \subseteq Held \cap Known
  /\ \A i \in DOMAIN wire : GoodFrame(wire[i])

Silent(w, x) == \A i \in DOMAIN w : x \notin Mentions(w[i])
IsLast(w, i, x) == /\ x \in Mentions(w[i])
                   /\ \A j \in DOMAIN w : j > i => x \notin Mentions(w[j])

\* The last of the frames w that tells of a symbol has it at x; if none does, the
\* cache c has it there, or its last change was lost.
SymbolComes(w, c, l, s, x) ==
  /\ \A i \in DOMAIN w : IsLast(w, i, s) => Tells(w[i], s, x)
  /\ Silent(w, s) => s \in l \/ HeldIn(c, s) = x

\* The same of an asset, but for the wallets of a portfolio margin account, of
\* which a frame has one.
AssetComes(w, c, l, a, x) ==
  /\ ~ IsPm => \A i \in DOMAIN w : IsLast(w, i, a) => TellsTotal(w[i], a, x)
  /\ Silent(w, a) => a \in l \/ (a \in DOMAIN c.balances /\ TotalIn(c, a) = x)

\* The frames w take the quote of Hyperliquid from what the cache has of it to x.
QuoteComes(w, c, x) ==
  \E t \in [0 .. Len(w) -> Int] :
    /\ t[0] = TotalIn(c, "quote") /\ t[Len(w)] = x
    /\ \A i \in 1 .. Len(w) : Moves(w[i], t[i] - t[i - 1])

\* What wallets w have of an asset in all.
Total(w, a) == IF IsPm THEN w[a]["margin"].total + w[a]["um"].total + w[a]["cm"].total
               ELSE w[a]["cash"].total

PositionsComing(p, w, c, l) ==
  \A s \in Held \cap Known : SymbolComes(w, c, l, s, p[s] * Unit(s))

BalancesComing(has, w, c, l) ==
  \A a \in Assets : (V = "hyperliquid" => a = "base") => AssetComes(w, c, l, a, Total(has, a))

QuoteComing(has, w, c, l) ==
  V = "hyperliquid" /\ "quote" \notin l => QuoteComes(w, c, Total(has, "quote"))

AccountsInv ==
  /\ StreamOK
  /\ stage = "built" => /\ PositionsComing(positions, wire, cache, lost)
                        /\ BalancesComing(wallets, wire, cache, lost)
                        /\ QuoteComing(wallets, wire, cache, lost)
-----------------------------------------------------------------------------
(* The accounts there are.                                                  *)

\* An account is of its venue, and its wallets are those of its kind.
LEMMA AccountFacts ==
  ASSUME account \in Accounts
  PROVE  /\ account = <<V, account[2]>>
         /\ \/ V = "binance" /\ account[2] \in {"spot", "linear", "inverse", "pm"}
            \/ V \in {"okx", "bybit"} /\ account[2] = "unified"
            \/ V = "hyperliquid" /\ account[2] = "all"
            \/ V = "bitget" /\ account[2] \in {"spot", "futures", "uta"}
<1>1. account \in AllAccounts
  BY AccountsAssumption
<1>. QED BY <1>1 DEF AllAccounts, V

\* What an account may trade is nothing, or what its venue has.
LEMMA TradableFacts ==
  ASSUME account \in Accounts, NEW s \in Tradable
  PROVE  /\ s \in Symbols /\ s # NoSymbol /\ s \notin Assets
         /\ V # "hyperliquid" => ~ IsSpot(s) /\ s \in Held
         /\ V \notin {"bybit", "hyperliquid"} => ProductOf[s] \in {"usdt", "usdc", "inverse"}
         /\ V = "bybit" => ProductOf[s] \in {"usdt", "usdc", "inverse", "option"}
         /\ V = "hyperliquid" => ProductOf[s] \in {"usdc", "spot"}
         /\ account[2] = "linear" => ProductOf[s] \in {"usdt", "usdc"}
         /\ account[2] = "inverse" => ProductOf[s] = "inverse"
         /\ account[2] # "spot"
<1>1. /\ s \in Symbols /\ ProductOf[s] \in {"usdt", "usdc", "inverse", "option", "spot"}
      /\ s # NoSymbol /\ s \notin Assets
  BY AccountsAssumption DEF Tradable
<1>. DEFINE p == ProductOf[s]
            k == account[2]
<1>2. CASE k = "spot"
  <2>1. V \in {"binance", "bitget"}
    BY <1>2, AccountFacts
  <2>2. FALSE
    BY <1>2, <2>1 DEF Tradable
  <2>. QED BY <2>2
<1>3. CASE k = "linear"
  <2>1. p \in {"usdt", "usdc"} /\ V = "binance"
    BY <1>3, AccountFacts DEF Tradable
  <2>. QED BY <1>1, <1>3, <2>1 DEF Held, IsSpot
<1>4. CASE k = "inverse"
  <2>1. p = "inverse" /\ V = "binance"
    BY <1>4, AccountFacts DEF Tradable
  <2>. QED BY <1>1, <1>4, <2>1 DEF Held, IsSpot
<1>5. CASE k \notin {"spot", "linear", "inverse"} /\ V = "hyperliquid"
  <2>1. p \in {"usdc", "spot"}
    BY <1>5 DEF Tradable
  <2>. QED BY <1>1, <1>5, <2>1 DEF Held, IsSpot
<1>6. CASE k \notin {"spot", "linear", "inverse"} /\ V = "bybit"
  <2>1. p # "spot"
    BY <1>6 DEF Tradable
  <2>. QED BY <1>1, <1>6, <2>1 DEF Held, IsSpot
<1>7. CASE k \notin {"spot", "linear", "inverse"} /\ V \notin {"hyperliquid", "bybit"}
  <2>1. p \notin {"spot", "option"}
    BY <1>7 DEF Tradable
  <2>. QED BY <1>1, <1>7, <2>1 DEF Held, IsSpot
<1>. QED BY <1>2, <1>3, <1>4, <1>5, <1>6, <1>7

\* What is held as a position is no spot symbol and no asset.
LEMMA HeldFacts ==
  ASSUME account \in Accounts, NEW s \in Held
  PROVE  s \in Tradable /\ s \in Symbols /\ ~ IsSpot(s) /\ s \notin Assets
BY TradableFacts DEF Held, IsSpot

\* Only OKX counts positions in contracts of another size than one.
LEMMA UnitFacts ==
  ASSUME NEW s \in Symbols
  PROVE  Unit(s) \in Int /\ (V # "okx" => Unit(s) = 1)
BY AccountsAssumption DEF Unit

-----------------------------------------------------------------------------
(* Changes of the cache.                                                    *)

\* A function of symbols to integers is what a cache has of positions.
LEMMA HoldingsFacts ==
  ASSUME NEW h
  PROVE  h \in Holdings <=> /\ h = [y \in DOMAIN h |-> h[y]] /\ DOMAIN h \subseteq Symbols
                            /\ \A y \in DOMAIN h : h[y] \in Int
<1>1. ASSUME h \in Holdings
      PROVE  /\ h = [y \in DOMAIN h |-> h[y]] /\ DOMAIN h \subseteq Symbols
             /\ \A y \in DOMAIN h : h[y] \in Int
  BY <1>1 DEF Holdings
<1>2. ASSUME h = [y \in DOMAIN h |-> h[y]], DOMAIN h \subseteq Symbols,
             \A y \in DOMAIN h : h[y] \in Int
      PROVE  h \in Holdings
  <2>1. h \in [DOMAIN h -> Int]
    BY <1>2
  <2>. QED BY <1>2, <2>1 DEF Holdings
<1>. QED BY <1>1, <1>2

\* _apply_position: the position of one symbol is the amount, one of zero is gone,
\* and the rest stays.
LEMMA PositionApplied ==
  ASSUME NEW c \in Caches, NEW s \in Symbols, NEW x \in Int
  PROVE  LET r == ApplyPosition(c, s, x) IN
         /\ r \in Caches /\ r.balances = c.balances
         /\ DOMAIN r.positions \subseteq DOMAIN c.positions \cup {s}
         /\ HeldIn(r, s) = x /\ \A y : y # s => HeldIn(r, y) = HeldIn(c, y)
<1>. DEFINE h == c.positions
            k == IF x = 0 THEN Drop(h, s) ELSE Updated(h, [y \in {s} |-> x])
            r == ApplyPosition(c, s, x)
<1>1. h \in Holdings /\ c.balances \in Purses
  BY DEF Caches
<1>2. r = [c EXCEPT !.positions = k]
  BY DEF ApplyPosition
<1>3. r.positions = k /\ r.balances = c.balances /\ (k \in Holdings => r \in Caches)
  <2>. HIDE DEF k
  <2>. QED BY <1>2 DEF Caches
<1>4. /\ DOMAIN k \subseteq DOMAIN h \cup {s} /\ k = [y \in DOMAIN k |-> k[y]]
      /\ \A y \in DOMAIN k : k[y] = IF y = s THEN x ELSE h[y]
      /\ s \in DOMAIN k <=> x # 0
      /\ \A y \in DOMAIN h : y # s => y \in DOMAIN k
  BY DEF Drop, Updated
<1>5. /\ h = [y \in DOMAIN h |-> h[y]] /\ DOMAIN h \subseteq Symbols
      /\ \A y \in DOMAIN h : h[y] \in Int
  BY <1>1, HoldingsFacts
<1>. HIDE DEF k, h
<1>6. k \in Holdings
  BY <1>4, <1>5, HoldingsFacts
<1>7. HeldIn(r, s) = x /\ \A y : y # s => HeldIn(r, y) = HeldIn(c, y)
  <2>. HIDE DEF r
  <2>. QED BY <1>3, <1>4 DEF HeldIn, h
<1>. HIDE DEF r
<1>. QED BY <1>3, <1>4, <1>6, <1>7 DEF h, r

\* A function of assets to purses is what a cache has of balances.
LEMMA PursesFacts ==
  ASSUME NEW h
  PROVE  h \in Purses <=> /\ h = [y \in DOMAIN h |-> h[y]] /\ DOMAIN h \subseteq Assets
                          /\ \A y \in DOMAIN h : h[y] \in Purse
<1>1. ASSUME h \in Purses
      PROVE  /\ h = [y \in DOMAIN h |-> h[y]] /\ DOMAIN h \subseteq Assets
             /\ \A y \in DOMAIN h : h[y] \in Purse
  BY <1>1 DEF Purses
<1>2. ASSUME h = [y \in DOMAIN h |-> h[y]], DOMAIN h \subseteq Assets,
             \A y \in DOMAIN h : h[y] \in Purse
      PROVE  h \in Purses
  <2>1. h \in [DOMAIN h -> Purse]
    BY <1>2
  <2>. QED BY <1>2, <2>1 DEF Purses
<1>. QED BY <1>1, <1>2

\* _apply_balance: what is told of replaces what was there, and the rest stays.
LEMMA BalancesApplied ==
  ASSUME NEW c \in Caches, NEW told \in Purses
  PROVE  LET r == ApplyBalances(c, told) IN
         /\ r \in Caches /\ r.positions = c.positions
         /\ DOMAIN r.balances = DOMAIN c.balances \cup DOMAIN told
         /\ \A a \in DOMAIN r.balances :
              r.balances[a] = IF a \in DOMAIN told THEN told[a] ELSE c.balances[a]
<1>. DEFINE h == c.balances
            k == Updated(h, told)
            r == ApplyBalances(c, told)
<1>1. h \in Purses /\ c.positions \in Holdings
  BY DEF Caches
<1>2. r = [c EXCEPT !.balances = k]
  BY DEF ApplyBalances
<1>3. r.balances = k /\ r.positions = c.positions /\ (k \in Purses => r \in Caches)
  <2>. HIDE DEF k
  <2>. QED BY <1>2 DEF Caches
<1>4. /\ DOMAIN k = DOMAIN h \cup DOMAIN told /\ k = [y \in DOMAIN k |-> k[y]]
      /\ \A a \in DOMAIN k : k[a] = IF a \in DOMAIN told THEN told[a] ELSE h[a]
  BY DEF Updated
<1>. HIDE DEF k
<1>5. k \in Purses
  <2>1. /\ DOMAIN h \subseteq Assets /\ \A y \in DOMAIN h : h[y] \in Purse
        /\ DOMAIN told \subseteq Assets /\ \A y \in DOMAIN told : told[y] \in Purse
    BY <1>1, PursesFacts
  <2>. HIDE DEF h
  <2>2. DOMAIN k \subseteq Assets /\ \A y \in DOMAIN k : k[y] \in Purse
    BY <1>4, <2>1
  <2>. QED BY <1>4, <2>2, PursesFacts
<1>. HIDE DEF r
<1>. QED BY <1>3, <1>4, <1>5 DEF r, h

-----------------------------------------------------------------------------
(* Entries are applied one after the other.                                 *)

\* What a sequence of entries is read as.
Entries(es, n) ==
  /\ n \in Nat /\ DOMAIN es = 1 .. n
  /\ \A i \in 1 .. n : es[i].symbol \in Ids /\ Signed(es[i]) \in Int

\* An entry with an id changes the position of its symbol alone.
LEMMA EntryApplied ==
  ASSUME NEW c \in Caches, NEW e, e.symbol \in Ids, Signed(e) \in Int
  PROVE  LET r == ApplyEntry(c, e) IN
         /\ r \in Caches /\ r.balances = c.balances
         /\ DOMAIN r.positions \subseteq DOMAIN c.positions \cup ({e.symbol} \ {NoSymbol})
         /\ e.symbol # NoSymbol => HeldIn(r, e.symbol) = Signed(e) * Unit(e.symbol)
         /\ \A y : y # e.symbol => HeldIn(r, y) = HeldIn(c, y)
<1>1. CASE e.symbol = NoSymbol
  BY <1>1 DEF ApplyEntry
<1>2. CASE e.symbol # NoSymbol
  <2>1. e.symbol \in Symbols
    BY <1>2 DEF Ids
  <2>. DEFINE x == Signed(e) * Unit(e.symbol)
  <2>2. x \in Int
    <3>1. Unit(e.symbol) \in Int
      BY <2>1, UnitFacts
    <3>. QED BY <3>1
  <2>3. ApplyEntry(c, e) = ApplyPosition(c, e.symbol, x)
    BY <1>2 DEF ApplyEntry
  <2>. HIDE DEF x
  <2>4. LET r == ApplyPosition(c, e.symbol, x) IN
         /\ r \in Caches /\ r.balances = c.balances
         /\ DOMAIN r.positions \subseteq DOMAIN c.positions \cup {e.symbol}
         /\ HeldIn(r, e.symbol) = x /\ \A y : y # e.symbol => HeldIn(r, y) = HeldIn(c, y)
    BY <2>1, <2>2, PositionApplied
  <2>. QED BY <1>2, <2>3, <2>4 DEF x
<1>. QED BY <1>1, <1>2

\* The entries of a frame are applied one after the other.
LEMMA EntriesFold ==
  ASSUME NEW c \in Caches, NEW es, NEW n, Entries(es, n)
  PROVE  \E h : /\ h[0] = c /\ h[n] = ApplyEntries(c, es)
                /\ \A i \in 0 .. n : h[i] \in Caches
                /\ \A i \in 1 .. n : h[i] = ApplyEntry(h[i - 1], es[i])
<1>. DEFINE IsFold(g) == g = [s \in SUBSET DOMAIN es |->
                                IF s = {} THEN c ELSE ApplyEntry(g[s \ {Max(s)}], es[Max(s)])]
            h == CHOOSE g : IsFold(g)
            step == [p \in Caches \X (1 .. n) |-> ApplyEntry(p[1], es[p[2]])]
<1>1. n \in Nat /\ DOMAIN es = 1 .. n
  BY DEF Entries
<1>2. ApplyEntries(c, es) = h[DOMAIN es]
  BY DEF ApplyEntries, FoldLeft, MapThenFoldSet
<1>3. step \in [Caches \X (1 .. n) -> Caches]
  <2>1. ASSUME NEW d \in Caches, NEW i \in 1 .. n PROVE ApplyEntry(d, es[i]) \in Caches
    <3>1. es[i].symbol \in Ids /\ Signed(es[i]) \in Int
      BY DEF Entries
    <3>. QED BY <3>1, EntryApplied
  <2>. QED BY <2>1
<1>4. \A d \in Caches, i \in 1 .. n : step[<<d, i>>] = ApplyEntry(d, es[i])
  OBVIOUS
<1>5. \E g : IsFold(g)
  <2>. HIDE DEF step
  <2>1. PICK g \in [SUBSET (1 .. n) -> Caches] : IsMaxRecursion(g, n, c, step)
    BY <1>1, <1>3, MaxRecursion, Zenon
  <2>2. ASSUME NEW s \in SUBSET (1 .. n)
        PROVE  g[s] = IF s = {} THEN c ELSE ApplyEntry(g[s \ {Max(s)}], es[Max(s)])
    <3>1. CASE s = {}
      BY <2>1, <3>1 DEF IsMaxRecursion
    <3>2. CASE s # {}
      <4>1. Max(s) \in s
        BY <1>1, <3>2, MaxFacts
      <4>2. Max(s) \in 1 .. n /\ g[s \ {Max(s)}] \in Caches
        BY <2>1, <4>1
      <4>3. g[s] = step[<<g[s \ {Max(s)}], Max(s)>>]
        BY <2>1, <3>2 DEF IsMaxRecursion
      <4>. QED BY <1>4, <3>2, <4>2, <4>3
    <3>. QED BY <3>1, <3>2
  <2>3. IsFold(g)
    BY <1>1, <2>1, <2>2
  <2>. HIDE DEF IsFold
  <2>. QED BY <2>3
<1>6. IsFold(h)
  <2>. HIDE DEF IsFold
  <2>. QED BY <1>5
<1>. HIDE DEF h, step
<1>7. h[1 .. 0] = c
  <2>1. 1 .. 0 = {} /\ 1 .. 0 \in SUBSET (1 .. n)
    BY <1>1
  <2>. QED BY <1>1, <1>6, <2>1
<1>8. ASSUME NEW i \in 1 .. n PROVE h[1 .. i] = ApplyEntry(h[1 .. (i - 1)], es[i])
  <2>1. Max(1 .. i) = i /\ (1 .. i) \ {i} = 1 .. (i - 1)
    BY <1>1, MaxOfInterval
  <2>2. 1 .. i \in SUBSET (1 .. n) /\ 1 .. i # {}
    <3>1. i \in 1 .. i /\ \A x \in 1 .. i : x \in 1 .. n
      BY <1>1
    <3>. QED BY <3>1
  <2>3. h[1 .. i] = ApplyEntry(h[(1 .. i) \ {Max(1 .. i)}], es[Max(1 .. i)])
    BY <1>1, <1>6, <2>2
  <2>. QED BY <2>1, <2>3
<1>. HIDE DEF IsFold
<1>. DEFINE Done == {i \in Nat : i <= n => h[1 .. i] \in Caches}
<1>9. Nat \subseteq Done
  <2>1. 0 \in Done
    BY <1>7
  <2>2. ASSUME NEW i \in Nat, i \in Done PROVE i + 1 \in Done
    <3>1. ASSUME i + 1 <= n PROVE h[1 .. (i + 1)] \in Caches
      <4>1. i + 1 \in 1 .. n /\ (i + 1) - 1 = i /\ h[1 .. i] \in Caches
        BY <1>1, <2>2, <3>1
      <4>2. h[1 .. (i + 1)] = ApplyEntry(h[1 .. i], es[i + 1])
        BY <1>8, <4>1
      <4>3. es[i + 1].symbol \in Ids /\ Signed(es[i + 1]) \in Int
        BY <4>1 DEF Entries
      <4>. QED BY <4>1, <4>2, <4>3, EntryApplied
    <3>. QED BY <3>1
  <2>. HIDE DEF Done
  <2>. QED BY <2>1, <2>2, NatSetInduction
<1>. DEFINE k == [i \in 0 .. n |-> h[1 .. i]]
<1>10. k[0] = c /\ k[n] = ApplyEntries(c, es) /\ \A i \in 0 .. n : k[i] \in Caches
  BY <1>1, <1>2, <1>7, <1>9
<1>11. \A i \in 1 .. n : k[i] = ApplyEntry(k[i - 1], es[i])
  BY <1>1, <1>8
<1>. HIDE DEF k
<1>. QED BY <1>10, <1>11

\* The last entry of a symbol decides, the balances are left alone, and what no
\* entry is about stays.
LEMMA EntriesApplied ==
  ASSUME NEW c \in Caches, NEW es, NEW n, Entries(es, n)
  PROVE  LET r == ApplyEntries(c, es) IN
         /\ r \in Caches /\ r.balances = c.balances
         /\ \A y \in DOMAIN r.positions : y \notin DOMAIN c.positions =>
              \E i \in 1 .. n : es[i].symbol = y /\ y # NoSymbol
         /\ \A y : (\A i \in 1 .. n : es[i].symbol # y) => HeldIn(r, y) = HeldIn(c, y)
         /\ \A i \in 1 .. n :
              es[i].symbol # NoSymbol /\ (\A j \in 1 .. n : j > i => es[j].symbol # es[i].symbol)
                => HeldIn(r, es[i].symbol) = Signed(es[i]) * Unit(es[i].symbol)
<1>. DEFINE r == ApplyEntries(c, es)
<1>1. PICK h : /\ h[0] = c /\ h[n] = r
               /\ \A i \in 0 .. n : h[i] \in Caches
               /\ \A i \in 1 .. n : h[i] = ApplyEntry(h[i - 1], es[i])
  BY EntriesFold
<1>2. n \in Nat
  BY DEF Entries
<1>. DEFINE Holds(k) ==
              /\ h[k].balances = c.balances
              /\ \A y \in DOMAIN h[k].positions : y \notin DOMAIN c.positions =>
                   \E i \in 1 .. k : es[i].symbol = y /\ y # NoSymbol
              /\ \A y : (\A i \in 1 .. k : es[i].symbol # y) => HeldIn(h[k], y) = HeldIn(c, y)
              /\ \A i \in 1 .. k :
                   es[i].symbol # NoSymbol
                     /\ (\A j \in 1 .. k : j > i => es[j].symbol # es[i].symbol)
                     => HeldIn(h[k], es[i].symbol) = Signed(es[i]) * Unit(es[i].symbol)
            Done == {k \in Nat : k <= n => Holds(k)}
<1>3. Holds(0)
  BY <1>1
<1>4. ASSUME NEW k \in Nat, k + 1 <= n, Holds(k) PROVE Holds(k + 1)
  <2>. DEFINE e == es[k + 1]
              b == h[k + 1]
  <2>1. k + 1 \in 1 .. n /\ (k + 1) - 1 = k /\ k \in 0 .. n
    BY <1>2, <1>4
  <2>2. b = ApplyEntry(h[k], e) /\ h[k] \in Caches
    BY <1>1, <2>1
  <2>3. e.symbol \in Ids /\ Signed(e) \in Int
    BY <2>1 DEF Entries
  <2>. HIDE DEF e, b
  <2>4. /\ b.balances = h[k].balances
        /\ DOMAIN b.positions \subseteq DOMAIN h[k].positions \cup ({e.symbol} \ {NoSymbol})
        /\ e.symbol # NoSymbol => HeldIn(b, e.symbol) = Signed(e) * Unit(e.symbol)
        /\ \A y : y # e.symbol => HeldIn(b, y) = HeldIn(h[k], y)
    BY <2>2, <2>3, EntryApplied
  <2>5. \A i \in 1 .. k : i \in 1 .. (k + 1) /\ i < k + 1
    BY <1>4
  <2>6. k + 1 \in 1 .. (k + 1) /\ \A i \in 1 .. (k + 1) : i \in 1 .. k \/ i = k + 1
    BY <1>4
  <2>7. b.balances = c.balances
    BY <1>4, <2>4
  <2>8. ASSUME NEW y \in DOMAIN b.positions, y \notin DOMAIN c.positions
        PROVE  \E i \in 1 .. (k + 1) : es[i].symbol = y /\ y # NoSymbol
    <3>1. CASE y \in DOMAIN h[k].positions
      BY <1>4, <2>5, <2>8, <3>1
    <3>2. CASE y \notin DOMAIN h[k].positions
      <4>1. y = e.symbol /\ y # NoSymbol
        BY <2>4, <3>2
      <4>. QED BY <2>6, <4>1 DEF e
    <3>. QED BY <3>1, <3>2
  <2>9. ASSUME NEW y, \A i \in 1 .. (k + 1) : es[i].symbol # y
        PROVE  HeldIn(b, y) = HeldIn(c, y)
    <3>1. y # e.symbol /\ \A i \in 1 .. k : es[i].symbol # y
      BY <2>5, <2>6, <2>9 DEF e
    <3>. QED BY <1>4, <2>4, <3>1
  <2>10. ASSUME NEW i \in 1 .. (k + 1), es[i].symbol # NoSymbol,
                \A j \in 1 .. (k + 1) : j > i => es[j].symbol # es[i].symbol
         PROVE  HeldIn(b, es[i].symbol) = Signed(es[i]) * Unit(es[i].symbol)
    <3>1. CASE i = k + 1
      BY <2>4, <2>10, <3>1 DEF e
    <3>2. CASE i \in 1 .. k
      <4>1. k + 1 > i /\ \A j \in 1 .. k : j \in 1 .. (k + 1)
        BY <2>5, <3>2
      <4>2. es[i].symbol # e.symbol
        BY <2>6, <2>10, <4>1 DEF e
      <4>3. \A j \in 1 .. k : j > i => es[j].symbol # es[i].symbol
        BY <2>10, <4>1
      <4>4. HeldIn(h[k], es[i].symbol) = Signed(es[i]) * Unit(es[i].symbol)
        BY <1>4, <2>10, <3>2, <4>3
      <4>. QED BY <2>4, <4>2, <4>4
    <3>. QED BY <2>6, <3>1, <3>2
  <2>. QED BY <2>7, <2>8, <2>9, <2>10 DEF b
<1>. HIDE DEF Holds
<1>5. n \in Done
  <2>1. 0 \in Done
    BY <1>3
  <2>2. ASSUME NEW k \in Nat, k \in Done PROVE k + 1 \in Done
    <3>1. ASSUME k + 1 <= n PROVE Holds(k + 1)
      <4>1. Holds(k)
        BY <1>2, <2>2, <3>1
      <4>. QED BY <1>4, <3>1, <4>1
    <3>. QED BY <3>1
  <2>. HIDE DEF Done
  <2>. QED BY <1>2, <2>1, <2>2, NatSetInduction
<1>6. Holds(n) /\ h[n] = r /\ r \in Caches
  BY <1>1, <1>2, <1>5
<1>. HIDE DEF r
<1>. QED BY <1>6 DEF Holds, r

-----------------------------------------------------------------------------
(* The fills of Hyperliquid are applied one after the other.                *)

\* Its cache has both assets from the start.
FullCaches == {c \in Caches : DOMAIN c.balances = Assets}
FillEntries(es, n) ==
  /\ n \in Nat /\ DOMAIN es = 1 .. n
  /\ \A i \in 1 .. n : es[i].symbol \in Symbols /\ Signed(es[i]) \in Int /\ es[i].start \in Int

\* A fill of Hyperliquid changes one position, or the two balances of the spot pair.
LEMMA FillApplied ==
  ASSUME NEW c \in FullCaches, NEW e, e.symbol \in Symbols, Signed(e) \in Int, e.start \in Int
  PROVE  LET r == HyperliquidFill(c, e) IN
         /\ r \in FullCaches
         /\ ~ IsSpot(e.symbol) =>
              /\ r.balances = c.balances
              /\ DOMAIN r.positions \subseteq DOMAIN c.positions \cup {e.symbol}
              /\ HeldIn(r, e.symbol) = e.start + Signed(e)
              /\ \A y : y # e.symbol => HeldIn(r, y) = HeldIn(c, y)
         /\ IsSpot(e.symbol) =>
              /\ r.positions = c.positions
              /\ TotalIn(r, "base") = Bought(e)
              /\ TotalIn(r, "quote") = TotalIn(c, "quote") + Paying(e)
<1>1. c \in Caches /\ DOMAIN c.balances = Assets
  BY DEF FullCaches
<1>2. CASE ~ IsSpot(e.symbol)
  <2>. DEFINE x == e.start + Signed(e)
  <2>1. HyperliquidFill(c, e) = ApplyPosition(c, e.symbol, x) /\ x \in Int
    BY <1>2 DEF HyperliquidFill
  <2>. HIDE DEF x
  <2>2. LET r == ApplyPosition(c, e.symbol, x) IN
         /\ r \in Caches /\ r.balances = c.balances
         /\ DOMAIN r.positions \subseteq DOMAIN c.positions \cup {e.symbol}
         /\ HeldIn(r, e.symbol) = x /\ \A y : y # e.symbol => HeldIn(r, y) = HeldIn(c, y)
    BY <1>1, <2>1, PositionApplied
  <2>. QED BY <1>1, <1>2, <2>1, <2>2 DEF x, FullCaches
<1>3. CASE IsSpot(e.symbol)
  <2>. DEFINE sz == Signed(e)
              buys == e.side = "long"
              quote == c.balances["quote"].free + c.balances["quote"].locked
              base1 == e.start + sz - IF buys THEN Fee ELSE 0
              quote1 == quote - sz - IF buys THEN 0 ELSE Fee
              told == [a \in Assets |->
                         [locked |-> 0, free |-> IF a = "base" THEN base1 ELSE quote1]]
              r == HyperliquidFill(c, e)
  <2>1. r = ApplyBalances(c, told)
    BY <1>3 DEF HyperliquidFill
  <2>2. Fee \in Int /\ e.start \in Int /\ sz \in Int
    BY AccountsAssumption
  <2>3. quote \in Int
    <3>1. c.balances \in Purses
      BY <1>1 DEF Caches
    <3>2. c.balances["quote"] \in Purse
      BY <1>1, <3>1, PursesFacts DEF Assets
    <3>. QED BY <3>2 DEF Purse
  <2>4. base1 \in Int /\ base1 = Bought(e)
    BY <2>2 DEF Bought
  <2>5. quote1 \in Int /\ quote1 = TotalIn(c, "quote") + Paying(e)
    <3>1. quote = TotalIn(c, "quote")
      BY DEF TotalIn
    <3>2. quote1 = quote + Paying(e)
      <4>. HIDE DEF quote
      <4>. QED BY <2>2, <2>3 DEF Paying
    <3>3. quote1 \in Int
      <4>. HIDE DEF quote
      <4>. QED BY <2>2, <2>3
    <3>. QED BY <3>1, <3>2, <3>3
  <2>. HIDE DEF base1, quote1, quote, sz
  <2>6. told \in Purses
    <3>1. told \in [Assets -> Purse]
      BY <2>4, <2>5 DEF Purse
    <3>. HIDE DEF told
    <3>. QED BY <3>1 DEF Purses
  <2>7. /\ DOMAIN told = Assets /\ told["base"].free + told["base"].locked = base1
        /\ told["quote"].free + told["quote"].locked = quote1
    BY <2>4, <2>5 DEF Assets
  <2>. HIDE DEF told, r
  <2>8. /\ r \in Caches /\ r.positions = c.positions
        /\ DOMAIN r.balances = DOMAIN c.balances \cup DOMAIN told
        /\ \A a \in DOMAIN r.balances :
              r.balances[a] = IF a \in DOMAIN told THEN told[a] ELSE c.balances[a]
    BY <1>1, <2>1, <2>6, BalancesApplied
  <2>9. DOMAIN r.balances = Assets /\ r.balances["base"] = told["base"]
        /\ r.balances["quote"] = told["quote"]
    BY <1>1, <2>7, <2>8 DEF Assets
  <2>10. TotalIn(r, "base") = Bought(e) /\ TotalIn(r, "quote") = TotalIn(c, "quote") + Paying(e)
    BY <2>4, <2>5, <2>7, <2>9 DEF TotalIn
  <2>. QED BY <1>3, <2>8, <2>9, <2>10 DEF r, FullCaches
<1>. QED BY <1>2, <1>3

\* The fills of a frame are applied one after the other.
LEMMA FillsFold ==
  ASSUME NEW c \in FullCaches, NEW es, NEW n, FillEntries(es, n)
  PROVE  \E h : /\ h[0] = c /\ h[n] = ApplyFills(c, es)
                /\ \A i \in 0 .. n : h[i] \in FullCaches
                /\ \A i \in 1 .. n : h[i] = HyperliquidFill(h[i - 1], es[i])
<1>. DEFINE IsFold(g) == g = [s \in SUBSET DOMAIN es |->
                                IF s = {} THEN c ELSE HyperliquidFill(g[s \ {Max(s)}], es[Max(s)])]
            h == CHOOSE g : IsFold(g)
            step == [p \in FullCaches \X (1 .. n) |-> HyperliquidFill(p[1], es[p[2]])]
<1>1. n \in Nat /\ DOMAIN es = 1 .. n
  BY DEF FillEntries
<1>2. ApplyFills(c, es) = h[DOMAIN es]
  BY DEF ApplyFills, FoldLeft, MapThenFoldSet
<1>3. step \in [FullCaches \X (1 .. n) -> FullCaches]
  <2>1. ASSUME NEW d \in FullCaches, NEW i \in 1 .. n PROVE HyperliquidFill(d, es[i]) \in FullCaches
    <3>1. es[i].symbol \in Symbols /\ Signed(es[i]) \in Int /\ es[i].start \in Int
      BY DEF FillEntries
    <3>. QED BY <3>1, FillApplied
  <2>. QED BY <2>1
<1>4. \A d \in FullCaches, i \in 1 .. n : step[<<d, i>>] = HyperliquidFill(d, es[i])
  OBVIOUS
<1>5. \E g : IsFold(g)
  <2>. HIDE DEF step
  <2>1. PICK g \in [SUBSET (1 .. n) -> FullCaches] : IsMaxRecursion(g, n, c, step)
    BY <1>1, <1>3, MaxRecursion, Zenon
  <2>2. ASSUME NEW s \in SUBSET (1 .. n)
        PROVE  g[s] = IF s = {} THEN c ELSE HyperliquidFill(g[s \ {Max(s)}], es[Max(s)])
    <3>1. CASE s = {}
      BY <2>1, <3>1 DEF IsMaxRecursion
    <3>2. CASE s # {}
      <4>1. Max(s) \in s
        BY <1>1, <3>2, MaxFacts
      <4>2. Max(s) \in 1 .. n /\ g[s \ {Max(s)}] \in FullCaches
        BY <2>1, <4>1
      <4>3. g[s] = step[<<g[s \ {Max(s)}], Max(s)>>]
        BY <2>1, <3>2 DEF IsMaxRecursion
      <4>. QED BY <1>4, <3>2, <4>2, <4>3
    <3>. QED BY <3>1, <3>2
  <2>3. IsFold(g)
    BY <1>1, <2>1, <2>2
  <2>. HIDE DEF IsFold
  <2>. QED BY <2>3
<1>6. IsFold(h)
  <2>. HIDE DEF IsFold
  <2>. QED BY <1>5
<1>. HIDE DEF h, step
<1>7. h[1 .. 0] = c
  <2>1. 1 .. 0 = {} /\ 1 .. 0 \in SUBSET (1 .. n)
    BY <1>1
  <2>. QED BY <1>1, <1>6, <2>1
<1>8. ASSUME NEW i \in 1 .. n PROVE h[1 .. i] = HyperliquidFill(h[1 .. (i - 1)], es[i])
  <2>1. Max(1 .. i) = i /\ (1 .. i) \ {i} = 1 .. (i - 1)
    BY <1>1, MaxOfInterval
  <2>2. 1 .. i \in SUBSET (1 .. n) /\ 1 .. i # {}
    <3>1. i \in 1 .. i /\ \A x \in 1 .. i : x \in 1 .. n
      BY <1>1
    <3>. QED BY <3>1
  <2>3. h[1 .. i] = HyperliquidFill(h[(1 .. i) \ {Max(1 .. i)}], es[Max(1 .. i)])
    BY <1>1, <1>6, <2>2
  <2>. QED BY <2>1, <2>3
<1>. HIDE DEF IsFold
<1>. DEFINE Done == {i \in Nat : i <= n => h[1 .. i] \in FullCaches}
<1>9. Nat \subseteq Done
  <2>1. 0 \in Done
    BY <1>7
  <2>2. ASSUME NEW i \in Nat, i \in Done PROVE i + 1 \in Done
    <3>1. ASSUME i + 1 <= n PROVE h[1 .. (i + 1)] \in FullCaches
      <4>1. i + 1 \in 1 .. n /\ (i + 1) - 1 = i /\ h[1 .. i] \in FullCaches
        BY <1>1, <2>2, <3>1
      <4>2. h[1 .. (i + 1)] = HyperliquidFill(h[1 .. i], es[i + 1])
        BY <1>8, <4>1
      <4>3. es[i + 1].symbol \in Symbols /\ Signed(es[i + 1]) \in Int /\ es[i + 1].start \in Int
        BY <4>1 DEF FillEntries
      <4>. QED BY <4>1, <4>2, <4>3, FillApplied
    <3>. QED BY <3>1
  <2>. HIDE DEF Done
  <2>. QED BY <2>1, <2>2, NatSetInduction
<1>. DEFINE k == [i \in 0 .. n |-> h[1 .. i]]
<1>10. k[0] = c /\ k[n] = ApplyFills(c, es) /\ \A i \in 0 .. n : k[i] \in FullCaches
  BY <1>1, <1>2, <1>7, <1>9
<1>11. \A i \in 1 .. n : k[i] = HyperliquidFill(k[i - 1], es[i])
  BY <1>1, <1>8
<1>. HIDE DEF k
<1>. QED BY <1>10, <1>11

\* The last fill of a symbol decides; the one of the spot market decides of the
\* base, and moves the quote.
LEMMA FillsApplied ==
  ASSUME NEW c \in FullCaches, NEW es, NEW n, FillEntries(es, n)
  PROVE  LET r == ApplyFills(c, es) IN
         /\ r \in FullCaches
         /\ \A y \in DOMAIN r.positions : y \notin DOMAIN c.positions =>
              \E i \in 1 .. n : es[i].symbol = y /\ ~ IsSpot(y)
         /\ \A y : (\A i \in 1 .. n : es[i].symbol # y) => HeldIn(r, y) = HeldIn(c, y)
         /\ \A i \in 1 .. n :
              ~ IsSpot(es[i].symbol) /\ (\A j \in 1 .. n : j > i => es[j].symbol # es[i].symbol)
                => HeldIn(r, es[i].symbol) = es[i].start + Signed(es[i])
         /\ (\A i \in 1 .. n : ~ IsSpot(es[i].symbol)) => r.balances = c.balances
         /\ \A i \in 1 .. n :
              IsSpot(es[i].symbol) /\ (\A j \in 1 .. n : j # i => ~ IsSpot(es[j].symbol))
                => /\ TotalIn(r, "base") = Bought(es[i])
                   /\ TotalIn(r, "quote") = TotalIn(c, "quote") + Paying(es[i])
<1>. DEFINE r == ApplyFills(c, es)
<1>1. PICK h : /\ h[0] = c /\ h[n] = r
               /\ \A i \in 0 .. n : h[i] \in FullCaches
               /\ \A i \in 1 .. n : h[i] = HyperliquidFill(h[i - 1], es[i])
  BY FillsFold
<1>2. n \in Nat
  BY DEF FillEntries
<1>. DEFINE Holds(k) ==
              /\ \A y \in DOMAIN h[k].positions : y \notin DOMAIN c.positions =>
                   \E i \in 1 .. k : es[i].symbol = y /\ ~ IsSpot(y)
              /\ \A y : (\A i \in 1 .. k : es[i].symbol # y) => HeldIn(h[k], y) = HeldIn(c, y)
              /\ \A i \in 1 .. k :
                   ~ IsSpot(es[i].symbol)
                     /\ (\A j \in 1 .. k : j > i => es[j].symbol # es[i].symbol)
                     => HeldIn(h[k], es[i].symbol) = es[i].start + Signed(es[i])
              /\ (\A i \in 1 .. k : ~ IsSpot(es[i].symbol)) => h[k].balances = c.balances
              /\ \A i \in 1 .. k :
                   IsSpot(es[i].symbol) /\ (\A j \in 1 .. k : j # i => ~ IsSpot(es[j].symbol))
                     => /\ TotalIn(h[k], "base") = Bought(es[i])
                        /\ TotalIn(h[k], "quote") = TotalIn(c, "quote") + Paying(es[i])
            Done == {k \in Nat : k <= n => Holds(k)}
<1>3. Holds(0)
  BY <1>1
<1>4. ASSUME NEW k \in Nat, k + 1 <= n, Holds(k) PROVE Holds(k + 1)
  <2>. DEFINE e == es[k + 1]
              b == h[k + 1]
  <2>1. k + 1 \in 1 .. n /\ (k + 1) - 1 = k /\ k \in 0 .. n
    BY <1>2, <1>4
  <2>2. b = HyperliquidFill(h[k], e) /\ h[k] \in FullCaches
    BY <1>1, <2>1
  <2>3. e.symbol \in Symbols /\ Signed(e) \in Int /\ e.start \in Int
    BY <2>1 DEF FillEntries
  <2>. HIDE DEF e, b
  <2>4. /\ ~ IsSpot(e.symbol) =>
              /\ b.balances = h[k].balances
              /\ DOMAIN b.positions \subseteq DOMAIN h[k].positions \cup {e.symbol}
              /\ HeldIn(b, e.symbol) = e.start + Signed(e)
              /\ \A y : y # e.symbol => HeldIn(b, y) = HeldIn(h[k], y)
        /\ IsSpot(e.symbol) =>
              /\ b.positions = h[k].positions
              /\ TotalIn(b, "base") = Bought(e)
              /\ TotalIn(b, "quote") = TotalIn(h[k], "quote") + Paying(e)
    BY <2>2, <2>3, FillApplied
  <2>5. \A i \in 1 .. k : i \in 1 .. (k + 1) /\ i < k + 1
    BY <1>4
  <2>6. k + 1 \in 1 .. (k + 1) /\ \A i \in 1 .. (k + 1) : i \in 1 .. k \/ i = k + 1
    BY <1>4
  <2>7. \A y : y # e.symbol => HeldIn(b, y) = HeldIn(h[k], y)
    BY <2>4 DEF HeldIn
  <2>8. ASSUME NEW y \in DOMAIN b.positions, y \notin DOMAIN c.positions
        PROVE  \E i \in 1 .. (k + 1) : es[i].symbol = y /\ ~ IsSpot(y)
    <3>1. CASE y \in DOMAIN h[k].positions
      BY <1>4, <2>5, <2>8, <3>1
    <3>2. CASE y \notin DOMAIN h[k].positions
      <4>1. y = e.symbol /\ ~ IsSpot(y)
        BY <2>4, <3>2
      <4>. QED BY <2>6, <4>1 DEF e
    <3>. QED BY <3>1, <3>2
  <2>9. ASSUME NEW y, \A i \in 1 .. (k + 1) : es[i].symbol # y
        PROVE  HeldIn(b, y) = HeldIn(c, y)
    <3>1. y # e.symbol /\ \A i \in 1 .. k : es[i].symbol # y
      BY <2>5, <2>6, <2>9 DEF e
    <3>. QED BY <1>4, <2>7, <3>1
  <2>10. ASSUME NEW i \in 1 .. (k + 1), ~ IsSpot(es[i].symbol),
                \A j \in 1 .. (k + 1) : j > i => es[j].symbol # es[i].symbol
         PROVE  HeldIn(b, es[i].symbol) = es[i].start + Signed(es[i])
    <3>1. CASE i = k + 1
      BY <2>4, <2>10, <3>1 DEF e
    <3>2. CASE i \in 1 .. k
      <4>1. k + 1 > i /\ \A j \in 1 .. k : j \in 1 .. (k + 1)
        BY <2>5, <3>2
      <4>2. es[i].symbol # e.symbol
        BY <2>6, <2>10, <4>1 DEF e
      <4>3. \A j \in 1 .. k : j > i => es[j].symbol # es[i].symbol
        BY <2>10, <4>1
      <4>4. HeldIn(h[k], es[i].symbol) = es[i].start + Signed(es[i])
        BY <1>4, <2>10, <3>2, <4>3
      <4>. QED BY <2>7, <4>2, <4>4
    <3>. QED BY <2>6, <3>1, <3>2
  <2>11. ASSUME \A i \in 1 .. (k + 1) : ~ IsSpot(es[i].symbol)
         PROVE  b.balances = c.balances
    <3>1. ~ IsSpot(e.symbol) /\ \A i \in 1 .. k : ~ IsSpot(es[i].symbol)
      BY <2>5, <2>6, <2>11 DEF e
    <3>. QED BY <1>4, <2>4, <3>1
  <2>12. ASSUME NEW i \in 1 .. (k + 1), IsSpot(es[i].symbol),
                \A j \in 1 .. (k + 1) : j # i => ~ IsSpot(es[j].symbol)
         PROVE  /\ TotalIn(b, "base") = Bought(es[i])
                /\ TotalIn(b, "quote") = TotalIn(c, "quote") + Paying(es[i])
    <3>1. CASE i = k + 1
      <4>1. \A j \in 1 .. k : ~ IsSpot(es[j].symbol)
        <5>1. \A j \in 1 .. k : j # k + 1 /\ j \in 1 .. (k + 1)
          BY <2>5
        <5>. QED BY <2>12, <3>1, <5>1
      <4>2. TotalIn(h[k], "quote") = TotalIn(c, "quote")
        BY <1>4, <4>1 DEF TotalIn
      <4>. QED BY <2>4, <2>12, <3>1, <4>2 DEF e
    <3>2. CASE i \in 1 .. k
      <4>1. k + 1 # i /\ \A j \in 1 .. k : j \in 1 .. (k + 1)
        BY <2>5, <3>2
      <4>2. ~ IsSpot(e.symbol)
        BY <2>6, <2>12, <4>1 DEF e
      <4>3. \A j \in 1 .. k : j # i => ~ IsSpot(es[j].symbol)
        BY <2>12, <4>1
      <4>4. /\ TotalIn(h[k], "base") = Bought(es[i])
            /\ TotalIn(h[k], "quote") = TotalIn(c, "quote") + Paying(es[i])
        BY <1>4, <2>12, <3>2, <4>3
      <4>. QED BY <2>4, <4>2, <4>4 DEF TotalIn
    <3>. QED BY <2>6, <3>1, <3>2
  <2>. QED BY <2>8, <2>9, <2>10, <2>11, <2>12 DEF b
<1>. HIDE DEF Holds
<1>5. n \in Done
  <2>1. 0 \in Done
    BY <1>3
  <2>2. ASSUME NEW k \in Nat, k \in Done PROVE k + 1 \in Done
    <3>1. ASSUME k + 1 <= n PROVE Holds(k + 1)
      <4>1. Holds(k)
        BY <1>2, <2>2, <3>1
      <4>. QED BY <1>4, <3>1, <4>1
    <3>. QED BY <3>1
  <2>. HIDE DEF Done
  <2>. QED BY <1>2, <2>1, <2>2, NatSetInduction
<1>6. Holds(n) /\ h[n] = r /\ r \in FullCaches
  BY <1>1, <1>2, <1>5
<1>. HIDE DEF r
<1>. QED BY <1>6 DEF Holds, r

-----------------------------------------------------------------------------
(* What is read of a frame's entries.                                       *)

Under(e, x) == [e EXCEPT !.symbol = x]

\* An entry read under another id keeps its side and its size.
LEMMA ReadFacts ==
  ASSUME NEW e \in Reports \cup Fills, NEW x \in Ids
  PROVE  LET r == Under(e, x) IN
         /\ e.symbol \in Ids /\ Signed(e) \in Int
         /\ r.symbol = x /\ r.side = e.side /\ Signed(r) = Signed(e)
         /\ e \in Fills =>
              /\ e.start \in Int /\ r.start = e.start
              /\ Bought(r) = Bought(e) /\ Paying(r) = Paying(e)
<1>. DEFINE r == Under(e, x)
<1>1. CASE e \in Reports
  <2>1. /\ e.symbol \in Ids /\ e.size \in Int /\ r.symbol = x /\ r.side = e.side
        /\ r.size = e.size
    BY <1>1 DEF Reports, Under
  <2>2. e \notin Fills
    <3>1. DOMAIN e = {"symbol", "side", "size"}
      BY <1>1 DEF Reports
    <3>2. e \in Fills => DOMAIN e = {"symbol", "side", "start", "size"}
      BY DEF Fills
    <3>. QED BY <3>1, <3>2
  <2>. HIDE DEF r
  <2>. QED BY <2>1, <2>2 DEF Signed, r
<1>2. CASE e \in Fills
  <2>1. /\ e.symbol \in Ids /\ e.size \in Int /\ e.start \in Int
        /\ r.symbol = x /\ r.side = e.side /\ r.start = e.start /\ r.size = e.size
    BY <1>2 DEF Fills, Under
  <2>. HIDE DEF r
  <2>2. Signed(r) = Signed(e) /\ Signed(e) \in Int
    BY <2>1 DEF Signed
  <2>3. Bought(r) = Bought(e) /\ Paying(r) = Paying(e)
    BY <2>1, <2>2 DEF Bought, Paying
  <2>. QED BY <2>1, <2>2, <2>3 DEF r
<1>. QED BY <1>1, <1>2

\* The entries before the first that has no id.
LEMMA TakenFacts ==
  ASSUME NEW es \in Seq(Reports \cup Fills), NEW id, DOMAIN id = DOMAIN es
  PROVE  \E m \in 0 .. Len(es) :
           /\ DOMAIN Taken(es, id) = 1 .. m
           /\ \A i \in 1 .. m :
                Taken(es, id)[i] = Under(es[i], id[i]) /\ id[i] # NoSymbol
           /\ m < Len(es) => id[m + 1] = NoSymbol
<1>. DEFINE n == Len(es)
            T == {i \in DOMAIN es : id[i] = NoSymbol} \cup {n + 1}
            k == Min(T)
            m == k - 1
            t == Taken(es, id)
<1>1. n \in Nat /\ DOMAIN es = 1 .. n
  OBVIOUS
<1>. HIDE DEF n
<1>2. T \subseteq Nat /\ T # {}
  BY <1>1
<1>3. k \in T /\ \A y \in T : k <= y
  <2>. HIDE DEF T
  <2>. QED BY <1>2, MinFacts, Zenon
<1>. HIDE DEF k
<1>4. k \in 1 .. (n + 1) /\ m \in 0 .. n
  <2>1. k \in 1 .. (n + 1)
    BY <1>1, <1>3
  <2>. QED BY <1>1, <2>1
<1>5. ASSUME NEW i \in 1 .. m PROVE id[i] # NoSymbol /\ i \in 1 .. n
  <2>1. i \in 1 .. n /\ ~ (k <= i)
    BY <1>1, <1>4
  <2>2. i \notin T
    BY <1>3, <2>1
  <2>. QED BY <1>1, <2>1, <2>2
<1>6. m < n => id[m + 1] = NoSymbol
  <2>1. m < n => k # n + 1 /\ m + 1 = k
    BY <1>1, <1>4
  <2>. QED BY <1>3, <2>1
<1>7. Taken(es, id) = SubSeq(Named(es, id), 1, m)
  BY DEF Taken, k, n
<1>. DEFINE named == Named(es, id)
<1>8. named = [i \in 1 .. n |-> Under(es[i], id[i])]
  BY <1>1 DEF Named, Under
<1>. HIDE DEF named
<1>9. DOMAIN t = 1 .. m /\ \A i \in 1 .. m : t[i] = named[i]
  <2>. DEFINE S == {named[i] : i \in 1 .. n}
  <2>1. t = SubSeq(named, 1, m)
    BY <1>7 DEF named
  <2>2. m \in Int /\ 1 \in Int /\ \A i \in 1 .. m : named[i] \in S
    BY <1>1, <1>4
  <2>. HIDE DEF S, t, m
  <2>3. /\ SubSeq(named, 1, m) \in Seq(S)
        /\ Len(SubSeq(named, 1, m)) = IF 1 <= m THEN m - 1 + 1 ELSE 0
        /\ \A i \in 1 .. m - 1 + 1 : SubSeq(named, 1, m)[i] = named[1 + i - 1]
    BY <2>2, SubSeqProperties
  <2>4. Len(t) = m /\ t \in Seq(S)
    BY <1>1, <1>4, <2>1, <2>3
  <2>5. ASSUME NEW i \in 1 .. m PROVE t[i] = named[i]
    <3>1. i \in 1 .. m - 1 + 1 /\ 1 + i - 1 = i
      BY <1>1, <1>4
    <3>. QED BY <2>1, <2>3, <3>1
  <2>. QED BY <2>4, <2>5
<1>10. \A i \in 1 .. m : t[i] = Under(es[i], id[i]) /\ id[i] # NoSymbol
  BY <1>5, <1>8, <1>9
<1>. HIDE DEF t
<1>. QED BY <1>4, <1>6, <1>9, <1>10 DEF t, n

\* A set and its sequences have the same elements, each once.
LEMMA SequenceOfSet ==
  ASSUME NEW S, IsFiniteSet(S), NEW q, DOMAIN q = 1 .. Cardinality(S),
         \A i \in DOMAIN q : q[i] \in S, q = [i \in DOMAIN q |-> q[i]],
         \A i, j \in DOMAIN q : q[i] = q[j] => i = j
  PROVE  \A s \in S : \E i \in DOMAIN q : q[i] = s
<1>. DEFINE n == Cardinality(S)
<1>1. n \in Nat
  BY FS_CardinalityType
<1>2. IsFiniteSet(1 .. n) /\ Cardinality(1 .. n) = n
  <2>1. 1 \in Int /\ n \in Int
    BY <1>1
  <2>2. /\ IsFiniteSet(1 .. n)
        /\ Cardinality(1 .. n) = IF 1 > n THEN 0 ELSE n - 1 + 1
    BY <2>1, FS_Interval
  <2>. QED BY <1>1, <2>2
<1>3. q \in [1 .. n -> S]
  OBVIOUS
<1>4. q \in Injection(1 .. n, S)
  BY <1>3 DEF Injection, IsInjective
<1>5. q \in Surjection(1 .. n, S)
  BY <1>2, <1>4, FS_Injection
<1>. QED BY <1>5 DEF Surjection

\* A set is listed without repetition.
LEMMA SetToSeqFacts ==
  ASSUME NEW S, IsFiniteSet(S)
  PROVE  LET q == SetToSeq(S) IN
         /\ Cardinality(S) \in Nat /\ DOMAIN q = 1 .. Cardinality(S)
         /\ \A i \in DOMAIN q : q[i] \in S
         /\ \A i, j \in DOMAIN q : q[i] = q[j] => i = j
         /\ \A s \in S : \E i \in DOMAIN q : q[i] = s
<1>. DEFINE n == Cardinality(S)
            q == SetToSeq(S)
<1>1. n \in Nat /\ ExistsBijection(1 .. n, S)
  BY FS_CardinalityType
<1>2. \E f \in [1 .. n -> S] : IsInjective(f)
  <2>1. PICK f : f \in Bijection(1 .. n, S)
    BY <1>1 DEF ExistsBijection
  <2>. QED BY <2>1 DEF Bijection, Injection, IsInjective
<1>3. q \in [1 .. n -> S] /\ IsInjective(q)
  BY <1>2 DEF SetToSeq
<1>. HIDE DEF q
<1>4. /\ DOMAIN q = 1 .. n /\ q = [i \in DOMAIN q |-> q[i]] /\ \A i \in DOMAIN q : q[i] \in S
      /\ \A i, j \in DOMAIN q : q[i] = q[j] => i = j
  BY <1>3 DEF IsInjective
<1>5. \A s \in S : \E i \in DOMAIN q : q[i] = s
  BY <1>4, SequenceOfSet
<1>. QED BY <1>1, <1>4, <1>5 DEF q

\* There are finitely many symbols.
LEMMA FiniteFacts ==
  ASSUME NEW S, S \subseteq Symbols
  PROVE  IsFiniteSet(S)
BY AccountsAssumption, FS_Subset

-----------------------------------------------------------------------------
(* A frame is handled.                                                      *)

\* What a frame is made of.
LEMMA FrameFacts ==
  ASSUME account \in Accounts, NEW f \in Frames, GoodFrame(f)
  PROVE  /\ f.positions \in Seq(Reports \cup Fills) /\ Len(f.positions) \in Nat
         /\ DOMAIN f.positions = 1 .. Len(f.positions)
         /\ \A i \in DOMAIN f.positions :
              /\ f.positions[i] \in Reports \cup Fills /\ f.positions[i].symbol \in Tradable
              /\ f.positions[i].symbol \in Symbols /\ f.positions[i].symbol \notin Assets
              /\ f.positions[i].symbol # NoSymbol /\ f.positions[i].symbol \in Ids
              /\ Signed(f.positions[i]) \in Int
              /\ V # "hyperliquid" => f.positions[i].symbol \in Held
              /\ V = "hyperliquid" => f.positions[i] \in Fills
         /\ \A i, j \in DOMAIN f.positions :
              f.positions[i].symbol = f.positions[j].symbol => i = j
         /\ f.balances \in Purses /\ DOMAIN f.balances \subseteq Assets
<1>1. f.positions \in Seq(Reports \cup Fills) /\ f.balances \in Purses
  BY DEF Frames
<1>. DEFINE es == f.positions
<1>2. Len(es) \in Nat /\ DOMAIN es = 1 .. Len(es) /\
        \A i \in DOMAIN es : es[i] \in Reports \cup Fills
  BY <1>1
<1>3. /\ \A i, j \in DOMAIN es : es[i].symbol = es[j].symbol => i = j
      /\ \A i \in DOMAIN es : es[i].symbol \in Tradable
      /\ V = "hyperliquid" => \A i \in DOMAIN es : es[i] \in Fills
  BY DEF GoodFrame
<1>4. ASSUME NEW i \in DOMAIN es
      PROVE  /\ es[i].symbol \in Symbols /\ es[i].symbol # NoSymbol /\ es[i].symbol \in Ids
             /\ es[i].symbol \notin Assets /\ Signed(es[i]) \in Int
             /\ V # "hyperliquid" => es[i].symbol \in Held
  <2>1. es[i].symbol \in Tradable
    BY <1>3
  <2>. DEFINE s == es[i].symbol
  <2>2. s \in Symbols /\ s # NoSymbol /\ s \notin Assets /\ (V # "hyperliquid" => s \in Held)
    <3>. HIDE DEF s
    <3>. QED BY <2>1, TradableFacts DEF s
  <2>3. NoSymbol \in Ids /\ s \in Ids
    BY <2>2 DEF Ids
  <2>4. Signed(es[i]) \in Int
    <3>1. es[i] \in Reports \cup Fills
      BY <1>2
    <3>. QED BY <2>3, <3>1, ReadFacts
  <2>. QED BY <2>2, <2>3, <2>4
<1>5. DOMAIN f.balances \subseteq Assets
  BY <1>1, PursesFacts
<1>. QED BY <1>1, <1>2, <1>3, <1>4, <1>5

\* What a frame tells of: the symbols of its entries, those of its snapshot and the
\* assets of its balances and of its spot fills.
LEMMA MentionsFacts ==
  ASSUME account \in Accounts, NEW f \in Frames, GoodFrame(f)
  PROVE  /\ \A s \in Symbols :
              s \in Mentions(f) <=>
                \/ \E i \in DOMAIN f.positions : f.positions[i].symbol = s
                \/ f.snapshot # "none" /\ s \in Held /\ ProductOf[s] = f.snapshot
         /\ \A a \in Assets :
              a \in Mentions(f) <=>
                \/ a \in DOMAIN f.balances
                \/ \E i \in DOMAIN f.positions : IsSpot(f.positions[i].symbol)
<1>1. Symbols \cap Assets = {}
  BY AccountsAssumption
<1>2. /\ \A i \in DOMAIN f.positions : f.positions[i].symbol \in Symbols
      /\ DOMAIN f.balances \subseteq Assets
  BY FrameFacts
<1>3. Held \subseteq Symbols
  BY HeldFacts
<1>4. ASSUME NEW s \in Symbols
      PROVE  s \in Mentions(f) <=>
                \/ \E i \in DOMAIN f.positions : f.positions[i].symbol = s
                \/ f.snapshot # "none" /\ s \in Held /\ ProductOf[s] = f.snapshot
  BY <1>1, <1>2 DEF Mentions
<1>5. ASSUME NEW a \in Assets
      PROVE  a \in Mentions(f) <=>
                \/ a \in DOMAIN f.balances
                \/ \E i \in DOMAIN f.positions : IsSpot(f.positions[i].symbol)
  BY <1>1, <1>2, <1>3 DEF Mentions
<1>. QED BY <1>4, <1>5

\* The entries at and behind the first symbol that is not known.
Behind(f) == {i \in DOMAIN f.positions :
                \E j \in DOMAIN f.positions : f.positions[j].symbol \notin Known /\ j <= i}

\* What a frame told of and its handler could not read counts as missed.
LEMMA MissedFacts ==
  ASSUME account \in Accounts, NEW f \in Frames, GoodFrame(f)
  PROVE  /\ V # "okx" /\ account # <<"bitget", "uta">> =>
              /\ \A i \in Behind(f) : f.positions[i].symbol \in Missed(f)
              /\ (\E i \in DOMAIN f.positions : ProductOf[f.positions[i].symbol] = "option") =>
                   \A i \in DOMAIN f.positions : f.positions[i].symbol \in Missed(f)
              /\ \A i \in Behind(f) : IsSpot(f.positions[i].symbol) => Assets \subseteq Missed(f)
         /\ IsPm => DOMAIN f.balances \subseteq Missed(f)
         /\ V = "hyperliquid" /\ "quote" \in lost => "quote" \in Missed(f)
         /\ IsSnapshot /\ (\E i \in DOMAIN f.positions : f.positions[i].symbol \notin Known) =>
              \A s \in Mentions(f) \ Missed(f) :
                \E i \in DOMAIN f.positions \ Behind(f) : f.positions[i].symbol = s
<1>. DEFINE es == f.positions
            skipped == {i \in DOMAIN es : es[i].symbol \notin Known}
            behind == {i \in DOMAIN es : \E j \in skipped : j <= i}
            unread == CASE V = "okx" -> skipped
                        [] account = <<"bitget", "uta">> -> skipped
                        [] \E i \in DOMAIN es : ProductOf[es[i].symbol] = "option" -> DOMAIN es
                        [] OTHER -> behind
            missed == {es[i].symbol : i \in unread}
            more == (IF IsPm THEN DOMAIN f.balances ELSE {})
                      \cup (IF \E s \in missed : IsSpot(s) THEN Assets ELSE {})
                      \cup (IF V = "hyperliquid" THEN lost \cap {"quote"} ELSE {})
                      \cup (IF IsSnapshot /\ skipped # {}
                            THEN Mentions(f) \ {es[i].symbol : i \in DOMAIN es \ behind} ELSE {})
<1>1. Missed(f) = missed \cup more
  BY DEF Missed
<1>2. behind = Behind(f)
  BY DEF Behind
<1>3. V # "okx" /\ account # <<"bitget", "uta">> =>
        /\ behind \subseteq unread
        /\ (\E i \in DOMAIN es : ProductOf[es[i].symbol] = "option") => unread = DOMAIN es
  OBVIOUS
<1>. HIDE DEF unread
<1>4. ASSUME V # "okx", account # <<"bitget", "uta">>
      PROVE  /\ \A i \in behind : es[i].symbol \in missed
             /\ (\E i \in DOMAIN es : ProductOf[es[i].symbol] = "option") =>
                   \A i \in DOMAIN es : es[i].symbol \in missed
             /\ \A i \in behind : IsSpot(es[i].symbol) => Assets \subseteq more
  BY <1>3, <1>4
<1>5. /\ IsPm => DOMAIN f.balances \subseteq more
      /\ V = "hyperliquid" /\ "quote" \in lost => "quote" \in more
  OBVIOUS
<1>6. ASSUME IsSnapshot, \E i \in DOMAIN es : es[i].symbol \notin Known,
             NEW s \in Mentions(f), s \notin Missed(f)
      PROVE  \E i \in DOMAIN es \ behind : es[i].symbol = s
  <2>1. skipped # {}
    BY <1>6
  <2>2. s \notin Mentions(f) \ {es[i].symbol : i \in DOMAIN es \ behind}
    <3>. HIDE DEF missed, skipped, behind
    <3>. QED BY <1>1, <1>6, <2>1
  <2>. QED BY <1>6, <2>2
<1>. HIDE DEF missed, more, behind
<1>. QED BY <1>1, <1>2, <1>4, <1>5, <1>6

\* What handling a frame does to a cache: it has what the frame has of all the
\* frame tells of and does not miss, and keeps what the frame does not tell of.
Follows(c, f, r) ==
  /\ r \in Caches /\ DOMAIN r.positions \subseteq Held \cap Known
  /\ DOMAIN c.balances \subseteq DOMAIN r.balances
  /\ \A s \in Held \cap Known :
       /\ s \notin Mentions(f) => HeldIn(r, s) = HeldIn(c, s)
       /\ s \in Mentions(f) \ Missed(f) => \A x \in Int : Tells(f, s, x) => HeldIn(r, s) = x
  /\ \A a \in Assets :
       /\ a \notin Mentions(f) /\ a \in DOMAIN c.balances => TotalIn(r, a) = TotalIn(c, a)
       /\ a \in Mentions(f) \ Missed(f) /\ (V = "hyperliquid" => a = "base") =>
            a \in DOMAIN r.balances /\ \A x \in Int : TellsTotal(f, a, x) => TotalIn(r, a) = x
  /\ V = "hyperliquid" /\ "quote" \notin Missed(f) =>
       \A d \in Int : Moves(f, d) => TotalIn(r, "quote") = TotalIn(c, "quote") + d

Ready(c) == /\ c \in Caches /\ DOMAIN c.positions \subseteq Held \cap Known
            /\ V = "hyperliquid" => DOMAIN c.balances = Assets

\* What every handler but Hyperliquid's does, whatever ids it finds.
Keeps(c, f, r) ==
  /\ r \in Caches /\ DOMAIN r.positions \subseteq Held \cap Known
  /\ DOMAIN r.balances = DOMAIN c.balances \cup DOMAIN f.balances
  /\ \A a \in DOMAIN r.balances :
       r.balances[a] = IF a \in DOMAIN f.balances THEN f.balances[a] ELSE c.balances[a]
  /\ \A y : (\A i \in DOMAIN f.positions : f.positions[i].symbol # y) => HeldIn(r, y) = HeldIn(c, y)
\* And with the ids of the symbols known.
Reads(f, r, i) ==
  f.positions[i].symbol \in Known =>
    HeldIn(r, f.positions[i].symbol) = Signed(f.positions[i]) * Unit(f.positions[i].symbol)

IsId(f, x)  == \/ x = NoSymbol
               \/ x \in Known /\ \E j \in DOMAIN f.positions : f.positions[j].symbol = x
Plain(s)    == IF s \in Known THEN s ELSE NoSymbol
PlainIds(f, id) == \A i \in DOMAIN f.positions : id[i] = Plain(f.positions[i].symbol)

\* An id is the symbol itself, or none.
LEMMA PlainFacts ==
  ASSUME NEW f, NEW id, PlainIds(f, id), NEW i \in DOMAIN f.positions
  PROVE  IsId(f, id[i])
BY DEF PlainIds, Plain, IsId

\* The entries t of a frame, under ids of its symbols, are applied.
LEMMA AppliedKeeps ==
  ASSUME account \in Accounts, V # "hyperliquid", NEW c, Ready(c), NEW f \in Frames, GoodFrame(f),
         NEW t, NEW m, Entries(t, m), \A i \in 1 .. m : IsId(f, t[i].symbol)
  PROVE  /\ Keeps(c, f, Applied(c, f, t))
         /\ \A i \in 1 .. m :
              t[i].symbol # NoSymbol /\ (\A j \in 1 .. m : j > i => t[j].symbol # t[i].symbol)
                => HeldIn(Applied(c, f, t), t[i].symbol) = Signed(t[i]) * Unit(t[i].symbol)
<1>. DEFINE d == ApplyBalances(c, f.balances)
            r == ApplyEntries(d, t)
<1>1. c \in Caches /\ DOMAIN c.positions \subseteq Held \cap Known
  BY DEF Ready
<1>2. f.balances \in Purses /\ \A i \in DOMAIN f.positions : f.positions[i].symbol \in Held
  BY FrameFacts
<1>3. /\ d \in Caches /\ d.positions = c.positions
      /\ DOMAIN d.balances = DOMAIN c.balances \cup DOMAIN f.balances
      /\ \A a \in DOMAIN d.balances :
              d.balances[a] = IF a \in DOMAIN f.balances THEN f.balances[a] ELSE c.balances[a]
  BY <1>1, <1>2, BalancesApplied
<1>. HIDE DEF d
<1>4. /\ r \in Caches /\ r.balances = d.balances
      /\ \A y \in DOMAIN r.positions : y \notin DOMAIN d.positions =>
              \E i \in 1 .. m : t[i].symbol = y /\ y # NoSymbol
      /\ \A y : (\A i \in 1 .. m : t[i].symbol # y) => HeldIn(r, y) = HeldIn(d, y)
      /\ \A i \in 1 .. m :
              t[i].symbol # NoSymbol /\ (\A j \in 1 .. m : j > i => t[j].symbol # t[i].symbol)
                => HeldIn(r, t[i].symbol) = Signed(t[i]) * Unit(t[i].symbol)
  BY <1>3, EntriesApplied
<1>. HIDE DEF r
<1>5. Applied(c, f, t) = r
  BY DEF Applied, r, d
<1>6. ASSUME NEW y \in DOMAIN r.positions PROVE y \in Held \cap Known
  <2>1. CASE y \in DOMAIN d.positions
    BY <1>1, <1>3, <2>1
  <2>2. CASE y \notin DOMAIN d.positions
    <3>1. PICK i \in 1 .. m : t[i].symbol = y /\ y # NoSymbol
      BY <1>4, <2>2
    <3>2. y \in Known /\ \E j \in DOMAIN f.positions : f.positions[j].symbol = y
      BY <3>1 DEF IsId
    <3>. QED BY <1>2, <3>2
  <2>. QED BY <2>1, <2>2
<1>7. ASSUME NEW y, \A i \in DOMAIN f.positions : f.positions[i].symbol # y
      PROVE  HeldIn(r, y) = HeldIn(c, y)
  <2>1. CASE y = NoSymbol
    <3>1. y \notin Known
      BY <2>1, AccountsAssumption
    <3>. QED BY <1>1, <1>6, <3>1 DEF HeldIn
  <2>2. CASE y # NoSymbol
    <3>1. \A i \in 1 .. m : t[i].symbol # y
      BY <1>7, <2>2 DEF IsId
    <3>. QED BY <1>3, <1>4, <3>1 DEF HeldIn
  <2>. QED BY <2>1, <2>2
<1>8. Keeps(c, f, r)
  BY <1>3, <1>4, <1>6, <1>7 DEF Keeps
<1>. QED BY <1>4, <1>5, <1>8

\* Where reading stops at the first entry without an id, those before it are read.
LEMMA TakenReads ==
  ASSUME account \in Accounts, V # "hyperliquid", NEW c, Ready(c), NEW f \in Frames, GoodFrame(f),
         NEW id, DOMAIN id = DOMAIN f.positions, \A i \in DOMAIN f.positions : IsId(f, id[i])
  PROVE  LET r == Applied(c, f, Taken(f.positions, id)) IN
         /\ Keeps(c, f, r)
         /\ PlainIds(f, id) => \A i \in DOMAIN f.positions \ Behind(f) : Reads(f, r, i)
<1>. DEFINE es == f.positions
            t == Taken(es, id)
            r == Applied(c, f, t)
<1>1. /\ es \in Seq(Reports \cup Fills) /\ Len(es) \in Nat /\ DOMAIN es = 1 .. Len(es)
      /\ \A i \in DOMAIN es : es[i] \in Reports \cup Fills
      /\ \A i, j \in DOMAIN es : es[i].symbol = es[j].symbol => i = j
  BY FrameFacts
<1>2. PICK m \in 0 .. Len(es) :
        /\ DOMAIN t = 1 .. m
        /\ \A i \in 1 .. m : t[i] = Under(es[i], id[i]) /\ id[i] # NoSymbol
        /\ m < Len(es) => id[m + 1] = NoSymbol
  <2>1. es \in Seq(Reports \cup Fills) /\ DOMAIN id = DOMAIN es
    BY <1>1
  <2>. HIDE DEF es
  <2>. QED BY ONLY <2>1, TakenFacts DEF t
<1>3. \A i \in 1 .. m : i \in DOMAIN es /\ id[i] \in Known /\ id[i] \in Ids
  <2>1. \A i \in 1 .. m : i \in DOMAIN es
    BY <1>1, <1>2
  <2>2. Known \subseteq Ids
    BY AccountsAssumption DEF Ids
  <2>. QED BY <1>2, <2>1, <2>2 DEF IsId
<1>4. ASSUME NEW i \in 1 .. m
      PROVE  t[i].symbol = id[i] /\ Signed(t[i]) = Signed(es[i]) /\ Signed(t[i]) \in Int
  <2>1. es[i] \in Reports \cup Fills /\ id[i] \in Ids
    BY <1>1, <1>3
  <2>2. LET q == Under(es[i], id[i]) IN
          q.symbol = id[i] /\ Signed(q) = Signed(es[i]) /\ Signed(es[i]) \in Int
    BY <2>1, ReadFacts
  <2>. QED BY <1>2, <2>2
<1>5. Entries(t, m) /\ \A i \in 1 .. m : IsId(f, t[i].symbol)
  BY <1>2, <1>3, <1>4 DEF Entries
<1>. HIDE DEF t, es
<1>6. /\ Keeps(c, f, r)
      /\ \A i \in 1 .. m :
           t[i].symbol # NoSymbol /\ (\A j \in 1 .. m : j > i => t[j].symbol # t[i].symbol)
             => HeldIn(r, t[i].symbol) = Signed(t[i]) * Unit(t[i].symbol)
  BY <1>5, AppliedKeeps
<1>. HIDE DEF r
<1>7. ASSUME PlainIds(f, id), NEW i \in DOMAIN es, i \notin Behind(f) PROVE Reads(f, r, i)
  <2>1. i \in 1 .. m
    <3>1. CASE m < Len(es)
      <4>1. m + 1 \in DOMAIN es /\ id[m + 1] = NoSymbol
        BY <1>1, <1>2, <3>1
      <4>2. es[m + 1].symbol \notin Known
        <5>1. es[m + 1].symbol # NoSymbol
          BY <4>1, FrameFacts DEF es
        <5>. QED BY <1>7, <4>1, <5>1 DEF PlainIds, Plain, es
      <4>3. ~ (m + 1 <= i)
        BY <1>7, <4>1, <4>2 DEF Behind, es
      <4>. QED BY <1>1, <1>2, <4>3
    <3>2. CASE m = Len(es)
      BY <1>1, <3>2
    <3>3. m < Len(es) \/ m = Len(es)
      <4>1. Len(es) \in Nat /\ m \in 0 .. Len(es)
        BY <1>1
      <4>. QED BY ONLY <4>1
    <3>. QED BY <3>1, <3>2, <3>3
  <2>2. \A j \in 1 .. m : id[j] = es[j].symbol
    BY <1>2, <1>3, <1>7 DEF PlainIds, Plain, es
  <2>3. \A j \in 1 .. m : j > i => t[j].symbol # t[i].symbol
    <3>1. ASSUME NEW j \in 1 .. m, j > i PROVE t[j].symbol # t[i].symbol
      <4>1. j # i
        BY <1>2, <2>1, <3>1
      <4>. QED BY <1>1, <1>3, <1>4, <2>1, <2>2, <4>1
    <3>. QED BY <3>1
  <2>4. HeldIn(r, t[i].symbol) = Signed(t[i]) * Unit(t[i].symbol)
    BY <1>2, <1>4, <1>6, <2>1, <2>3
  <2>. QED BY <1>4, <2>1, <2>2, <2>4 DEF Reads, es
<1>. QED BY <1>6, <1>7 DEF r, t, es

\* Where an entry without an id is passed over, all that have one are read.
LEMMA NamedReads ==
  ASSUME account \in Accounts, V # "hyperliquid", NEW c, Ready(c), NEW f \in Frames, GoodFrame(f),
         NEW id, DOMAIN id = DOMAIN f.positions, PlainIds(f, id)
  PROVE  LET r == Applied(c, f, Named(f.positions, id)) IN
         Keeps(c, f, r) /\ \A i \in DOMAIN f.positions : Reads(f, r, i)
<1>. DEFINE es == f.positions
            n == Len(es)
            t == Named(es, id)
            r == Applied(c, f, t)
<1>1. /\ n \in Nat /\ DOMAIN es = 1 .. n
      /\ \A i \in DOMAIN es : es[i] \in Reports \cup Fills
      /\ \A i, j \in DOMAIN es : es[i].symbol = es[j].symbol => i = j
  BY FrameFacts
<1>. HIDE DEF n
<1>2. \A i \in DOMAIN es : id[i] \in Ids /\ IsId(f, id[i])
  <2>1. Known \subseteq Ids /\ NoSymbol \in Ids
    BY AccountsAssumption DEF Ids
  <2>2. \A i \in DOMAIN es : IsId(f, id[i])
    BY PlainFacts
  <2>. QED BY <2>1, <2>2 DEF IsId
<1>3. DOMAIN t = 1 .. n /\ \A i \in 1 .. n : t[i] = Under(es[i], id[i])
  BY <1>1 DEF Named, Under
<1>4. ASSUME NEW i \in 1 .. n
      PROVE  t[i].symbol = id[i] /\ Signed(t[i]) = Signed(es[i]) /\ Signed(t[i]) \in Int
  <2>1. es[i] \in Reports \cup Fills /\ id[i] \in Ids
    BY <1>1, <1>2
  <2>2. LET q == Under(es[i], id[i]) IN
          q.symbol = id[i] /\ Signed(q) = Signed(es[i]) /\ Signed(es[i]) \in Int
    BY <2>1, ReadFacts
  <2>. QED BY <1>3, <2>2
<1>5. Entries(t, n) /\ \A i \in 1 .. n : IsId(f, t[i].symbol)
  BY <1>1, <1>2, <1>3, <1>4 DEF Entries
<1>. HIDE DEF t, es
<1>6. /\ Keeps(c, f, r)
      /\ \A i \in 1 .. n :
           t[i].symbol # NoSymbol /\ (\A j \in 1 .. n : j > i => t[j].symbol # t[i].symbol)
             => HeldIn(r, t[i].symbol) = Signed(t[i]) * Unit(t[i].symbol)
  BY <1>5, AppliedKeeps
<1>. HIDE DEF r
<1>7. ASSUME NEW i \in DOMAIN es PROVE Reads(f, r, i)
  <2>1. CASE es[i].symbol \in Known
    <3>1. i \in 1 .. n /\ id[i] = es[i].symbol /\ es[i].symbol # NoSymbol
      <4>1. es[i].symbol # NoSymbol
        BY FrameFacts DEF es
      <4>. QED BY <1>1, <2>1, <4>1 DEF PlainIds, Plain, es
    <3>2. ASSUME NEW j \in 1 .. n, j > i PROVE t[j].symbol # t[i].symbol
      <4>1. j # i /\ j \in DOMAIN es
        BY <1>1, <3>1, <3>2
      <4>2. es[j].symbol # es[i].symbol
        BY <1>1, <4>1
      <4>3. id[j] = es[j].symbol \/ id[j] = NoSymbol
        BY <4>1 DEF PlainIds, Plain, es
      <4>. QED BY <1>4, <3>1, <4>2, <4>3
    <3>3. HeldIn(r, t[i].symbol) = Signed(t[i]) * Unit(t[i].symbol)
      BY <1>4, <1>6, <3>1, <3>2
    <3>. QED BY <1>4, <3>1, <3>3 DEF Reads, es
  <2>2. CASE es[i].symbol \notin Known
    BY <2>2 DEF Reads, es
  <2>. QED BY <2>1, <2>2
<1>. QED BY <1>6, <1>7 DEF r, t, es

\* A cache that keeps what a frame does not tell of follows it if it has the
\* positions the frame tells of.
LEMMA KeepsFollow ==
  ASSUME account \in Accounts, V # "hyperliquid", NEW c, Ready(c), NEW f \in Frames, GoodFrame(f),
         NEW r, r \in Caches, DOMAIN r.positions \subseteq Held \cap Known,
         DOMAIN r.balances = DOMAIN c.balances \cup DOMAIN f.balances,
         \A a \in DOMAIN r.balances :
           r.balances[a] = IF a \in DOMAIN f.balances THEN f.balances[a] ELSE c.balances[a],
         \A s \in Held \cap Known :
           /\ s \notin Mentions(f) => HeldIn(r, s) = HeldIn(c, s)
           /\ s \in Mentions(f) \ Missed(f) => \A x \in Int : Tells(f, s, x) => HeldIn(r, s) = x
  PROVE  Follows(c, f, r)
<1>1. ASSUME NEW a \in Assets
      PROVE  a \in Mentions(f) <=> a \in DOMAIN f.balances
  <2>1. \A i \in DOMAIN f.positions : ~ IsSpot(f.positions[i].symbol)
    BY FrameFacts, HeldFacts
  <2>. QED BY <2>1, MentionsFacts
<1>2. ASSUME NEW a \in Assets, a \notin Mentions(f), a \in DOMAIN c.balances
      PROVE  TotalIn(r, a) = TotalIn(c, a)
  BY <1>1, <1>2 DEF TotalIn
<1>3. ASSUME NEW a \in Assets, a \in Mentions(f)
      PROVE  a \in DOMAIN r.balances /\ \A x \in Int : TellsTotal(f, a, x) => TotalIn(r, a) = x
  BY <1>1, <1>3 DEF TotalIn, TellsTotal
<1>. QED BY <1>2, <1>3 DEF Follows

\* A handler that reads every entry it does not miss follows its frame.
LEMMA ReadsFollow ==
  ASSUME account \in Accounts, V # "hyperliquid", ~ IsSnapshot,
         NEW c, Ready(c), NEW f \in Frames, GoodFrame(f), NEW r, Keeps(c, f, r),
         \A i \in DOMAIN f.positions : f.positions[i].symbol \notin Missed(f) => Reads(f, r, i)
  PROVE  Follows(c, f, r)
<1>1. f.snapshot = "none"
  BY DEF GoodFrame
<1>2. ASSUME NEW s \in Held \cap Known
      PROVE  /\ s \notin Mentions(f) => HeldIn(r, s) = HeldIn(c, s)
             /\ s \in Mentions(f) \ Missed(f) => \A x \in Int : Tells(f, s, x) => HeldIn(r, s) = x
  <2>1. s \in Symbols
    BY HeldFacts
  <2>2. s \in Mentions(f) <=> \E i \in DOMAIN f.positions : f.positions[i].symbol = s
    BY <1>1, <2>1, MentionsFacts
  <2>3. CASE s \notin Mentions(f)
    BY <2>2, <2>3 DEF Keeps
  <2>4. ASSUME s \in Mentions(f), s \notin Missed(f), NEW x \in Int, Tells(f, s, x)
        PROVE  HeldIn(r, s) = x
    <3>1. PICK i \in DOMAIN f.positions : f.positions[i].symbol = s
      BY <2>2, <2>4
    <3>2. HeldIn(r, s) = Signed(f.positions[i]) * Unit(s)
      BY <2>4, <3>1 DEF Reads
    <3>3. Amount(f.positions[i]) = x
      BY <2>4, <3>1 DEF Tells
    <3>. QED BY <3>1, <3>2, <3>3 DEF Amount
  <2>. QED BY <2>3, <2>4
<1>3. /\ r \in Caches /\ DOMAIN r.positions \subseteq Held \cap Known
      /\ DOMAIN r.balances = DOMAIN c.balances \cup DOMAIN f.balances
      /\ \A a \in DOMAIN r.balances :
           r.balances[a] = IF a \in DOMAIN f.balances THEN f.balances[a] ELSE c.balances[a]
  BY DEF Keeps
<1>. QED BY <1>2, <1>3, KeepsFollow

\* The suffix of each product of a futures account.
LEMMA SuffixFacts ==
  /\ Suffix("usdt") = "_linear" /\ Suffix("usdc") = "_linear" /\ Suffix("inverse") = "_inverse"
BY DEF Suffix

\* UM and CM, spot and portfolio margin of Binance.
LEMMA BinanceFollows ==
  ASSUME account \in Accounts, V = "binance", NEW c, Ready(c), NEW f \in Frames, GoodFrame(f)
  PROVE  Follows(c, f, BinanceHandle(c, f))
<1>. DEFINE es == f.positions
            suffix(s) == CASE account[2] = "linear"  -> "_linear"
                           [] account[2] = "inverse" -> "_inverse"
                           [] OTHER -> IF ProductOf[s] = "inverse" THEN "_inverse" ELSE "_linear"
            id == [i \in DOMAIN es |-> MarketId(es[i].symbol, suffix(es[i].symbol))]
            r == Applied(c, f, Taken(es, id))
<1>1. BinanceHandle(c, f) = r
  BY DEF BinanceHandle
<1>2. ASSUME NEW i \in DOMAIN es PROVE id[i] = Plain(es[i].symbol)
  <2>. DEFINE s == es[i].symbol
  <2>1. s \in Tradable
    BY FrameFacts
  <2>. HIDE DEF s
  <2>2. /\ ProductOf[s] \in {"usdt", "usdc", "inverse"}
        /\ account[2] = "linear" => ProductOf[s] \in {"usdt", "usdc"}
        /\ account[2] = "inverse" => ProductOf[s] = "inverse"
    BY <2>1, TradableFacts
  <2>3. suffix(s) = Suffix(ProductOf[s])
    <3>1. CASE account[2] = "linear"
      BY <2>2, <3>1, SuffixFacts
    <3>2. CASE account[2] = "inverse"
      BY <2>2, <3>2, SuffixFacts
    <3>3. CASE account[2] \notin {"linear", "inverse"}
      BY <2>2, <3>3, SuffixFacts
    <3>. QED BY <3>1, <3>2, <3>3
  <2>4. id[i] = MarketId(s, suffix(s))
    BY DEF s
  <2>. HIDE DEF suffix, id
  <2>. QED BY <2>3, <2>4 DEF MarketId, Plain, s
<1>3. DOMAIN id = DOMAIN es
  OBVIOUS
<1>. HIDE DEF id
<1>4. PlainIds(f, id) /\ \A i \in DOMAIN f.positions : IsId(f, id[i])
  <2>1. PlainIds(f, id)
    BY <1>2 DEF PlainIds
  <2>. QED BY <2>1, PlainFacts
<1>5. Keeps(c, f, r) /\ \A i \in DOMAIN f.positions \ Behind(f) : Reads(f, r, i)
  BY <1>3, <1>4, TakenReads
<1>6. V # "okx" /\ account # <<"bitget", "uta">> /\ ~ IsSnapshot /\ V # "hyperliquid"
  BY DEF IsSnapshot, V
<1>7. \A i \in Behind(f) : f.positions[i].symbol \in Missed(f)
  BY <1>6, MissedFacts
<1>. HIDE DEF r
<1>. QED BY <1>1, <1>5, <1>6, <1>7, ReadsFollow

\* OKX: sizes are in contracts, and an instrument without a market is passed over.
LEMMA OkxFollows ==
  ASSUME account \in Accounts, V = "okx", NEW c, Ready(c), NEW f \in Frames, GoodFrame(f)
  PROVE  Follows(c, f, OkxHandle(c, f))
<1>. DEFINE es == f.positions
            id == [i \in DOMAIN es |-> RawMarketId(es[i].symbol)]
            r == Applied(c, f, Named(es, id))
<1>1. OkxHandle(c, f) = r
  BY DEF OkxHandle
<1>2. PlainIds(f, id) /\ DOMAIN id = DOMAIN f.positions
  BY DEF PlainIds, Plain, RawMarketId
<1>3. V # "hyperliquid" /\ ~ IsSnapshot
  BY DEF IsSnapshot, V
<1>. HIDE DEF id
<1>4. Keeps(c, f, r) /\ \A i \in DOMAIN f.positions : Reads(f, r, i)
  BY <1>2, <1>3, NamedReads
<1>. HIDE DEF r
<1>. QED BY <1>1, <1>3, <1>4, ReadsFollow

\* The unified account of Bitget: a symbol without a market is passed over.
LEMMA BitgetUtaFollows ==
  ASSUME account \in Accounts, account = <<"bitget", "uta">>,
         NEW c, Ready(c), NEW f \in Frames, GoodFrame(f)
  PROVE  Follows(c, f, BitgetUtaHandle(c, f))
<1>. DEFINE es == f.positions
            suffix(s) == IF ProductOf[s] \in {"usdt", "usdc"} THEN "_linear" ELSE "_inverse"
            id == [i \in DOMAIN es |-> MarketId(es[i].symbol, suffix(es[i].symbol))]
            r == Applied(c, f, Named(es, id))
<1>1. BitgetUtaHandle(c, f) = r
  BY DEF BitgetUtaHandle
<1>2. V = "bitget" /\ V # "hyperliquid" /\ ~ IsSnapshot
  BY DEF IsSnapshot, V
<1>3. ASSUME NEW i \in DOMAIN es PROVE id[i] = Plain(es[i].symbol)
  <2>. DEFINE s == es[i].symbol
  <2>1. s \in Tradable
    BY FrameFacts
  <2>. HIDE DEF s
  <2>2. ProductOf[s] \in {"usdt", "usdc", "inverse"}
    BY <1>2, <2>1, TradableFacts
  <2>3. suffix(s) = Suffix(ProductOf[s])
    BY <2>2, SuffixFacts
  <2>4. id[i] = MarketId(s, suffix(s))
    BY DEF s
  <2>. HIDE DEF suffix, id
  <2>. QED BY <2>3, <2>4 DEF MarketId, Plain, s
<1>4. DOMAIN id = DOMAIN f.positions
  OBVIOUS
<1>. HIDE DEF id
<1>5. PlainIds(f, id)
  BY <1>3 DEF PlainIds
<1>6. Keeps(c, f, r) /\ \A i \in DOMAIN f.positions : Reads(f, r, i)
  BY <1>2, <1>4, <1>5, NamedReads
<1>. HIDE DEF r
<1>. QED BY <1>1, <1>2, <1>6, ReadsFollow

\* Bybit: the category of an entry carries over from the last one that had one.
LEMMA BybitFollows ==
  ASSUME account \in Accounts, V = "bybit", NEW c, Ready(c), NEW f \in Frames, GoodFrame(f)
  PROVE  Follows(c, f, BybitHandle(c, f))
<1>. DEFINE es == f.positions
            futures == {"usdt", "usdc", "inverse"}
            named(i) == {j \in 1 .. i : ProductOf[es[j].symbol] \in futures}
            id == [i \in DOMAIN es |->
                     IF named(i) = {} THEN NoSymbol
                     ELSE LET s == es[Max(named(i))].symbol IN MarketId(s, Suffix(ProductOf[s]))]
            r == Applied(c, f, Taken(es, id))
<1>1. BybitHandle(c, f) = r
  BY DEF BybitHandle
<1>2. Len(es) \in Nat /\ DOMAIN es = 1 .. Len(es) /\ \A i \in DOMAIN es : es[i].symbol \in Tradable
  BY FrameFacts
<1>3. ASSUME NEW i \in DOMAIN es, named(i) # {}
      PROVE  /\ Max(named(i)) \in DOMAIN es /\ id[i] = Plain(es[Max(named(i))].symbol)
             /\ ProductOf[es[i].symbol] \in futures => Max(named(i)) = i
  <2>. DEFINE k == Max(named(i))
  <2>1. i \in Nat /\ named(i) \subseteq 1 .. i
    BY <1>2
  <2>2. k \in named(i) /\ \A y \in named(i) : y <= k
    <3>. HIDE DEF named
    <3>. QED BY <1>3, <2>1, MaxFacts, Zenon
  <2>3. k \in 1 .. i
    <3>. HIDE DEF named, k
    <3>. QED BY <2>1, <2>2
  <2>4. ProductOf[es[i].symbol] \in futures => k = i
    <3>1. ProductOf[es[i].symbol] \in futures => i \in named(i)
      BY <1>2
    <3>. HIDE DEF k, named, futures
    <3>. QED BY <2>1, <2>2, <2>3, <3>1
  <2>5. id[i] = LET s == es[k].symbol IN MarketId(s, Suffix(ProductOf[s]))
    BY <1>3
  <2>. HIDE DEF k, id
  <2>6. id[i] = Plain(es[k].symbol)
    BY <2>5 DEF MarketId, Plain
  <2>7. k \in DOMAIN es
    BY <1>2, <2>3
  <2>. QED BY <2>4, <2>6, <2>7 DEF k
<1>4. ASSUME NEW i \in DOMAIN es PROVE IsId(f, id[i])
  <2>1. CASE named(i) = {}
    BY <2>1 DEF IsId
  <2>2. CASE named(i) # {}
    <3>. DEFINE k == Max(named(i))
    <3>1. k \in DOMAIN es /\ id[i] = Plain(es[k].symbol)
      BY <1>3, <2>2
    <3>. HIDE DEF id, k
    <3>. QED BY <3>1 DEF IsId, Plain
  <2>. QED BY <2>1, <2>2
<1>5. DOMAIN id = DOMAIN f.positions
  OBVIOUS
<1>6. V # "hyperliquid" /\ ~ IsSnapshot /\ V # "okx" /\ account # <<"bitget", "uta">>
  BY DEF IsSnapshot, V
<1>7. (\A i \in DOMAIN es : ProductOf[es[i].symbol] # "option") => PlainIds(f, id)
  <2>1. ASSUME NEW i \in DOMAIN es, ProductOf[es[i].symbol] # "option"
        PROVE  id[i] = Plain(es[i].symbol)
    <3>1. ProductOf[es[i].symbol] \in futures
      <4>. DEFINE s == es[i].symbol
      <4>1. s \in Tradable
        BY <1>2
      <4>. HIDE DEF s
      <4>2. ProductOf[s] \in {"usdt", "usdc", "inverse", "option"}
        BY <4>1, TradableFacts
      <4>. QED BY <2>1, <4>2 DEF s
    <3>2. i \in named(i)
      BY <1>2, <3>1
    <3>3. named(i) # {}
      BY <3>2
    <3>. QED BY <1>3, <3>1, <3>3
  <2>. HIDE DEF id
  <2>. QED BY <2>1 DEF PlainIds
<1>. HIDE DEF id
<1>8. /\ Keeps(c, f, r)
      /\ PlainIds(f, id) => \A i \in DOMAIN f.positions \ Behind(f) : Reads(f, r, i)
  BY <1>4, <1>5, <1>6, TakenReads
<1>9. /\ \A i \in Behind(f) : f.positions[i].symbol \in Missed(f)
      /\ (\E i \in DOMAIN es : ProductOf[es[i].symbol] = "option") =>
           \A i \in DOMAIN es : es[i].symbol \in Missed(f)
  BY <1>6, MissedFacts
<1>. HIDE DEF r
<1>10. \A i \in DOMAIN f.positions : f.positions[i].symbol \notin Missed(f) => Reads(f, r, i)
  BY <1>7, <1>8, <1>9
<1>. QED BY <1>1, <1>6, <1>8, <1>10, ReadsFollow

\* A position reported by its side has the size it had by its sign.
LEMMA SignedReports ==
  ASSUME NEW s \in Symbols, NEW x \in Int
  PROVE  /\ NetReport(s, x).symbol = s /\ Signed(NetReport(s, x)) = x
         /\ SidedReport(s, x).symbol = s /\ Signed(SidedReport(s, x)) = x
         /\ NetReport(s, x) \in Reports /\ SidedReport(s, x) \in Reports
<1>1. s \in Ids
  BY DEF Ids
<1>2. NetReport(s, x).symbol = s /\ Signed(NetReport(s, x)) = x /\ NetReport(s, x) \in Reports
  BY <1>1 DEF NetReport, Signed, Reports, Sides
<1>. DEFINE e == SidedReport(s, x)
<1>3. e.symbol = s /\ e.side = SideOf(x) /\ e.size = Abs(x)
  BY DEF SidedReport
<1>4. SideOf(x) \in {"flat", "long", "short"} /\ Abs(x) \in Int
  BY DEF SideOf, Abs
<1>5. e \in Reports
  BY <1>1, <1>4 DEF SidedReport, Reports, Sides
<1>6. Signed(e) = x
  <2>. HIDE DEF e
  <2>. QED BY <1>3 DEF Signed, SideOf, Abs
<1>. QED BY <1>2, <1>3, <1>5, <1>6

\* A snapshot closes what it does not list, if all of it can be read.
LEMMA BitgetFollows ==
  ASSUME account \in Accounts, V = "bitget", account # <<"bitget", "uta">>,
         NEW c, Ready(c), NEW f \in Frames, GoodFrame(f)
  PROVE  Follows(c, f, BitgetHandle(c, f))
<1>. DEFINE es == f.positions
            id == [i \in DOMAIN es |-> MarketId(es[i].symbol, Suffix(f.snapshot))]
            listed == Applied(c, f, Taken(es, id))
            left == {s \in DOMAIN c.positions : ProductOf[s] = f.snapshot}
                      \ {es[i].symbol : i \in DOMAIN es}
            closed == SetToSeq(left)
            q == [i \in DOMAIN closed |-> NetReport(closed[i], 0)]
            after == ApplyEntries(listed, q)
            r == BitgetHandle(c, f)
<1>1. r = IF \E i \in DOMAIN es : id[i] = NoSymbol THEN listed ELSE after
  BY DEF BitgetHandle
<1>2. /\ \A i \in DOMAIN es : es[i].symbol \in Held /\ es[i].symbol \in Symbols
                               /\ es[i].symbol # NoSymbol
      /\ V # "hyperliquid" /\ V # "okx"
  BY FrameFacts
<1>3. \A i \in DOMAIN es : ProductOf[es[i].symbol] = f.snapshot
  <2>1. CASE IsSnapshot
    BY <2>1 DEF GoodFrame
  <2>2. CASE ~ IsSnapshot
    <3>1. account[2] = "spot"
      <4>1. account = <<V, account[2]>> /\ account[2] \in {"spot", "futures", "uta"}
        BY AccountFacts
      <4>. QED BY <2>2, <4>1 DEF IsSnapshot
    <3>2. DOMAIN es = {}
      BY <3>1, FrameFacts, TradableFacts
    <3>. QED BY <3>2
  <2>. QED BY <2>1, <2>2
<1>4. PlainIds(f, id) /\ DOMAIN id = DOMAIN f.positions
  BY <1>3 DEF PlainIds, Plain, MarketId
<1>5. \A i \in DOMAIN es : IsId(f, id[i]) /\ (id[i] = NoSymbol <=> es[i].symbol \notin Known)
  <2>. HIDE DEF id
  <2>1. \A i \in DOMAIN es : id[i] = NoSymbol <=> es[i].symbol \notin Known
    BY <1>2, <1>4 DEF PlainIds, Plain
  <2>. QED BY <1>4, <2>1, PlainFacts
<1>. HIDE DEF id
<1>6. Keeps(c, f, listed) /\ \A i \in DOMAIN f.positions \ Behind(f) : Reads(f, listed, i)
  BY <1>2, <1>4, <1>5, TakenReads
<1>. HIDE DEF listed
<1>7. \A i \in Behind(f) : f.positions[i].symbol \in Missed(f)
  BY <1>2, MissedFacts
<1>8. c \in Caches /\ DOMAIN c.positions \subseteq Held \cap Known
  BY DEF Ready
<1>9. \A s \in Held \cap Known : s \in Symbols /\ ProductOf[s] # "none"
  <2>1. \A s \in Symbols : ProductOf[s] # "none"
    BY AccountsAssumption
  <2>. QED BY <2>1, HeldFacts
\* A symbol that is told of is listed, or is not and is closed.
<1>10. ASSUME NEW s \in Held \cap Known
       PROVE  s \in Mentions(f) <=> \/ \E i \in DOMAIN es : es[i].symbol = s
                                    \/ ProductOf[s] = f.snapshot
  BY <1>9, MentionsFacts
<1>11. ASSUME NEW s \in Held \cap Known, NEW i \in DOMAIN es, es[i].symbol = s, s \notin Missed(f),
              NEW x \in Int, Tells(f, s, x)
       PROVE  HeldIn(listed, s) = x
  <2>1. HeldIn(listed, s) = Signed(es[i]) * Unit(s)
    BY <1>6, <1>7, <1>11 DEF Reads
  <2>2. Amount(es[i]) = x
    BY <1>11 DEF Tells
  <2>. QED BY <1>2, <1>11, <2>1, <2>2 DEF Amount
<1>12. CASE \E i \in DOMAIN es : id[i] = NoSymbol
  <2>1. \E i \in DOMAIN es : es[i].symbol \notin Known
    BY <1>5, <1>12
  <2>2. r = listed
    BY <1>1, <1>12
  <2>3. IsSnapshot
    <3>1. PICK i \in DOMAIN es : TRUE
      BY <1>12
    <3>2. f.snapshot # "none"
      <4>1. es[i].symbol \in Symbols
        BY <1>2, <3>1
      <4>. QED BY <1>3, <4>1, AccountsAssumption
    <3>. QED BY <3>2 DEF GoodFrame
  <2>4. ASSUME NEW s \in Held \cap Known
        PROVE  /\ s \notin Mentions(f) => HeldIn(r, s) = HeldIn(c, s)
               /\ s \in Mentions(f) \ Missed(f) =>
                    \A x \in Int : Tells(f, s, x) => HeldIn(r, s) = x
    <3>1. s \notin Mentions(f) => HeldIn(r, s) = HeldIn(c, s)
      BY <1>6, <1>10, <2>2 DEF Keeps
    <3>2. ASSUME s \in Mentions(f), s \notin Missed(f), NEW x \in Int, Tells(f, s, x)
          PROVE  HeldIn(r, s) = x
      <4>1. PICK i \in DOMAIN f.positions \ Behind(f) : f.positions[i].symbol = s
        BY <2>1, <2>3, <3>2, MissedFacts
      <4>. QED BY <1>11, <2>2, <3>2, <4>1
    <3>. QED BY <3>1, <3>2
  <2>5. /\ r \in Caches /\ DOMAIN r.positions \subseteq Held \cap Known
        /\ DOMAIN r.balances = DOMAIN c.balances \cup DOMAIN f.balances
        /\ \A a \in DOMAIN r.balances :
             r.balances[a] = IF a \in DOMAIN f.balances THEN f.balances[a] ELSE c.balances[a]
    BY <1>6, <2>2 DEF Keeps
  <2>. HIDE DEF r
  <2>6. Follows(c, f, r)
    BY <1>2, <2>4, <2>5, KeepsFollow
  <2>. QED BY <2>6 DEF r
<1>13. CASE ~ \E i \in DOMAIN es : id[i] = NoSymbol
  <2>1. r = after
    BY <1>1, <1>13
  <2>2. left \subseteq Symbols /\ left \subseteq DOMAIN c.positions
    BY <1>8, <1>9
  <2>. DEFINE n == Cardinality(left)
  <2>3. /\ n \in Nat /\ DOMAIN closed = 1 .. n
        /\ \A i \in DOMAIN closed : closed[i] \in left
        /\ \A i, j \in DOMAIN closed : closed[i] = closed[j] => i = j
        /\ \A s \in left : \E i \in DOMAIN closed : closed[i] = s
    <3>1. IsFiniteSet(left)
      <4>. HIDE DEF left
      <4>. QED BY <2>2, FiniteFacts
    <3>. HIDE DEF left
    <3>. QED BY <3>1, SetToSeqFacts
  <2>. HIDE DEF closed, n
  <2>4. ASSUME NEW i \in 1 .. n
        PROVE  q[i].symbol = closed[i] /\ Signed(q[i]) = 0 /\ closed[i] \in Symbols
    <3>1. closed[i] \in Symbols /\ q[i] = NetReport(closed[i], 0) /\ 0 \in Int
      BY <2>2, <2>3
    <3>. QED BY <3>1, SignedReports
  <2>5. Entries(q, n)
    <3>1. DOMAIN q = 1 .. n
      BY <2>3
    <3>. HIDE DEF q
    <3>. QED BY <2>3, <2>4, <3>1 DEF Entries, Ids
  <2>6. listed \in Caches /\ DOMAIN listed.positions \subseteq Held \cap Known
    BY <1>6 DEF Keeps
  <2>. HIDE DEF q
  <2>7. /\ after \in Caches /\ after.balances = listed.balances
        /\ \A y \in DOMAIN after.positions : y \notin DOMAIN listed.positions =>
              \E i \in 1 .. n : q[i].symbol = y /\ y # NoSymbol
        /\ \A y : (\A i \in 1 .. n : q[i].symbol # y) => HeldIn(after, y) = HeldIn(listed, y)
        /\ \A i \in 1 .. n :
              q[i].symbol # NoSymbol /\ (\A j \in 1 .. n : j > i => q[j].symbol # q[i].symbol)
                => HeldIn(after, q[i].symbol) = Signed(q[i]) * Unit(q[i].symbol)
    BY <2>5, <2>6, EntriesApplied
  <2>. HIDE DEF after
  <2>8. ASSUME NEW s \in left PROVE HeldIn(after, s) = 0
    <3>1. PICK i \in 1 .. n : closed[i] = s
      BY <2>3
    <3>2. \A j \in 1 .. n : j > i => q[j].symbol # q[i].symbol
      <4>1. ASSUME NEW j \in 1 .. n, j > i PROVE q[j].symbol # q[i].symbol
        <5>1. j # i
          BY <2>3, <4>1
        <5>. QED BY <2>3, <2>4, <5>1
      <4>. QED BY <4>1
    <3>3. q[i].symbol = s /\ s \in Symbols /\ s # NoSymbol /\ Signed(q[i]) = 0
      <4>1. \A y \in Symbols : y # NoSymbol
        BY AccountsAssumption
      <4>. QED BY <2>4, <3>1, <4>1
    <3>4. HeldIn(after, s) = 0 * Unit(s) /\ Unit(s) \in Int
      BY <2>7, <3>2, <3>3, UnitFacts
    <3>. QED BY <3>4
  <2>9. \A s : s \notin left => HeldIn(after, s) = HeldIn(listed, s)
    BY <2>3, <2>4, <2>7
  <2>10. DOMAIN after.positions \subseteq Held \cap Known
    <3>1. ASSUME NEW y \in DOMAIN after.positions PROVE y \in Held \cap Known
      <4>1. CASE y \in DOMAIN listed.positions
        BY <2>6, <4>1
      <4>2. CASE y \notin DOMAIN listed.positions
        <5>1. y \in left
          BY <2>3, <2>4, <2>7, <4>2
        <5>. QED BY <1>8, <2>2, <5>1
      <4>. QED BY <4>1, <4>2
    <3>. QED BY <3>1
  <2>11. ASSUME NEW s \in Held \cap Known
         PROVE  /\ s \notin Mentions(f) => HeldIn(after, s) = HeldIn(c, s)
                /\ s \in Mentions(f) \ Missed(f) =>
                     \A x \in Int : Tells(f, s, x) => HeldIn(after, s) = x
    <3>1. CASE \E i \in DOMAIN es : es[i].symbol = s
      <4>1. s \notin left /\ s \in Mentions(f)
        BY <1>10, <3>1
      <4>. HIDE DEF left
      <4>. QED BY <1>11, <2>9, <3>1, <4>1
    <3>2. CASE ~ \E i \in DOMAIN es : es[i].symbol = s
      <4>1. HeldIn(listed, s) = HeldIn(c, s)
        BY <1>6, <3>2 DEF Keeps
      <4>2. s \in left => s \in Mentions(f)
        BY <1>10
      <4>3. s \notin Mentions(f) => HeldIn(after, s) = HeldIn(c, s)
        <5>. HIDE DEF left
        <5>. QED BY <2>9, <4>1, <4>2
      <4>4. ASSUME s \in Mentions(f), NEW x \in Int, Tells(f, s, x) PROVE HeldIn(after, s) = x
        <5>1. x = 0
          BY <3>2, <4>4 DEF Tells
        <5>2. CASE s \in left
          <6>. HIDE DEF left
          <6>. QED BY <2>8, <5>1, <5>2
        <5>3. CASE s \notin left
          <6>1. s \notin DOMAIN c.positions
            BY <1>10, <3>2, <4>4, <5>3
          <6>2. HeldIn(c, s) = 0
            BY <6>1 DEF HeldIn
          <6>. HIDE DEF left
          <6>. QED BY <2>9, <4>1, <5>1, <5>3, <6>2
        <5>. QED BY <5>2, <5>3
      <4>. QED BY <4>3, <4>4
    <3>. QED BY <3>1, <3>2
  <2>12. /\ DOMAIN after.balances = DOMAIN c.balances \cup DOMAIN f.balances
         /\ \A a \in DOMAIN after.balances :
             after.balances[a] = IF a \in DOMAIN f.balances THEN f.balances[a] ELSE c.balances[a]
    BY <1>6, <2>7 DEF Keeps
  <2>13. after \in Caches
    BY <2>7
  <2>14. Follows(c, f, after)
    BY <1>2, <2>10, <2>11, <2>12, <2>13, KeepsFollow
  <2>. QED BY <2>1, <2>14
<1>. QED BY <1>12, <1>13

\* Hyperliquid: a fill says what was held before it, a spot fill moves the quote.
LEMMA HyperliquidFollows ==
  ASSUME account \in Accounts, V = "hyperliquid", NEW c, Ready(c), NEW f \in Frames, GoodFrame(f)
  PROVE  Follows(c, f, HyperliquidHandle(c, f))
<1>. DEFINE es == f.positions
            id == [i \in DOMAIN es |-> RawMarketId(es[i].symbol)]
            t == Taken(es, id)
            r == ApplyFills(c, t)
<1>1. HyperliquidHandle(c, f) = r
  BY DEF HyperliquidHandle
<1>2. /\ es \in Seq(Reports \cup Fills) /\ Len(es) \in Nat /\ DOMAIN es = 1 .. Len(es)
      /\ \A i \in DOMAIN es :
           /\ es[i] \in Fills /\ es[i] \in Reports \cup Fills /\ es[i].symbol \in Tradable
           /\ es[i].symbol \in Symbols /\ es[i].symbol # NoSymbol /\ es[i].symbol \in Ids
      /\ \A i, j \in DOMAIN es : es[i].symbol = es[j].symbol => i = j
      /\ DOMAIN f.balances = {} /\ f.snapshot = "none"
  <2>1. ~ IsSnapshot
    BY DEF IsSnapshot, V
  <2>. QED BY <2>1, FrameFacts DEF GoodFrame
<1>3. DOMAIN id = DOMAIN es /\ \A i \in DOMAIN es : id[i] = Plain(es[i].symbol)
  BY DEF Plain, RawMarketId
<1>. HIDE DEF id
<1>4. PICK m \in 0 .. Len(es) :
        /\ DOMAIN t = 1 .. m
        /\ \A i \in 1 .. m : t[i] = Under(es[i], id[i]) /\ id[i] # NoSymbol
        /\ m < Len(es) => id[m + 1] = NoSymbol
  <2>1. es \in Seq(Reports \cup Fills) /\ DOMAIN id = DOMAIN es
    BY <1>2, <1>3
  <2>. HIDE DEF es
  <2>. QED BY ONLY <2>1, TakenFacts DEF t
<1>. HIDE DEF t
<1>5. ASSUME NEW i \in 1 .. m
      PROVE  /\ i \in DOMAIN es /\ es[i].symbol \in Known /\ t[i].symbol = es[i].symbol
             /\ Signed(t[i]) = Signed(es[i]) /\ Signed(t[i]) \in Int
             /\ t[i].start = es[i].start /\ t[i].start \in Int
             /\ Bought(t[i]) = Bought(es[i]) /\ Paying(t[i]) = Paying(es[i])
  <2>1. i \in DOMAIN es
    BY <1>2, <1>4
  <2>2. id[i] = es[i].symbol /\ es[i].symbol \in Known
    BY <1>3, <1>4, <2>1 DEF Plain
  <2>3. LET e == Under(es[i], id[i]) IN
         /\ Signed(es[i]) \in Int
         /\ e.symbol = id[i] /\ Signed(e) = Signed(es[i])
         /\ es[i].start \in Int /\ e.start = es[i].start
         /\ Bought(e) = Bought(es[i]) /\ Paying(e) = Paying(es[i])
    <3>1. es[i] \in Reports \cup Fills /\ es[i] \in Fills /\ id[i] \in Ids
      BY <1>2, <2>1, <2>2
    <3>. QED BY <3>1, ReadFacts
  <2>4. t[i] = Under(es[i], id[i])
    BY <1>4
  <2>. QED BY <2>1, <2>2, <2>3, <2>4
<1>6. FillEntries(t, m)
  BY <1>2, <1>4, <1>5 DEF FillEntries
<1>7. c \in FullCaches /\ DOMAIN c.balances = Assets /\ DOMAIN c.positions \subseteq Held \cap Known
  BY DEF Ready, FullCaches
<1>8. /\ r \in FullCaches
      /\ \A y \in DOMAIN r.positions : y \notin DOMAIN c.positions =>
              \E i \in 1 .. m : t[i].symbol = y /\ ~ IsSpot(y)
      /\ \A y : (\A i \in 1 .. m : t[i].symbol # y) => HeldIn(r, y) = HeldIn(c, y)
      /\ \A i \in 1 .. m :
              ~ IsSpot(t[i].symbol) /\ (\A j \in 1 .. m : j > i => t[j].symbol # t[i].symbol)
                => HeldIn(r, t[i].symbol) = t[i].start + Signed(t[i])
      /\ (\A i \in 1 .. m : ~ IsSpot(t[i].symbol)) => r.balances = c.balances
      /\ \A i \in 1 .. m :
              IsSpot(t[i].symbol) /\ (\A j \in 1 .. m : j # i => ~ IsSpot(t[j].symbol))
                => /\ TotalIn(r, "base") = Bought(t[i])
                   /\ TotalIn(r, "quote") = TotalIn(c, "quote") + Paying(t[i])
  BY <1>6, <1>7, FillsApplied
<1>. HIDE DEF r
\* What is read of the frame is all of it that is not missed.
<1>9. /\ \A i \in Behind(f) : f.positions[i].symbol \in Missed(f)
      /\ \A i \in Behind(f) : IsSpot(f.positions[i].symbol) => Assets \subseteq Missed(f)
  <2>1. V # "okx" /\ account # <<"bitget", "uta">>
    BY DEF V
  <2>. QED BY <2>1, MissedFacts
<1>10. ASSUME NEW i \in DOMAIN es, i \notin 1 .. m PROVE i \in Behind(f)
  <2>1. m < Len(es) /\ m + 1 \in DOMAIN es /\ m + 1 <= i
    BY <1>2, <1>4, <1>10
  <2>2. id[m + 1] = NoSymbol
    BY <1>4, <2>1
  <2>3. es[m + 1].symbol \notin Known
    BY <1>2, <1>3, <2>1, <2>2 DEF Plain
  <2>. QED BY <2>1, <2>3 DEF Behind
<1>11. \A i, j \in DOMAIN es : IsSpot(es[i].symbol) /\ IsSpot(es[j].symbol) => i = j
  BY <1>2, AccountsAssumption DEF IsSpot
<1>12. DOMAIN r.positions \subseteq Held \cap Known
  <2>1. ASSUME NEW y \in DOMAIN r.positions PROVE y \in Held \cap Known
    <3>1. CASE y \in DOMAIN c.positions
      BY <1>7, <3>1
    <3>2. CASE y \notin DOMAIN c.positions
      <4>1. PICK i \in 1 .. m : t[i].symbol = y /\ ~ IsSpot(y)
        BY <1>8, <3>2
      <4>2. y \in Tradable /\ y \in Known
        BY <1>2, <1>5, <4>1
      <4>. QED BY <4>1, <4>2 DEF Held, IsSpot
    <3>. QED BY <3>1, <3>2
  <2>. QED BY <2>1
<1>13. r \in Caches /\ DOMAIN r.balances = Assets
  BY <1>8 DEF FullCaches
<1>14. ASSUME NEW s \in Held \cap Known
       PROVE  /\ s \notin Mentions(f) => HeldIn(r, s) = HeldIn(c, s)
              /\ s \in Mentions(f) \ Missed(f) =>
                   \A x \in Int : Tells(f, s, x) => HeldIn(r, s) = x
  <2>1. s \in Symbols /\ ~ IsSpot(s)
    BY HeldFacts
  <2>2. s \in Mentions(f) <=> \E i \in DOMAIN es : es[i].symbol = s
    BY <1>2, <2>1, MentionsFacts
  <2>3. s \notin Mentions(f) => HeldIn(r, s) = HeldIn(c, s)
    BY <1>5, <1>8, <2>2
  <2>4. ASSUME s \in Mentions(f), s \notin Missed(f), NEW x \in Int, Tells(f, s, x)
        PROVE  HeldIn(r, s) = x
    <3>1. PICK i \in DOMAIN es : es[i].symbol = s
      BY <2>2, <2>4
    <3>2. i \in 1 .. m
      BY <1>9, <1>10, <2>4, <3>1
    <3>3. \A j \in 1 .. m : j > i => t[j].symbol # t[i].symbol
      <4>1. ASSUME NEW j \in 1 .. m, j > i PROVE t[j].symbol # t[i].symbol
        <5>1. j # i /\ j \in DOMAIN es
          BY <1>4, <1>5, <3>2, <4>1
        <5>. QED BY <1>2, <1>5, <3>1, <3>2, <5>1
      <4>. QED BY <4>1
    <3>4. HeldIn(r, s) = es[i].start + Signed(es[i])
      BY <1>5, <1>8, <2>1, <3>1, <3>2, <3>3
    <3>5. Amount(es[i]) = x
      BY <2>4, <3>1 DEF Tells
    <3>. QED BY <3>4, <3>5 DEF Amount
  <2>. QED BY <2>3, <2>4
<1>15. \A a \in Assets : a \in Mentions(f) <=> \E i \in DOMAIN es : IsSpot(es[i].symbol)
  BY <1>2, MentionsFacts
<1>16. ASSUME \A i \in DOMAIN es : ~ IsSpot(es[i].symbol)
       PROVE  \A a \in Assets : TotalIn(r, a) = TotalIn(c, a)
  <2>1. \A i \in 1 .. m : ~ IsSpot(t[i].symbol)
    BY <1>5, <1>16
  <2>. QED BY <1>8, <2>1 DEF TotalIn
<1>17. ASSUME NEW i \in DOMAIN es, IsSpot(es[i].symbol), ~ (Assets \subseteq Missed(f))
       PROVE  /\ TotalIn(r, "base") = Bought(es[i])
              /\ TotalIn(r, "quote") = TotalIn(c, "quote") + Paying(es[i])
  <2>1. i \in 1 .. m
    BY <1>9, <1>10, <1>17
  <2>2. \A j \in 1 .. m : j # i => ~ IsSpot(t[j].symbol)
    BY <1>5, <1>11, <1>17
  <2>. QED BY <1>5, <1>8, <1>17, <2>1, <2>2
<1>18. ASSUME "base" \in Mentions(f), "base" \notin Missed(f), NEW x \in Int,
                TellsTotal(f, "base", x)
       PROVE  TotalIn(r, "base") = x
  <2>1. PICK i \in DOMAIN es : IsSpot(es[i].symbol)
    BY <1>15, <1>18 DEF Assets
  <2>2. TotalIn(r, "base") = Bought(es[i])
    BY <1>17, <1>18, <2>1 DEF Assets
  <2>. QED BY <1>18, <2>1, <2>2 DEF TellsTotal
<1>19. ASSUME "quote" \notin Missed(f), NEW d \in Int, Moves(f, d)
       PROVE  TotalIn(r, "quote") = TotalIn(c, "quote") + d
  <2>1. CASE \A i \in DOMAIN es : ~ IsSpot(es[i].symbol)
    <3>1. d = 0 /\ TotalIn(r, "quote") = TotalIn(c, "quote")
      BY <1>16, <1>19, <2>1 DEF Moves, Assets
    <3>2. TotalIn(c, "quote") \in Int
      <4>1. c.balances \in Purses
        BY DEF Ready, Caches
      <4>2. c.balances["quote"] \in Purse
        BY <1>7, <4>1, PursesFacts DEF Assets
      <4>. QED BY <4>2 DEF Purse, TotalIn
    <3>. QED BY <3>1, <3>2
  <2>2. CASE \E i \in DOMAIN es : IsSpot(es[i].symbol)
    <3>1. PICK i \in DOMAIN es : IsSpot(es[i].symbol)
      BY <2>2
    <3>2. d = Paying(es[i])
      BY <1>19, <3>1 DEF Moves
    <3>3. TotalIn(r, "quote") = TotalIn(c, "quote") + Paying(es[i])
      BY <1>17, <1>19, <3>1 DEF Assets
    <3>. QED BY <3>2, <3>3
  <2>. QED BY <2>1, <2>2
<1>20. Follows(c, f, r)
  BY <1>7, <1>12, <1>13, <1>14, <1>15, <1>16, <1>18, <1>19 DEF Follows
<1>. QED BY <1>1, <1>20

\* Whatever the venue, a handler leaves what the frame tells of, or has missed it.
LEMMA HandledFollows ==
  ASSUME account \in Accounts, NEW c, Ready(c), NEW f \in Frames, GoodFrame(f)
  PROVE  Follows(c, f, Handled(c, f))
<1>1. CASE V = "binance"
  <2>1. Handled(c, f) = BinanceHandle(c, f)
    BY <1>1 DEF Handled, V
  <2>. QED BY <1>1, <2>1, BinanceFollows
<1>2. CASE V = "okx"
  <2>1. Handled(c, f) = OkxHandle(c, f)
    BY <1>2 DEF Handled, V
  <2>. QED BY <1>2, <2>1, OkxFollows
<1>3. CASE V = "bybit"
  <2>1. Handled(c, f) = BybitHandle(c, f)
    BY <1>3 DEF Handled, V
  <2>. QED BY <1>3, <2>1, BybitFollows
<1>4. CASE V = "hyperliquid"
  <2>1. Handled(c, f) = HyperliquidHandle(c, f)
    BY <1>4 DEF Handled, V
  <2>. QED BY <1>4, <2>1, HyperliquidFollows
<1>5. CASE account = <<"bitget", "uta">>
  <2>1. Handled(c, f) = BitgetUtaHandle(c, f)
    BY <1>5 DEF Handled, V
  <2>. QED BY <1>5, <2>1, BitgetUtaFollows
<1>6. CASE V = "bitget" /\ account # <<"bitget", "uta">>
  <2>1. account[2] # "uta"
    BY <1>6, AccountFacts
  <2>2. Handled(c, f) = BitgetHandle(c, f)
    BY <1>6, <2>1 DEF Handled
  <2>. QED BY <1>6, <2>2, BitgetFollows
<1>. QED BY <1>1, <1>2, <1>3, <1>4, <1>5, <1>6, AccountFacts
-----------------------------------------------------------------------------
(* The frames under way.                                                    *)

\* A frame is sent on a stream that is up, or lost.
Sent(w, l, f, w2, l2) ==
  IF Listening THEN w2 = Append(w, f) /\ l2 = l
  ELSE w = <<>> /\ w2 = w /\ l2 = l \cup Mentions(f)

\* A frame that is sent comes last.
LEMMA AppendFacts ==
  ASSUME NEW w \in Seq(Frames), NEW f \in Frames
  PROVE  /\ Append(w, f) \in Seq(Frames) /\ Len(w) \in Nat /\ DOMAIN w = 1 .. Len(w)
         /\ Len(Append(w, f)) = Len(w) + 1 /\ DOMAIN Append(w, f) = 1 .. (Len(w) + 1)
         /\ \A i \in 1 .. Len(w) : Append(w, f)[i] = w[i]
         /\ Append(w, f)[Len(w) + 1] = f
<1>. HIDE DEF Frames
<1>. QED OBVIOUS

\* A frame that is handled was first.
LEMMA TailFacts ==
  ASSUME NEW w \in Seq(Frames), w # <<>>
  PROVE  /\ Tail(w) \in Seq(Frames) /\ Len(w) \in Nat \ {0} /\ DOMAIN w = 1 .. Len(w)
         /\ Head(w) = w[1] /\ Head(w) \in Frames
         /\ Len(Tail(w)) = Len(w) - 1 /\ DOMAIN Tail(w) = 1 .. (Len(w) - 1)
         /\ \A i \in 1 .. (Len(w) - 1) : Tail(w)[i] = w[i + 1]
<1>. HIDE DEF Frames
<1>. QED OBVIOUS

\* After a frame is sent, it is the last to tell of what it mentions, and the last of
\* the rest is what it was.
LEMMA LastSent ==
  ASSUME NEW w \in Seq(Frames), NEW f \in Frames, NEW x
  PROVE  LET u == Append(w, f) IN
         /\ x \notin Mentions(f) =>
              /\ \A i \in DOMAIN u : IsLast(u, i, x) =>
                   i \in DOMAIN w /\ u[i] = w[i] /\ IsLast(w, i, x)
              /\ Silent(u, x) => Silent(w, x)
         /\ x \in Mentions(f) =>
              /\ \A i \in DOMAIN u : IsLast(u, i, x) => u[i] = f
              /\ ~ Silent(u, x)
<1>. DEFINE u == Append(w, f)
            n == Len(w)
<1>1. /\ n \in Nat /\ DOMAIN w = 1 .. n /\ DOMAIN u = 1 .. (n + 1)
      /\ \A i \in 1 .. n : u[i] = w[i]
      /\ u[n + 1] = f
  BY AppendFacts
<1>. HIDE DEF u, n
<1>2. ASSUME x \notin Mentions(f), NEW i \in DOMAIN u, IsLast(u, i, x)
      PROVE  i \in DOMAIN w /\ u[i] = w[i] /\ IsLast(w, i, x)
  <2>1. x \in Mentions(u[i]) /\ \A j \in DOMAIN u : j > i => x \notin Mentions(u[j])
    BY <1>2 DEF IsLast
  <2>2. i \in 1 .. n
    BY <1>1, <1>2, <2>1
  <2>3. \A j \in DOMAIN w : j \in DOMAIN u /\ u[j] = w[j]
    BY <1>1
  <2>. QED BY <1>1, <2>1, <2>2, <2>3 DEF IsLast
<1>3. ASSUME x \notin Mentions(f), Silent(u, x) PROVE Silent(w, x)
  BY <1>1, <1>3 DEF Silent
<1>4. ASSUME x \in Mentions(f), NEW i \in DOMAIN u, IsLast(u, i, x) PROVE u[i] = f
  <2>1. \A j \in DOMAIN u : j > i => x \notin Mentions(u[j])
    BY <1>4 DEF IsLast
  <2>2. ~ (n + 1 > i)
    BY <1>1, <1>4, <2>1
  <2>3. i = n + 1
    BY <1>1, <2>2
  <2>. QED BY <1>1, <2>3
<1>5. ASSUME x \in Mentions(f) PROVE ~ Silent(u, x)
  BY <1>1, <1>5 DEF Silent
<1>. QED BY <1>2, <1>3, <1>4, <1>5 DEF u

\* An empty stream tells of nothing.
LEMMA NoFrames ==
  ASSUME NEW x
  PROVE  Silent(<<>>, x) /\ \A i \in DOMAIN <<>> : FALSE
BY DEF Silent

\* A frame that has a symbol where the venue has it now is sent or lost.
LEMMA SymbolSent ==
  ASSUME NEW w \in Seq(Frames), NEW f \in Frames, NEW c, NEW l, NEW w2, NEW l2,
         Sent(w, l, f, w2, l2), NEW s, NEW x, NEW y, SymbolComes(w, c, l, s, x),
         IF s \in Mentions(f) THEN Tells(f, s, y) ELSE y = x
  PROVE  SymbolComes(w2, c, l2, s, y)
<1>1. CASE Listening
  <2>1. w2 = Append(w, f) /\ l2 = l
    BY <1>1 DEF Sent
  <2>. HIDE DEF Frames
  <2>2. CASE s \in Mentions(f)
    <3>1. /\ \A i \in DOMAIN w2 : IsLast(w2, i, s) => w2[i] = f
          /\ ~ Silent(w2, s)
      BY <2>1, <2>2, LastSent
    <3>. QED BY <2>2, <3>1 DEF SymbolComes
  <2>3. CASE s \notin Mentions(f)
    <3>1. /\ \A i \in DOMAIN w2 : IsLast(w2, i, s) =>
                i \in DOMAIN w /\ w2[i] = w[i] /\ IsLast(w, i, s)
          /\ Silent(w2, s) => Silent(w, s)
      BY <2>1, <2>3, LastSent
    <3>. QED BY <2>1, <2>3, <3>1 DEF SymbolComes
  <2>. QED BY <2>2, <2>3
<1>2. CASE ~ Listening
  <2>1. w = <<>> /\ w2 = <<>> /\ l2 = l \cup Mentions(f)
    BY <1>2 DEF Sent
  <2>. QED BY <2>1, NoFrames DEF SymbolComes
<1>. QED BY <1>1, <1>2

\* A frame that has an asset where the venue has it now is sent or lost.
LEMMA AssetSent ==
  ASSUME NEW w \in Seq(Frames), NEW f \in Frames, NEW c, NEW l, NEW w2, NEW l2,
         Sent(w, l, f, w2, l2), NEW a, NEW x, NEW y, AssetComes(w, c, l, a, x),
         IF a \in Mentions(f) THEN IsPm \/ TellsTotal(f, a, y) ELSE y = x
  PROVE  AssetComes(w2, c, l2, a, y)
<1>1. CASE Listening
  <2>1. w2 = Append(w, f) /\ l2 = l
    BY <1>1 DEF Sent
  <2>. HIDE DEF Frames
  <2>2. CASE a \in Mentions(f)
    <3>1. /\ \A i \in DOMAIN w2 : IsLast(w2, i, a) => w2[i] = f
          /\ ~ Silent(w2, a)
      BY <2>1, <2>2, LastSent
    <3>. QED BY <2>2, <3>1 DEF AssetComes
  <2>3. CASE a \notin Mentions(f)
    <3>1. /\ \A i \in DOMAIN w2 : IsLast(w2, i, a) =>
                i \in DOMAIN w /\ w2[i] = w[i] /\ IsLast(w, i, a)
          /\ Silent(w2, a) => Silent(w, a)
      BY <2>1, <2>3, LastSent
    <3>. QED BY <2>1, <2>3, <3>1 DEF AssetComes
  <2>. QED BY <2>2, <2>3
<1>2. CASE ~ Listening
  <2>1. w = <<>> /\ w2 = <<>> /\ l2 = l \cup Mentions(f)
    BY <1>2 DEF Sent
  <2>. QED BY <2>1, NoFrames DEF AssetComes
<1>. QED BY <1>1, <1>2

\* A frame that moves the quote as the venue did is sent.
LEMMA QuoteSent ==
  ASSUME account \in Accounts, NEW w \in Seq(Frames), NEW f \in Frames, GoodFrame(f), NEW c,
         NEW l, NEW w2, NEW l2, Sent(w, l, f, w2, l2), NEW x \in Int, NEW y \in Int,
         QuoteComes(w, c, x), Moves(f, y - x), "quote" \notin l2
  PROVE  QuoteComes(w2, c, y)
<1>. DEFINE n == Len(w)
<1>1. PICK t \in [0 .. n -> Int] :
        /\ t[0] = TotalIn(c, "quote") /\ t[n] = x
        /\ \A i \in 1 .. n : Moves(w[i], t[i] - t[i - 1])
  BY DEF QuoteComes
<1>2. CASE Listening
  <2>1. w2 = Append(w, f)
    BY <1>2 DEF Sent
  <2>2. /\ n \in Nat /\ Len(w2) = n + 1
        /\ \A i \in 1 .. n : w2[i] = w[i]
        /\ w2[n + 1] = f
    BY <2>1, AppendFacts
  <2>. HIDE DEF n
  <2>. DEFINE v == [i \in 0 .. (n + 1) |-> IF i = n + 1 THEN y ELSE t[i]]
  <2>3. /\ v \in [0 .. (n + 1) -> Int] /\ v[n + 1] = y
        /\ \A i \in 0 .. n : v[i] = t[i]
    BY <2>2
  <2>. HIDE DEF v
  <2>4. ASSUME NEW i \in 1 .. (n + 1) PROVE Moves(w2[i], v[i] - v[i - 1])
    <3>1. CASE i = n + 1
      <4>1. i - 1 = n /\ v[i] = y /\ v[i - 1] = x /\ w2[i] = f
        BY <1>1, <2>2, <2>3, <3>1
      <4>. QED BY <4>1
    <3>2. CASE i # n + 1
      <4>1. i \in 1 .. n /\ i \in 0 .. n /\ i - 1 \in 0 .. n
        BY <2>2, <3>2
      <4>2. v[i] = t[i] /\ v[i - 1] = t[i - 1] /\ w2[i] = w[i]
        BY <2>2, <2>3, <4>1
      <4>. QED BY <1>1, <4>1, <4>2
    <3>. QED BY <3>1, <3>2
  <2>5. v[0] = TotalIn(c, "quote")
    BY <1>1, <2>2, <2>3
  <2>. QED BY <2>2, <2>3, <2>4, <2>5 DEF QuoteComes
<1>3. CASE ~ Listening
  <2>1. w2 = w /\ l2 = l \cup Mentions(f)
    BY <1>3 DEF Sent
  <2>2. \A i \in DOMAIN f.positions : ~ IsSpot(f.positions[i].symbol)
    BY <2>1, MentionsFacts DEF Assets
  <2>3. y = x
    BY <2>2 DEF Moves
  <2>. QED BY <2>1, <2>3
<1>. QED BY <1>2, <1>3

\* The last frame that tells of something is still the last when another is handled.
LEMMA HeadSilent ==
  ASSUME NEW w \in Seq(Frames), w # <<>>, NEW x
  PROVE  /\ \A i \in DOMAIN Tail(w) :
              IsLast(Tail(w), i, x) =>
                i + 1 \in DOMAIN w /\ Tail(w)[i] = w[i + 1] /\ IsLast(w, i + 1, x)
         /\ Silent(Tail(w), x) /\ x \in Mentions(Head(w)) => 1 \in DOMAIN w /\ IsLast(w, 1, x)
         /\ Silent(Tail(w), x) /\ x \notin Mentions(Head(w)) => Silent(w, x)
<1>. DEFINE u == Tail(w)
            n == Len(w)
<1>1. /\ n \in Nat \ {0} /\ DOMAIN w = 1 .. n /\ Head(w) = w[1] /\ DOMAIN u = 1 .. (n - 1)
      /\ \A i \in 1 .. (n - 1) : u[i] = w[i + 1]
  BY TailFacts
<1>. HIDE DEF u, n
<1>2. \A j \in DOMAIN w : j > 1 => j - 1 \in DOMAIN u /\ u[j - 1] = w[j]
  <2>1. ASSUME NEW j \in DOMAIN w, j > 1 PROVE j - 1 \in DOMAIN u /\ u[j - 1] = w[j]
    <3>1. j - 1 \in 1 .. (n - 1) /\ (j - 1) + 1 = j
      BY <1>1, <2>1
    <3>. QED BY <1>1, <3>1
  <2>. QED BY <2>1
<1>3. ASSUME NEW i \in DOMAIN u, IsLast(u, i, x)
      PROVE  i + 1 \in DOMAIN w /\ u[i] = w[i + 1] /\ IsLast(w, i + 1, x)
  <2>1. i + 1 \in DOMAIN w /\ u[i] = w[i + 1] /\ i \in 1 .. (n - 1)
    BY <1>1
  <2>2. x \in Mentions(u[i]) /\ \A j \in DOMAIN u : j > i => x \notin Mentions(u[j])
    BY <1>3 DEF IsLast
  <2>3. ASSUME NEW j \in DOMAIN w, j > i + 1 PROVE x \notin Mentions(w[j])
    <3>1. j > 1 /\ j - 1 > i
      BY <1>1, <2>1, <2>3
    <3>. QED BY <1>2, <2>2, <3>1
  <2>. QED BY <2>1, <2>2, <2>3 DEF IsLast
<1>4. ASSUME Silent(u, x) PROVE \A j \in DOMAIN w : j > 1 => x \notin Mentions(w[j])
  BY <1>2, <1>4 DEF Silent
<1>5. ASSUME Silent(u, x), x \in Mentions(Head(w)) PROVE 1 \in DOMAIN w /\ IsLast(w, 1, x)
  <2>1. 1 \in DOMAIN w
    BY <1>1
  <2>. QED BY <1>1, <1>4, <1>5, <2>1 DEF IsLast
<1>6. ASSUME Silent(u, x), x \notin Mentions(Head(w)) PROVE Silent(w, x)
  <2>1. \A j \in DOMAIN w : j = 1 \/ j > 1
    BY <1>1
  <2>. QED BY <1>1, <1>4, <1>6, <2>1 DEF Silent
<1>. QED BY <1>3, <1>5, <1>6 DEF u

\* What is lost once a frame is handled.
LostAfter(l, f) == (l \ Mentions(f)) \cup Missed(f)

\* The first frame is handled, and the symbol is still coming.
LEMMA SymbolHandled ==
  ASSUME NEW w \in Seq(Frames), w # <<>>, NEW c, NEW r, Follows(c, Head(w), r), NEW l,
         NEW s \in Held \cap Known, NEW x \in Int, SymbolComes(w, c, l, s, x)
  PROVE  SymbolComes(Tail(w), r, LostAfter(l, Head(w)), s, x)
<1>. DEFINE h == Head(w)
            u == Tail(w)
<1>1. /\ \A i \in DOMAIN u :
           IsLast(u, i, s) => i + 1 \in DOMAIN w /\ u[i] = w[i + 1] /\ IsLast(w, i + 1, s)
      /\ Silent(u, s) /\ s \in Mentions(h) => 1 \in DOMAIN w /\ IsLast(w, 1, s)
      /\ Silent(u, s) /\ s \notin Mentions(h) => Silent(w, s)
  BY HeadSilent
<1>2. h = w[1]
  BY TailFacts
<1>3. /\ \A i \in DOMAIN w : IsLast(w, i, s) => Tells(w[i], s, x)
      /\ Silent(w, s) => s \in l \/ HeldIn(c, s) = x
  BY DEF SymbolComes
<1>4. /\ s \notin Mentions(h) => HeldIn(r, s) = HeldIn(c, s)
      /\ s \in Mentions(h) \ Missed(h) => \A z \in Int : Tells(h, s, z) => HeldIn(r, s) = z
  BY DEF Follows
<1>. HIDE DEF h, u
<1>5. \A i \in DOMAIN u : IsLast(u, i, s) => Tells(u[i], s, x)
  BY <1>1, <1>3
<1>6. ASSUME Silent(u, s), s \notin LostAfter(l, h) PROVE HeldIn(r, s) = x
  <2>1. CASE s \in Mentions(h)
    <3>1. Tells(h, s, x)
      BY <1>1, <1>2, <1>3, <1>6, <2>1
    <3>. QED BY <1>4, <1>6, <2>1, <3>1 DEF LostAfter
  <2>2. CASE s \notin Mentions(h)
    BY <1>1, <1>3, <1>4, <1>6, <2>2 DEF LostAfter
  <2>. QED BY <2>1, <2>2
<1>. QED BY <1>5, <1>6 DEF SymbolComes, h, u

\* The first frame is handled, and the asset is still coming.
LEMMA AssetHandled ==
  ASSUME account \in Accounts, NEW w \in Seq(Frames), w # <<>>, GoodFrame(Head(w)),
         NEW c, NEW r, Follows(c, Head(w), r), NEW l,
         NEW a \in Assets, V = "hyperliquid" => a = "base",
         NEW x \in Int, AssetComes(w, c, l, a, x)
  PROVE  AssetComes(Tail(w), r, LostAfter(l, Head(w)), a, x)
<1>. DEFINE h == Head(w)
            u == Tail(w)
<1>1. /\ \A i \in DOMAIN u :
           IsLast(u, i, a) => i + 1 \in DOMAIN w /\ u[i] = w[i + 1] /\ IsLast(w, i + 1, a)
      /\ Silent(u, a) /\ a \in Mentions(h) => 1 \in DOMAIN w /\ IsLast(w, 1, a)
      /\ Silent(u, a) /\ a \notin Mentions(h) => Silent(w, a)
  BY HeadSilent
<1>2. h = w[1] /\ h \in Frames
  BY TailFacts
<1>3. /\ ~ IsPm => \A i \in DOMAIN w : IsLast(w, i, a) => TellsTotal(w[i], a, x)
      /\ Silent(w, a) => a \in l \/ (a \in DOMAIN c.balances /\ TotalIn(c, a) = x)
  BY DEF AssetComes
<1>4. /\ DOMAIN c.balances \subseteq DOMAIN r.balances
      /\ a \notin Mentions(h) /\ a \in DOMAIN c.balances => TotalIn(r, a) = TotalIn(c, a)
      /\ a \in Mentions(h) \ Missed(h) =>
           a \in DOMAIN r.balances /\ \A z \in Int : TellsTotal(h, a, z) => TotalIn(r, a) = z
  BY DEF Follows
<1>5. IsPm /\ a \in Mentions(h) => a \in Missed(h)
  <2>1. ASSUME IsPm PROVE ~ \E i \in DOMAIN h.positions : IsSpot(h.positions[i].symbol)
    <3>1. V # "hyperliquid"
      BY <2>1 DEF IsPm, V
    <3>2. \A i \in DOMAIN h.positions : h.positions[i].symbol \in Held
      BY <1>2, <3>1, FrameFacts
    <3>. QED BY <3>2 DEF Held, IsSpot
  <2>2. a \in Mentions(h) <=> \/ a \in DOMAIN h.balances
                              \/ \E i \in DOMAIN h.positions : IsSpot(h.positions[i].symbol)
    BY <1>2, MentionsFacts
  <2>3. IsPm => DOMAIN h.balances \subseteq Missed(h)
    BY <1>2, MissedFacts
  <2>. QED BY <2>1, <2>2, <2>3
<1>. HIDE DEF h, u
<1>6. ~ IsPm => \A i \in DOMAIN u : IsLast(u, i, a) => TellsTotal(u[i], a, x)
  BY <1>1, <1>3
<1>7. ASSUME Silent(u, a), a \notin LostAfter(l, h)
      PROVE  a \in DOMAIN r.balances /\ TotalIn(r, a) = x
  <2>1. CASE a \in Mentions(h)
    <3>1. a \notin Missed(h) /\ ~ IsPm
      BY <1>5, <1>7, <2>1 DEF LostAfter
    <3>2. TellsTotal(h, a, x)
      BY <1>1, <1>2, <1>3, <1>7, <2>1, <3>1
    <3>. QED BY <1>4, <2>1, <3>1, <3>2
  <2>2. CASE a \notin Mentions(h)
    BY <1>1, <1>3, <1>4, <1>7, <2>2 DEF LostAfter
  <2>. QED BY <2>1, <2>2
<1>. QED BY <1>6, <1>7 DEF AssetComes, h, u

\* The first frame is handled, and the quote has moved as the venue's did.
LEMMA QuoteHandled ==
  ASSUME V = "hyperliquid", NEW w \in Seq(Frames), w # <<>>,
         NEW c, NEW r, Follows(c, Head(w), r), "quote" \notin Missed(Head(w)),
         TotalIn(c, "quote") \in Int, NEW x, QuoteComes(w, c, x)
  PROVE  QuoteComes(Tail(w), r, x)
<1>. DEFINE h == Head(w)
            u == Tail(w)
            n == Len(w)
<1>1. /\ n \in Nat \ {0} /\ h = w[1] /\ Len(u) = n - 1
      /\ \A i \in 1 .. (n - 1) : u[i] = w[i + 1]
  BY TailFacts
<1>2. PICK t \in [0 .. n -> Int] :
        /\ t[0] = TotalIn(c, "quote") /\ t[n] = x
        /\ \A i \in 1 .. n : Moves(w[i], t[i] - t[i - 1])
  BY DEF QuoteComes
<1>. HIDE DEF n, u
<1>3. TotalIn(r, "quote") = t[1]
  <2>1. 1 \in 1 .. n /\ 1 - 1 = 0 /\ t[1] \in Int /\ t[0] \in Int
    BY <1>1
  <2>2. Moves(h, t[1] - t[0]) /\ t[1] - t[0] \in Int
    BY <1>1, <1>2, <2>1
  <2>3. TotalIn(r, "quote") = TotalIn(c, "quote") + (t[1] - t[0])
    BY <2>2 DEF Follows
  <2>. QED BY <1>2, <2>1, <2>3
<1>. DEFINE v == [i \in 0 .. (n - 1) |-> t[i + 1]]
<1>4. /\ v \in [0 .. (n - 1) -> Int] /\ v[0] = t[1] /\ v[n - 1] = t[n]
      /\ \A i \in 0 .. (n - 1) : v[i] = t[i + 1]
  BY <1>1
<1>. HIDE DEF v
<1>5. ASSUME NEW i \in 1 .. (n - 1) PROVE Moves(u[i], v[i] - v[i - 1])
  <2>1. i + 1 \in 1 .. n /\ (i + 1) - 1 = i /\ i \in 0 .. (n - 1) /\ i - 1 \in 0 .. (n - 1)
    BY <1>1
  <2>2. v[i] = t[i + 1] /\ v[i - 1] = t[(i - 1) + 1] /\ (i - 1) + 1 = i
    BY <1>4, <2>1
  <2>3. Moves(w[i + 1], t[i + 1] - t[(i + 1) - 1])
    BY <1>2, <2>1
  <2>. QED BY <1>1, <2>1, <2>2, <2>3
<1>. QED BY <1>1, <1>2, <1>3, <1>4, <1>5 DEF QuoteComes, u

\* What the frames under way tell of is lost with the stream.
Told(w) == UNION {Mentions(w[i]) : i \in DOMAIN w}

\* The stream is cut: what its frames told of is lost.
LEMMA SymbolCut ==
  ASSUME NEW w, NEW c, NEW l, NEW s, NEW x, SymbolComes(w, c, l, s, x)
  PROVE  SymbolComes(<<>>, c, l \cup Told(w), s, x)
<1>1. Silent(w, s) \/ s \in Told(w)
  BY DEF Silent, Told
<1>. QED BY <1>1, NoFrames DEF SymbolComes

\* The stream is cut: the assets its frames told of are lost.
LEMMA AssetCut ==
  ASSUME NEW w, NEW c, NEW l, NEW a, NEW x, AssetComes(w, c, l, a, x)
  PROVE  AssetComes(<<>>, c, l \cup Told(w), a, x)
<1>1. Silent(w, a) \/ a \in Told(w)
  BY DEF Silent, Told
<1>. QED BY <1>1, NoFrames DEF AssetComes

\* A stream that is cut while no frame of it tells of the quote leaves it as it is.
LEMMA QuoteCut ==
  ASSUME account \in Accounts, NEW w \in Seq(Frames), \A i \in DOMAIN w : GoodFrame(w[i]),
         "quote" \notin Told(w), NEW c, NEW x, QuoteComes(w, c, x)
  PROVE  QuoteComes(<<>>, c, x)
<1>. DEFINE n == Len(w)
<1>1. n \in Nat /\ DOMAIN w = 1 .. n /\ \A i \in 1 .. n : w[i] \in Frames
  <2>. HIDE DEF Frames
  <2>. QED OBVIOUS
<1>2. PICK t \in [0 .. n -> Int] :
        /\ t[0] = TotalIn(c, "quote") /\ t[n] = x
        /\ \A i \in 1 .. n : Moves(w[i], t[i] - t[i - 1])
  BY DEF QuoteComes
<1>. HIDE DEF n
<1>3. ASSUME NEW i \in 1 .. n PROVE t[i] = t[i - 1]
  <2>1. "quote" \notin Mentions(w[i])
    BY <1>1 DEF Told
  <2>2. \A j \in DOMAIN w[i].positions : ~ IsSpot(w[i].positions[j].symbol)
    BY <1>1, <2>1, MentionsFacts DEF Assets
  <2>3. t[i] - t[i - 1] = 0
    BY <1>2, <2>2 DEF Moves
  <2>4. i \in 0 .. n /\ i - 1 \in 0 .. n
    BY <1>1
  <2>. QED BY <2>3, <2>4
<1>4. t[n] = t[0]
  <2>. DEFINE Same == {k \in Nat : k <= n => t[k] = t[0]}
  <2>1. 0 \in Same
    OBVIOUS
  <2>2. ASSUME NEW k \in Same PROVE k + 1 \in Same
    <3>1. ASSUME k + 1 <= n PROVE t[k + 1] = t[0]
      <4>1. k + 1 \in 1 .. n /\ (k + 1) - 1 = k /\ k <= n
        BY <1>1, <2>2, <3>1
      <4>. QED BY <1>3, <2>2, <4>1
    <3>. QED BY <2>2, <3>1
  <2>3. Nat \subseteq Same
    <3>. HIDE DEF Same
    <3>. QED BY <2>1, <2>2, NatSetInduction
  <2>. QED BY <1>1, <2>3
<1>. DEFINE v == [i \in 0 .. 0 |-> x]
<1>5. v \in [0 .. 0 -> Int] /\ v[0] = x
  <2>1. x \in Int
    BY <1>1, <1>2
  <2>. QED BY <2>1
<1>6. Len(<<>>) = 0 /\ 1 .. 0 = {}
  OBVIOUS
<1>. QED BY <1>2, <1>4, <1>5, <1>6 DEF QuoteComes

-----------------------------------------------------------------------------
(* The account never changes, and nothing of what follows from it.          *)

\* What an account has, and what a frame tells of, depend on the account alone.
LEMMA AccountKept ==
  ASSUME account' = account
  PROVE  /\ V' = V /\ Tradable' = Tradable /\ Held' = Held /\ Wallets' = Wallets
         /\ (IsPm <=> IsPm') /\ (IsSnapshot <=> IsSnapshot')
         /\ \A s : Unit(s)' = Unit(s)
         /\ \A f : Mentions(f)' = Mentions(f)
         /\ \A f : GoodFrame(f) => GoodFrame(f)'
         /\ \A f, s, x : Tells(f, s, x)' <=> Tells(f, s, x)
<1>1. V' = V /\ Tradable' = Tradable /\ Wallets' = Wallets /\ (IsPm <=> IsPm')
      /\ (IsSnapshot <=> IsSnapshot')
  BY DEF V, Tradable, Wallets, IsPm, IsSnapshot
<1>2. Held' = Held
  BY <1>1 DEF Held
<1>3. \A s : Unit(s)' = Unit(s)
  BY <1>1 DEF Unit
<1>4. \A f : Mentions(f)' = Mentions(f)
  BY <1>2 DEF Mentions
<1>5. \A f : GoodFrame(f) => GoodFrame(f)'
  BY <1>1 DEF GoodFrame
<1>6. \A f, s, x : Tells(f, s, x)' <=> Tells(f, s, x)
  <2>1. \A e : Amount(e)' = Amount(e)
    BY <1>1, <1>3 DEF Amount
  <2>. QED BY <2>1 DEF Tells
<1>. QED BY <1>1, <1>2, <1>3, <1>4, <1>5, <1>6

\* What is coming is coming after a step as well, the account being the same.
LEMMA ComingKept ==
  ASSUME account' = account
  PROVE  /\ \A p, w, c, l : PositionsComing(p, w, c, l) => PositionsComing(p, w, c, l)'
         /\ \A h, w, c, l : BalancesComing(h, w, c, l) => BalancesComing(h, w, c, l)'
         /\ \A h, w, c, l : QuoteComing(h, w, c, l) => QuoteComing(h, w, c, l)'
<1>1. \A w, x : Silent(w, x)' <=> Silent(w, x)
  BY AccountKept DEF Silent
<1>2. \A w, i, x : IsLast(w, i, x)' <=> IsLast(w, i, x)
  BY AccountKept DEF IsLast
<1>3. \A w, c, l, s, x : SymbolComes(w, c, l, s, x)' <=> SymbolComes(w, c, l, s, x)
  BY <1>1, <1>2, AccountKept DEF SymbolComes
<1>4. \A w, c, l, a, x : AssetComes(w, c, l, a, x)' <=> AssetComes(w, c, l, a, x)
  BY <1>1, <1>2, AccountKept DEF AssetComes
<1>5. \A h, a : Total(h, a)' = Total(h, a)
  BY AccountKept DEF Total
<1>6. \A p, w, c, l : PositionsComing(p, w, c, l) => PositionsComing(p, w, c, l)'
  BY <1>3, AccountKept DEF PositionsComing
<1>7. \A h, w, c, l : BalancesComing(h, w, c, l) => BalancesComing(h, w, c, l)'
  BY <1>4, <1>5, AccountKept DEF BalancesComing
<1>8. \A h, w, c, l : QuoteComing(h, w, c, l) => QuoteComing(h, w, c, l)'
  BY <1>5, AccountKept DEF QuoteComing
<1>. QED BY <1>6, <1>7, <1>8

\* What a step has to leave behind.
LEMMA StepKeeps ==
  ASSUME AccountsTypeOK, account' = account,
         positions' \in [Symbols -> Int], wallets' \in Wealth, cache' \in Caches,
         wire' \in Seq(Frames),
         Listening' \/ wire' = <<>>,
         stage' # "built" => ~ connected' /\ cache' = EmptyCache,
         stage' = "built" /\ V = "hyperliquid" => DOMAIN cache'.balances = Assets,
         DOMAIN cache'.positions \subseteq Held \cap Known,
         \A i \in DOMAIN wire' : GoodFrame(wire'[i]),
         stage' = "built" => /\ PositionsComing(positions', wire', cache', lost')
                             /\ BalancesComing(wallets', wire', cache', lost')
                             /\ QuoteComing(wallets', wire', cache', lost')
  PROVE  (AccountsTypeOK /\ AccountsInv)'
<1>1. AccountsTypeOK'
  <2>1. Wealth' = Wealth
    BY AccountKept DEF Wealth
  <2>2. account' \in Accounts
    BY DEF AccountsTypeOK
  <2>. QED BY <2>1, <2>2 DEF AccountsTypeOK
<1>2. StreamOK'
  <2>1. \A i \in DOMAIN wire' : GoodFrame(wire[i])'
    BY AccountKept
  <2>. QED BY <2>1, AccountKept DEF StreamOK
<1>3. stage' = "built" => /\ PositionsComing(positions, wire, cache, lost)'
                          /\ BalancesComing(wallets, wire, cache, lost)'
                          /\ QuoteComing(wallets, wire, cache, lost)'
  BY ComingKept
<1>. QED BY <1>1, <1>2, <1>3 DEF AccountsInv

\* The wallets of an account add up.
LEMMA TotalFacts ==
  ASSUME account \in Accounts, NEW h \in Wealth, NEW a \in Assets
  PROVE  Total(h, a) \in Int
<1>1. \A w \in Wallets : h[a][w].total \in Int
  BY DEF Wealth, Money
<1>2. IF IsPm THEN Wallets = {"margin", "um", "cm"} ELSE Wallets = {"cash"}
  BY DEF Wallets
<1>. QED BY <1>1, <1>2 DEF Total

\* A frame that has what it tells of as it is after a change is sent.
LEMMA FrameSent ==
  ASSUME AccountsTypeOK, AccountsInv, stage # "refused",
         UNCHANGED <<account, stage, connected, keyExpired, cache>>,
         NEW f \in Frames, GoodFrame(f), Sent(wire, lost, f, wire', lost'),
         positions' \in [Symbols -> Int], wallets' \in Wealth,
         \A s \in Held \cap Known :
           IF s \in Mentions(f) THEN Tells(f, s, positions'[s] * Unit(s))
           ELSE positions'[s] = positions[s],
         \A a \in Assets :
           (V = "hyperliquid" => a = "base") =>
             IF a \in Mentions(f) THEN IsPm \/ TellsTotal(f, a, Total(wallets', a))
             ELSE Total(wallets', a) = Total(wallets, a),
         V = "hyperliquid" => Moves(f, Total(wallets', "quote") - Total(wallets, "quote"))
  PROVE  (AccountsTypeOK /\ AccountsInv)'
<1>1. /\ account \in Accounts /\ wire \in Seq(Frames) /\ wallets \in Wealth /\ cache \in Caches
      /\ StreamOK
  BY DEF AccountsTypeOK, AccountsInv
<1>2. wire' \in Seq(Frames) /\ \A i \in DOMAIN wire' : GoodFrame(wire'[i])
  <2>1. CASE Listening
    <3>1. wire' = Append(wire, f)
      BY <2>1 DEF Sent
    <3>2. /\ wire' \in Seq(Frames) /\ DOMAIN wire = 1 .. Len(wire) /\ Len(wire) \in Nat
          /\ DOMAIN wire' = 1 .. (Len(wire) + 1)
          /\ \A i \in 1 .. Len(wire) : wire'[i] = wire[i]
          /\ wire'[Len(wire) + 1] = f
      BY <1>1, <3>1, AppendFacts
    <3>3. \A i \in DOMAIN wire' : i \in DOMAIN wire \/ i = Len(wire) + 1
      BY <3>2
    <3>. QED BY <1>1, <3>2, <3>3 DEF StreamOK
  <2>2. CASE ~ Listening
    BY <1>1, <2>2 DEF Sent, StreamOK
  <2>. QED BY <2>1, <2>2
<1>3. (Listening <=> Listening') /\ (Listening' \/ wire' = <<>>)
  BY DEF Listening, Sent
<1>4. /\ stage' # "built" => ~ connected' /\ cache' = EmptyCache
      /\ stage' = "built" /\ V = "hyperliquid" => DOMAIN cache'.balances = Assets
      /\ DOMAIN cache'.positions \subseteq Held \cap Known
  BY <1>1 DEF StreamOK
<1>5. ASSUME stage = "built"
      PROVE  /\ PositionsComing(positions', wire', cache, lost')
             /\ BalancesComing(wallets', wire', cache, lost')
             /\ QuoteComing(wallets', wire', cache, lost')
  <2>1. /\ PositionsComing(positions, wire, cache, lost)
        /\ BalancesComing(wallets, wire, cache, lost)
        /\ QuoteComing(wallets, wire, cache, lost)
    BY <1>5 DEF AccountsInv
  <2>2. ASSUME NEW s \in Held \cap Known
        PROVE  SymbolComes(wire', cache, lost', s, positions'[s] * Unit(s))
    <3>1. SymbolComes(wire, cache, lost, s, positions[s] * Unit(s))
      BY <2>1 DEF PositionsComing
    <3>2. IF s \in Mentions(f) THEN Tells(f, s, positions'[s] * Unit(s))
          ELSE positions'[s] * Unit(s) = positions[s] * Unit(s)
      OBVIOUS
    <3>. DEFINE x == positions[s] * Unit(s)
                y == positions'[s] * Unit(s)
    <3>. HIDE DEF x, y
    <3>3. SymbolComes(wire, cache, lost, s, x) /\
            IF s \in Mentions(f) THEN Tells(f, s, y) ELSE y = x
      BY <3>1, <3>2 DEF x, y
    <3>4. SymbolComes(wire', cache, lost', s, y)
      BY <1>1, <3>3, SymbolSent
    <3>. QED BY <3>4 DEF y
  <2>3. ASSUME NEW a \in Assets, V = "hyperliquid" => a = "base"
        PROVE  AssetComes(wire', cache, lost', a, Total(wallets', a))
    <3>1. AssetComes(wire, cache, lost, a, Total(wallets, a))
      BY <2>1, <2>3 DEF BalancesComing
    <3>2. IF a \in Mentions(f) THEN IsPm \/ TellsTotal(f, a, Total(wallets', a))
          ELSE Total(wallets', a) = Total(wallets, a)
      BY <2>3
    <3>. QED BY <1>1, <3>1, <3>2, AssetSent
  <2>4. ASSUME V = "hyperliquid", "quote" \notin lost'
        PROVE  QuoteComes(wire', cache, Total(wallets', "quote"))
    <3>1. lost \subseteq lost'
      BY DEF Sent
    <3>2. QuoteComes(wire, cache, Total(wallets, "quote"))
      BY <2>1, <2>4, <3>1 DEF QuoteComing
    <3>3. Total(wallets, "quote") \in Int /\ Total(wallets', "quote") \in Int
      BY <1>1, TotalFacts DEF Assets
    <3>4. Moves(f, Total(wallets', "quote") - Total(wallets, "quote"))
      BY <2>4
    <3>. QED BY <1>1, <2>4, <3>2, <3>3, <3>4, QuoteSent
  <2>. QED BY <2>2, <2>3, <2>4 DEF PositionsComing, BalancesComing, QuoteComing
<1>6. stage' = "built" => /\ PositionsComing(positions', wire', cache', lost')
                          /\ BalancesComing(wallets', wire', cache', lost')
                          /\ QuoteComing(wallets', wire', cache', lost')
  BY <1>5
<1>7. cache' \in Caches /\ account' = account
  BY <1>1
<1>. QED BY <1>2, <1>3, <1>4, <1>6, <1>7, StepKeeps

\* What Send does to the stream and to what is lost.
LEMMA SendSent ==
  ASSUME AccountsInv, NEW f, Send(f)
  PROVE  Sent(wire, lost, f, wire', lost')
BY DEF Send, Sent, AccountsInv, StreamOK

-----------------------------------------------------------------------------
(* The steps of the stream and of the process.                              *)

\* Nothing but the stream, the key or the stage of an OMS changes.
LEMMA QuietStep ==
  ASSUME AccountsTypeOK, AccountsInv,
         UNCHANGED <<account, positions, wallets, stage, wire, cache, lost>>,
         Listening' \/ wire = <<>>, stage # "built" => ~ connected'
  PROVE  (AccountsTypeOK /\ AccountsInv)'
<1>1. /\ positions' \in [Symbols -> Int] /\ wallets' \in Wealth /\ cache' \in Caches
      /\ wire' \in Seq(Frames) /\ account' = account
  BY DEF AccountsTypeOK
<1>2. /\ Listening' \/ wire' = <<>>
      /\ stage' # "built" => ~ connected' /\ cache' = EmptyCache
      /\ stage' = "built" /\ V = "hyperliquid" => DOMAIN cache'.balances = Assets
      /\ DOMAIN cache'.positions \subseteq Held \cap Known
      /\ \A i \in DOMAIN wire' : GoodFrame(wire'[i])
  BY DEF AccountsInv, StreamOK
<1>3. stage' = "built" => /\ PositionsComing(positions', wire', cache', lost')
                          /\ BalancesComing(wallets', wire', cache', lost')
                          /\ QuoteComing(wallets', wire', cache', lost')
  BY DEF AccountsInv
<1>. QED BY <1>1, <1>2, <1>3, StepKeeps

\* The stream is opened, with nothing under way.
LEMMA ConnectKeeps ==
  ASSUME AccountsTypeOK, AccountsInv, Connect
  PROVE  (AccountsTypeOK /\ AccountsInv)'
<1>1. UNCHANGED <<account, positions, wallets, stage, wire, cache, lost>>
  BY DEF Connect, venue
<1>2. wire = <<>> /\ stage = "built"
  BY DEF Connect, AccountsInv, StreamOK, Listening
<1>. QED BY <1>1, <1>2, QuietStep

\* A listen key that is kept alive is valid again.
LEMMA KeepAliveKeeps ==
  ASSUME AccountsTypeOK, AccountsInv, KeepAlive
  PROVE  (AccountsTypeOK /\ AccountsInv)'
<1>1. /\ UNCHANGED <<account, positions, wallets, stage, wire, cache, lost>>
      /\ stage = "built" /\ UNCHANGED <<connected, keyExpired>>
  BY DEF KeepAlive, venue
<1>2. Listening' \/ wire = <<>>
  BY <1>1 DEF Listening, AccountsInv, StreamOK
<1>. QED BY <1>1, <1>2, QuietStep

\* A listen key expires when nothing is under way.
LEMMA KeyExpiresKeeps ==
  ASSUME AccountsTypeOK, AccountsInv, KeyExpires
  PROVE  (AccountsTypeOK /\ AccountsInv)'
<1>1. /\ UNCHANGED <<account, positions, wallets, stage, wire, cache, lost>>
      /\ wire = <<>> /\ connected' = connected
  BY DEF KeyExpires, venue
<1>2. stage # "built" => ~ connected'
  BY <1>1 DEF AccountsInv, StreamOK
<1>. QED BY <1>1, <1>2, QuietStep

\* A new cache has nothing in it.
LEMMA NothingCached ==
  /\ EmptyCache \in Caches /\ DOMAIN EmptyCache.positions = {} /\ DOMAIN EmptyCache.balances = {}
  /\ EmptyCache = [positions |-> EmptyCache.positions, balances |-> EmptyCache.balances]
<1>1. EmptyCache = [positions |-> <<>>, balances |-> <<>>]
  BY DEF EmptyCache
<1>2. DOMAIN <<>> = {} /\ <<>> = [y \in DOMAIN <<>> |-> <<>>[y]]
  OBVIOUS
<1>3. <<>> \in Holdings
  BY <1>2, HoldingsFacts
<1>4. <<>> \in Purses
  BY <1>2, PursesFacts
<1>. QED BY <1>1, <1>2, <1>3, <1>4 DEF Caches

\* The process is started anew, with an empty cache.
LEMMA RestartKeeps ==
  ASSUME AccountsTypeOK, AccountsInv, Restart
  PROVE  (AccountsTypeOK /\ AccountsInv)'
<1>1. /\ positions' \in [Symbols -> Int] /\ wallets' \in Wealth /\ account' = account
      /\ stage' = "down" /\ connected' = FALSE /\ wire' = <<>> /\ cache' = EmptyCache
  BY DEF AccountsTypeOK, Restart, venue
<1>2. wire' \in Seq(Frames) /\ \A i \in DOMAIN wire' : FALSE
  BY <1>1
<1>. QED BY <1>1, <1>2, NothingCached, StepKeeps

\* The connection breaks, with the frames under way.
LEMMA DisconnectKeeps ==
  ASSUME AccountsTypeOK, AccountsInv, Disconnect
  PROVE  (AccountsTypeOK /\ AccountsInv)'
<1>1. /\ connected /\ connected' = FALSE /\ wire' = <<>> /\ lost' = lost \cup Told(wire)
      /\ UNCHANGED <<account, positions, wallets, stage, cache>>
  BY DEF Disconnect, AllMentioned, Told, venue
<1>2. /\ account \in Accounts /\ wire \in Seq(Frames) /\ cache' \in Caches
      /\ positions' \in [Symbols -> Int] /\ wallets' \in Wealth
  BY <1>1 DEF AccountsTypeOK
<1>3. StreamOK /\ stage = "built"
  BY <1>1 DEF AccountsInv, StreamOK
<1>4. wire' \in Seq(Frames) /\ \A i \in DOMAIN wire' : FALSE
  BY <1>1
<1>5. /\ PositionsComing(positions, wire, cache, lost)
      /\ BalancesComing(wallets, wire, cache, lost)
      /\ QuoteComing(wallets, wire, cache, lost)
  BY <1>3 DEF AccountsInv
<1>6. PositionsComing(positions, <<>>, cache, lost \cup Told(wire))
  BY <1>5, SymbolCut DEF PositionsComing
<1>7. BalancesComing(wallets, <<>>, cache, lost \cup Told(wire))
  BY <1>5, AssetCut DEF BalancesComing
<1>8. QuoteComing(wallets, <<>>, cache, lost \cup Told(wire))
  <2>1. ASSUME V = "hyperliquid", "quote" \notin lost \cup Told(wire)
        PROVE  QuoteComes(<<>>, cache, Total(wallets, "quote"))
    <3>1. "quote" \notin lost /\ "quote" \notin Told(wire)
      BY <2>1
    <3>2. QuoteComes(wire, cache, Total(wallets, "quote"))
      BY <1>5, <2>1, <3>1 DEF QuoteComing
    <3>3. \A i \in DOMAIN wire : GoodFrame(wire[i])
      BY <1>3 DEF StreamOK
    <3>. QED BY <1>2, <3>1, <3>2, <3>3, QuoteCut
  <2>. QED BY <2>1 DEF QuoteComing
<1>9. /\ PositionsComing(positions', wire', cache', lost')
      /\ BalancesComing(wallets', wire', cache', lost')
      /\ QuoteComing(wallets', wire', cache', lost')
  BY <1>1, <1>6, <1>7, <1>8
<1>10. /\ stage' # "built" => ~ connected' /\ cache' = EmptyCache
       /\ stage' = "built" /\ V = "hyperliquid" => DOMAIN cache'.balances = Assets
       /\ DOMAIN cache'.positions \subseteq Held \cap Known
  BY <1>1, <1>3 DEF StreamOK
<1>. QED BY <1>1, <1>2, <1>4, <1>9, <1>10, StepKeeps

\* The first frame is handled.
LEMMA HandleKeeps ==
  ASSUME AccountsTypeOK, AccountsInv, Handle
  PROVE  (AccountsTypeOK /\ AccountsInv)'
<1>. DEFINE h == Head(wire)
            r == Handled(cache, h)
            l == LostAfter(lost, h)
<1>1. /\ wire # <<>> /\ stage = "built" /\ cache' = r /\ lost' = l /\ wire' = Tail(wire)
      /\ UNCHANGED <<account, positions, wallets, stage, connected, keyExpired>>
  BY DEF Handle, LostAfter, venue, key
<1>2. /\ account \in Accounts /\ wire \in Seq(Frames) /\ cache \in Caches
      /\ positions \in [Symbols -> Int] /\ wallets \in Wealth
  BY DEF AccountsTypeOK
<1>3. StreamOK
  BY DEF AccountsInv
<1>4. /\ Tail(wire) \in Seq(Frames) /\ h = wire[1] /\ h \in Frames /\ 1 \in DOMAIN wire
      /\ \A i \in DOMAIN Tail(wire) : i + 1 \in DOMAIN wire /\ Tail(wire)[i] = wire[i + 1]
  <2>1. /\ Tail(wire) \in Seq(Frames) /\ Len(wire) \in Nat \ {0} /\ DOMAIN wire = 1 .. Len(wire)
        /\ Head(wire) = wire[1] /\ Head(wire) \in Frames
        /\ DOMAIN Tail(wire) = 1 .. (Len(wire) - 1)
        /\ \A i \in 1 .. (Len(wire) - 1) : Tail(wire)[i] = wire[i + 1]
    BY <1>1, <1>2, TailFacts
  <2>2. \A i \in 1 .. (Len(wire) - 1) : i + 1 \in 1 .. Len(wire)
    BY <2>1
  <2>. QED BY <2>1, <2>2
<1>5. GoodFrame(h) /\ \A i \in DOMAIN Tail(wire) : GoodFrame(Tail(wire)[i])
  BY <1>3, <1>4 DEF StreamOK
<1>6. Ready(cache)
  BY <1>1, <1>2, <1>3 DEF Ready, StreamOK
<1>7. Follows(cache, h, r)
  BY <1>2, <1>4, <1>5, <1>6, HandledFollows
<1>. HIDE DEF r
<1>8. /\ PositionsComing(positions, wire, cache, lost)
      /\ BalancesComing(wallets, wire, cache, lost)
      /\ QuoteComing(wallets, wire, cache, lost)
  BY <1>1 DEF AccountsInv
<1>9. PositionsComing(positions, Tail(wire), r, l)
  <2>1. ASSUME NEW s \in Held \cap Known
        PROVE  SymbolComes(Tail(wire), r, l, s, positions[s] * Unit(s))
    <3>. DEFINE x == positions[s] * Unit(s)
    <3>1. x \in Int
      <4>1. s \in Symbols
        BY <1>2, HeldFacts
      <4>2. positions[s] \in Int /\ Unit(s) \in Int
        BY <1>2, <4>1, UnitFacts
      <4>. QED BY <4>2
    <3>2. SymbolComes(wire, cache, lost, s, x)
      BY <1>8 DEF PositionsComing
    <3>. HIDE DEF x
    <3>3. SymbolComes(Tail(wire), r, l, s, x)
      BY <1>1, <1>2, <1>7, <3>1, <3>2, SymbolHandled
    <3>. QED BY <3>3 DEF x
  <2>. QED BY <2>1 DEF PositionsComing
<1>10. BalancesComing(wallets, Tail(wire), r, l)
  <2>1. ASSUME NEW a \in Assets, V = "hyperliquid" => a = "base"
        PROVE  AssetComes(Tail(wire), r, l, a, Total(wallets, a))
    <3>1. AssetComes(wire, cache, lost, a, Total(wallets, a))
      BY <1>8, <2>1 DEF BalancesComing
    <3>2. Total(wallets, a) \in Int
      BY <1>2, TotalFacts
    <3>. QED BY <1>1, <1>2, <1>5, <1>7, <2>1, <3>1, <3>2, AssetHandled
  <2>. QED BY <2>1 DEF BalancesComing
<1>11. QuoteComing(wallets, Tail(wire), r, l)
  <2>1. ASSUME V = "hyperliquid", "quote" \notin l
        PROVE  QuoteComes(Tail(wire), r, Total(wallets, "quote"))
    <3>1. "quote" \notin Missed(h)
      BY <2>1 DEF LostAfter
    <3>2. "quote" \notin lost
      BY <1>2, <1>4, <1>5, <2>1, <3>1, MissedFacts
    <3>3. QuoteComes(wire, cache, Total(wallets, "quote"))
      BY <1>8, <2>1, <3>2 DEF QuoteComing
    <3>4. TotalIn(cache, "quote") \in Int
      <4>1. cache.balances \in Purses /\ "quote" \in DOMAIN cache.balances
        BY <1>1, <1>2, <1>3, <2>1 DEF Caches, StreamOK, Assets
      <4>2. cache.balances["quote"] \in Purse
        BY <4>1, PursesFacts
      <4>. QED BY <4>2 DEF Purse, TotalIn
    <3>. QED BY <1>1, <1>2, <1>7, <2>1, <3>1, <3>3, <3>4, QuoteHandled
  <2>. QED BY <2>1 DEF QuoteComing
<1>12. /\ r \in Caches /\ DOMAIN r.positions \subseteq Held \cap Known
       /\ DOMAIN cache.balances \subseteq DOMAIN r.balances
  BY <1>7 DEF Follows
<1>13. V = "hyperliquid" => DOMAIN r.balances = Assets
  <2>1. r.balances \in Purses
    BY <1>12 DEF Caches
  <2>2. DOMAIN r.balances \subseteq Assets
    BY <2>1, PursesFacts
  <2>. QED BY <1>1, <1>3, <1>12, <2>2 DEF StreamOK
<1>14. Listening'
  BY <1>1, <1>3 DEF StreamOK, Listening
<1>15. /\ positions' \in [Symbols -> Int] /\ wallets' \in Wealth /\ cache' \in Caches
       /\ wire' \in Seq(Frames) /\ account' = account
       /\ stage' = "built" /\ DOMAIN cache'.positions \subseteq Held \cap Known
       /\ V = "hyperliquid" => DOMAIN cache'.balances = Assets
       /\ \A i \in DOMAIN wire' : GoodFrame(wire'[i])
       /\ PositionsComing(positions', wire', cache', lost')
       /\ BalancesComing(wallets', wire', cache', lost')
       /\ QuoteComing(wallets', wire', cache', lost')
  BY <1>1, <1>2, <1>4, <1>5, <1>9, <1>10, <1>11, <1>12, <1>13
<1>. QED BY <1>14, <1>15, StepKeeps

-----------------------------------------------------------------------------
(* The venue changes.                                                       *)

\* What a frame is built of.
LEMMA FrameIsOne ==
  ASSUME NEW ps \in Seq(Reports \cup Fills), NEW bs \in Purses,
         NEW snapshot \in {"none", "usdt", "usdc", "inverse"}
  PROVE  LET f == Frame(ps, bs, snapshot) IN
         /\ f \in Frames /\ f.positions = ps /\ f.balances = bs /\ f.snapshot = snapshot
<1>. DEFINE S == Seq(Reports \cup Fills)
            f == Frame(ps, bs, snapshot)
<1>1. Frames = [positions : S, balances : Purses, snapshot : {"none", "usdt", "usdc", "inverse"}]
  BY DEF Frames
<1>2. f = [positions |-> ps, balances |-> bs, snapshot |-> snapshot]
  BY DEF Frame
<1>3. ps \in S
  OBVIOUS
<1>. HIDE DEF S, f, Purses
<1>4. f \in Frames /\ f.positions = ps /\ f.balances = bs /\ f.snapshot = snapshot
  BY <1>1, <1>2, <1>3
<1>. QED BY <1>4 DEF f

\* A frame of balances only.
LEMMA PlainFrame ==
  ASSUME NEW bs \in Purses
  PROVE  LET f == Frame(<<>>, bs, "none") IN
         /\ f \in Frames /\ DOMAIN f.positions = {} /\ f.balances = bs /\ f.snapshot = "none"
<1>1. <<>> \in Seq(Reports \cup Fills) /\ DOMAIN <<>> = {}
  <2>. HIDE DEF Reports, Fills
  <2>. QED OBVIOUS
<1>. DEFINE f == Frame(<<>>, bs, "none")
<1>2. f \in Frames /\ f.positions = <<>> /\ f.balances = bs /\ f.snapshot = "none"
  <2>. DEFINE S == Seq(Reports \cup Fills)
  <2>1. \A ps \in S, b \in Purses, snapshot \in {"none", "usdt", "usdc", "inverse"} :
          LET g == Frame(ps, b, snapshot) IN
          g \in Frames /\ g.positions = ps /\ g.balances = b /\ g.snapshot = snapshot
    BY FrameIsOne
  <2>2. <<>> \in S
    BY <1>1
  <2>. HIDE DEF S
  <2>. QED BY <2>1, <2>2
<1>. QED BY <1>1, <1>2

\* Money is moved in or out of a wallet, or locked, and the venue tells of it.
LEMMA TransferKeeps ==
  ASSUME AccountsTypeOK, AccountsInv, Transfer
  PROVE  (AccountsTypeOK /\ AccountsInv)'
<1>1. /\ stage # "refused" /\ (V = "hyperliquid" => wire = <<>>)
      /\ UNCHANGED <<account, positions, stage, connected, keyExpired, cache>>
  BY DEF Transfer, key
<1>2. PICK a \in Assets, w \in Wallets, locked \in 0 .. 1 :
        \E total \in {wallets[a][w].total, wallets[a][w].total + 1} \cap 1 .. MaxTotal :
          /\ wallets' = [wallets EXCEPT ![a][w] = [total |-> total, locked |-> locked]]
          /\ IF V = "hyperliquid" THEN lost' = lost \cup {a} /\ UNCHANGED wire
             ELSE Send(Frame(<<>>, [x \in {a} |->
                                      IF V = "binance" /\ account[2] # "spot" /\ w # "margin"
                                      THEN ParsedUpdate(wallets'[a][w])
                                      ELSE Parsed(wallets'[a][w])], "none"))
  BY DEF Transfer
<1>3. PICK total \in {wallets[a][w].total, wallets[a][w].total + 1} \cap 1 .. MaxTotal :
          /\ wallets' = [wallets EXCEPT ![a][w] = [total |-> total, locked |-> locked]]
          /\ IF V = "hyperliquid" THEN lost' = lost \cup {a} /\ UNCHANGED wire
             ELSE Send(Frame(<<>>, [x \in {a} |->
                                      IF V = "binance" /\ account[2] # "spot" /\ w # "margin"
                                      THEN ParsedUpdate(wallets'[a][w])
                                      ELSE Parsed(wallets'[a][w])], "none"))
  BY <1>2
<1>4. /\ account \in Accounts /\ positions \in [Symbols -> Int] /\ positions' \in [Symbols -> Int]
      /\ wallets \in Wealth /\ wire \in Seq(Frames) /\ cache' \in Caches
  BY <1>1 DEF AccountsTypeOK
<1>5. total \in Int /\ locked \in Int
  BY AccountsAssumption
<1>. DEFINE money == [total |-> total, locked |-> locked]
            has == wallets'[a][w]
<1>6. /\ wallets' \in Wealth /\ wallets'[a][w] = money
      /\ \A b \in Assets, v \in Wallets : (b # a \/ v # w) => wallets'[b][v] = wallets[b][v]
  <2>1. money \in Money
    BY <1>5 DEF Money
  <2>. HIDE DEF money
  <2>2. wallets' = [wallets EXCEPT ![a][w] = money]
    BY <1>3 DEF money
  <2>. QED BY <1>4, <2>1, <2>2 DEF Wealth
<1>7. \A b \in Assets : b # a => Total(wallets', b) = Total(wallets, b)
  <2>1. IF IsPm THEN Wallets = {"margin", "um", "cm"} ELSE Wallets = {"cash"}
    BY DEF Wallets
  <2>2. ASSUME NEW b \in Assets, b # a PROVE Total(wallets', b) = Total(wallets, b)
    <3>1. \A v \in Wallets : wallets'[b][v] = wallets[b][v]
      BY <1>6, <2>2
    <3>. QED BY <2>1, <3>1 DEF Total
  <2>. QED BY <2>2
<1>8. CASE V = "hyperliquid"
  <2>1. lost' = lost \cup {a} /\ wire = <<>> /\ wire' = <<>>
    BY <1>1, <1>3, <1>8
  <2>2. ASSUME stage = "built"
        PROVE  /\ PositionsComing(positions', wire', cache, lost')
               /\ BalancesComing(wallets', wire', cache, lost')
               /\ QuoteComing(wallets', wire', cache, lost')
    <3>1. /\ PositionsComing(positions, wire, cache, lost)
          /\ BalancesComing(wallets, wire, cache, lost)
          /\ QuoteComing(wallets, wire, cache, lost)
      BY <2>2 DEF AccountsInv
    <3>2. PositionsComing(positions', wire', cache, lost')
      BY <1>1, <2>1, <3>1 DEF PositionsComing, SymbolComes
    <3>3. BalancesComing(wallets', wire', cache, lost')
      BY <1>7, <2>1, <3>1, NoFrames DEF BalancesComing, AssetComes
    <3>4. QuoteComing(wallets', wire', cache, lost')
      BY <1>7, <2>1, <3>1 DEF QuoteComing, Assets
    <3>. QED BY <3>2, <3>3, <3>4
  <2>3. stage' = "built" => /\ PositionsComing(positions', wire', cache', lost')
                            /\ BalancesComing(wallets', wire', cache', lost')
                            /\ QuoteComing(wallets', wire', cache', lost')
    BY <1>1, <2>2
  <2>4. /\ stage' # "built" => ~ connected' /\ cache' = EmptyCache
        /\ stage' = "built" /\ V = "hyperliquid" => DOMAIN cache'.balances = Assets
        /\ DOMAIN cache'.positions \subseteq Held \cap Known
        /\ wire' \in Seq(Frames) /\ \A i \in DOMAIN wire' : GoodFrame(wire'[i])
    BY <1>1, <1>4, <2>1 DEF AccountsInv, StreamOK
  <2>. QED BY <1>1, <1>4, <1>6, <2>1, <2>3, <2>4, StepKeeps
<1>9. CASE V # "hyperliquid"
  <2>. DEFINE told == IF V = "binance" /\ account[2] # "spot" /\ w # "margin"
                      THEN ParsedUpdate(has) ELSE Parsed(has)
              bs == [x \in {a} |-> told]
              f == Frame(<<>>, bs, "none")
  <2>1. Send(f)
    BY <1>3, <1>9
  <2>2. told \in Purse /\ (IsPm \/ told.free + told.locked = money.total)
    <3>1. has = money
      BY <1>6
    <3>2. Parsed(has) \in Purse /\ Parsed(has).free + Parsed(has).locked = money.total
      BY <1>5, <3>1 DEF Parsed, Purse
    <3>3. /\ ParsedUpdate(has) \in Purse
          /\ ParsedUpdate(has).free + ParsedUpdate(has).locked = money.total
      BY <1>5, <3>1 DEF ParsedUpdate, Purse
    <3>. QED BY <3>2, <3>3
  <2>. HIDE DEF told
  <2>3. bs \in Purses /\ DOMAIN bs = {a} /\ bs[a] = told
    BY <2>2, PursesFacts
  <2>. HIDE DEF bs
  <2>4. f \in Frames /\ DOMAIN f.positions = {} /\ f.balances = bs /\ f.snapshot = "none"
    BY <2>3, PlainFrame
  <2>. HIDE DEF f
  <2>5. GoodFrame(f)
    BY <1>9, <2>4 DEF GoodFrame
  <2>6. \A s \in Held \cap Known : s \notin Mentions(f)
    BY <1>4, <2>4, <2>5, MentionsFacts, HeldFacts
  <2>7. \A b \in Assets : b \in Mentions(f) <=> b = a
    BY <1>4, <2>3, <2>4, <2>5, MentionsFacts
  <2>8. IsPm \/ TellsTotal(f, a, Total(wallets', a))
    <3>1. ~ IsPm => w = "cash"
      BY DEF Wallets
    <3>2. ~ IsPm => Total(wallets', a) = money.total
      BY <1>6, <3>1 DEF Total
    <3>. QED BY <2>2, <2>3, <2>4, <3>2 DEF TellsTotal
  <2>9. Sent(wire, lost, f, wire', lost')
    BY <2>1, SendSent
  <2>. HIDE DEF has, money
  <2>10. /\ \A s \in Held \cap Known :
              IF s \in Mentions(f) THEN Tells(f, s, positions'[s] * Unit(s))
              ELSE positions'[s] = positions[s]
         /\ \A b \in Assets :
              (V = "hyperliquid" => b = "base") =>
                IF b \in Mentions(f) THEN IsPm \/ TellsTotal(f, b, Total(wallets', b))
                ELSE Total(wallets', b) = Total(wallets, b)
         /\ V = "hyperliquid" => Moves(f, Total(wallets', "quote") - Total(wallets, "quote"))
    BY <1>1, <1>7, <1>9, <2>6, <2>7, <2>8
  <2>. QED BY <1>1, <1>4, <1>6, <2>4, <2>5, <2>9, <2>10, FrameSent
<1>. QED BY <1>8, <1>9

\* A report has the position where the change left it; a fill of Hyperliquid by what
\* was held before.
LEMMA ReportFacts ==
  ASSUME account \in Accounts, NEW s \in Tradable, NEW before \in Int, NEW after \in Int
  PROVE  LET e == Report(s, before, after) IN
         /\ e \in Reports \cup Fills /\ e.symbol = s
         /\ V = "hyperliquid" => e \in Fills
         /\ ~ IsSpot(s) => Amount(e) = after * Unit(s)
         /\ IsSpot(s) /\ after = before + FillSize - Fee =>
              Bought(e) = after /\ Paying(e) = 0 - FillSize
         /\ IsSpot(s) /\ after = before - FillSize =>
              Bought(e) = after /\ Paying(e) = FillSize - Fee
<1>1. s \in Symbols /\ s \in Ids
  BY TradableFacts DEF Ids
<1>2. Fee \in Nat /\ FillSize \in Nat /\ Fee < FillSize
  BY AccountsAssumption
<1>3. CASE V \in {"binance", "okx"}
  <2>1. Report(s, before, after) = [symbol |-> s, side |-> "net", size |-> after]
    BY <1>3 DEF Report, NetReport
  <2>2. ~ IsSpot(s)
    BY <1>3, TradableFacts
  <2>3. [symbol |-> s, side |-> "net", size |-> after] \in Reports
    BY <1>1 DEF Reports, Sides
  <2>. QED BY <1>3, <2>1, <2>2, <2>3 DEF Amount, Signed
<1>4. CASE V = "hyperliquid"
  <2>. DEFINE e == Report(s, before, after)
              d == after - before
              size == IF IsSpot(s) THEN FillSize ELSE Abs(d)
  <2>1. e = [symbol |-> s, side |-> SideOf(d), start |-> before, size |-> size]
    BY <1>4 DEF Report, Fill
  <2>2. size \in Int /\ d \in Int /\ SideOf(d) \in Sides
    BY <1>2 DEF Abs, SideOf, Sides
  <2>3. e \in Fills
    <3>. HIDE DEF e, d, size
    <3>. QED BY <1>1, <2>1, <2>2 DEF Fills
  <2>4. Unit(s) = 1
    BY <1>1, <1>4, UnitFacts
  <2>5. ASSUME ~ IsSpot(s) PROVE Amount(e) = after * Unit(s)
    <3>1. Signed(e) = d
      BY <2>1, <2>5 DEF Signed, SideOf, Abs
    <3>2. Amount(e) = before + Signed(e)
      BY <1>4, <2>1 DEF Amount
    <3>. QED BY <2>4, <3>1, <3>2
  <2>6. ASSUME IsSpot(s), after = before + FillSize - Fee
        PROVE  Bought(e) = after /\ Paying(e) = 0 - FillSize
    <3>1. e.side = "long" /\ Signed(e) = FillSize /\ e.start = before
      BY <1>2, <2>1, <2>6 DEF Signed, SideOf
    <3>. QED BY <1>2, <2>6, <3>1 DEF Bought, Paying
  <2>7. ASSUME IsSpot(s), after = before - FillSize
        PROVE  Bought(e) = after /\ Paying(e) = FillSize - Fee
    <3>1. e.side = "short" /\ Signed(e) = 0 - FillSize /\ e.start = before
      BY <1>2, <2>1, <2>7 DEF Signed, SideOf
    <3>. QED BY <1>2, <2>7, <3>1 DEF Bought, Paying
  <2>8. e.symbol = s
    BY <2>1
  <2>. QED BY <2>3, <2>5, <2>6, <2>7, <2>8
<1>5. CASE V \in {"bybit", "bitget"}
  <2>1. Report(s, before, after) = [symbol |-> s, side |-> SideOf(after), size |-> Abs(after)]
    BY <1>5 DEF Report, SidedReport
  <2>2. ~ IsSpot(s)
    BY <1>5, TradableFacts
  <2>3. SideOf(after) \in Sides /\ Abs(after) \in Int
    BY DEF SideOf, Sides, Abs
  <2>4. Report(s, before, after) \in Reports
    BY <1>1, <2>1, <2>3 DEF Reports
  <2>5. Signed(Report(s, before, after)) = after
    BY <2>1 DEF Signed, SideOf, Abs
  <2>. QED BY <1>5, <2>1, <2>2, <2>4, <2>5 DEF Amount
<1>. QED BY <1>3, <1>4, <1>5, AccountFacts

\* What is reported of the changes q, and the positions after them.
ReportsOf(q, after) == [i \in DOMAIN q |-> Report(q[i], HeldOf(q[i]), after[i])]
Turned(q, after) ==
  [s \in DOMAIN positions |->
     IF \E i \in DOMAIN q : q[i] = s /\ ~IsSpot(s)
     THEN after[CHOOSE i \in DOMAIN q : q[i] = s] ELSE positions[s]]

\* A change is of one or two symbols, each once, and leaves the others.
LEMMA ChangesFacts ==
  ASSUME AccountsTypeOK, NEW q \in Changes, NEW after \in [DOMAIN q -> Int]
  PROVE  /\ \E n \in 1 .. 2 : DOMAIN q = 1 .. n
         /\ \A i \in DOMAIN q : q[i] \in Tradable /\ q[i] \in Symbols /\ HeldOf(q[i]) \in Int
         /\ \A i, j \in DOMAIN q : q[i] = q[j] => i = j
         /\ Turned(q, after) \in [Symbols -> Int]
         /\ \A s \in Symbols : (\A i \in DOMAIN q : q[i] # s) => Turned(q, after)[s] = positions[s]
         /\ \A i \in DOMAIN q : ~ IsSpot(q[i]) => Turned(q, after)[q[i]] = after[i]
<1>1. /\ account \in Accounts /\ positions \in [Symbols -> Int] /\ wallets \in Wealth
  BY DEF AccountsTypeOK
<1>2. PICK n \in 1 .. 2 : q \in [1 .. n -> Tradable]
  BY DEF Changes
<1>3. IsInjective(q)
  BY DEF Changes
<1>4. \A i, j \in DOMAIN q : q[i] = q[j] => i = j
  BY <1>3 DEF IsInjective
<1>5. ASSUME NEW i \in DOMAIN q
      PROVE  q[i] \in Tradable /\ q[i] \in Symbols /\ HeldOf(q[i]) \in Int
  <2>1. q[i] \in Tradable
    BY <1>2
  <2>2. q[i] \in Symbols /\ (V # "hyperliquid" => ~ IsSpot(q[i]))
    BY <1>1, <2>1, TradableFacts
  <2>3. CASE IsSpot(q[i])
    <3>1. V = "hyperliquid"
      BY <2>2, <2>3
    <3>2. Wallets = {"cash"}
      BY <3>1 DEF Wallets, IsPm, V
    <3>3. wallets["base"]["cash"] \in Money
      BY <1>1, <3>2 DEF Wealth, Assets
    <3>. QED BY <2>1, <2>2, <2>3, <3>3 DEF HeldOf, Money
  <2>4. CASE ~ IsSpot(q[i])
    BY <1>1, <2>1, <2>2, <2>4 DEF HeldOf
  <2>. QED BY <2>3, <2>4
<1>6. ASSUME NEW s \in Symbols, \A i \in DOMAIN q : q[i] # s
      PROVE  Turned(q, after)[s] = positions[s]
  BY <1>1, <1>6 DEF Turned
<1>7. ASSUME NEW i \in DOMAIN q, ~ IsSpot(q[i]) PROVE Turned(q, after)[q[i]] = after[i]
  <2>1. (CHOOSE j \in DOMAIN q : q[j] = q[i]) = i
    BY <1>4
  <2>. QED BY <1>1, <1>5, <1>7, <2>1 DEF Turned
<1>8. Turned(q, after) \in [Symbols -> Int]
  <2>1. \A s \in Symbols : (\E i \in DOMAIN q : q[i] = s) =>
           (CHOOSE i \in DOMAIN q : q[i] = s) \in DOMAIN q
    OBVIOUS
  <2>. QED BY <1>1, <2>1 DEF Turned
<1>. QED BY <1>2, <1>4, <1>5, <1>6, <1>7, <1>8

\* The frame of a change tells of the symbols that changed, and of them alone.
LEMMA ChangesReported ==
  ASSUME AccountsTypeOK, ~ IsSnapshot, NEW q \in Changes, NEW after \in [DOMAIN q -> Int],
         NEW bs \in Purses, V = "hyperliquid" => DOMAIN bs = {}
  PROVE  LET f == Frame(ReportsOf(q, after), bs, "none") IN
         /\ f \in Frames /\ GoodFrame(f)
         /\ DOMAIN f.positions = DOMAIN q /\ f.balances = bs
         /\ \A i \in DOMAIN q : /\ f.positions[i] = Report(q[i], HeldOf(q[i]), after[i])
                                /\ f.positions[i].symbol = q[i]
         /\ \A s \in Held \cap Known :
              IF s \in Mentions(f) THEN Tells(f, s, Turned(q, after)[s] * Unit(s))
              ELSE Turned(q, after)[s] = positions[s]
         /\ \A a \in Assets :
              a \in Mentions(f) <=> a \in DOMAIN bs \/ \E i \in DOMAIN q : IsSpot(q[i])
<1>. DEFINE rs == ReportsOf(q, after)
            f == Frame(rs, bs, "none")
            p == Turned(q, after)
<1>1. account \in Accounts
  BY DEF AccountsTypeOK
<1>2. /\ \E n \in 1 .. 2 : DOMAIN q = 1 .. n
      /\ \A i \in DOMAIN q : q[i] \in Tradable /\ q[i] \in Symbols /\ HeldOf(q[i]) \in Int
      /\ \A i, j \in DOMAIN q : q[i] = q[j] => i = j
      /\ \A s \in Symbols : (\A i \in DOMAIN q : q[i] # s) => p[s] = positions[s]
      /\ \A i \in DOMAIN q : ~ IsSpot(q[i]) => p[q[i]] = after[i]
  BY ChangesFacts
<1>. HIDE DEF p
<1>3. DOMAIN rs = DOMAIN q /\ \A i \in DOMAIN q : rs[i] = Report(q[i], HeldOf(q[i]), after[i])
  BY DEF ReportsOf
<1>4. ASSUME NEW i \in DOMAIN q
      PROVE  /\ rs[i] \in Reports \cup Fills /\ rs[i].symbol = q[i]
             /\ V = "hyperliquid" => rs[i] \in Fills
             /\ ~ IsSpot(q[i]) => Amount(rs[i]) = after[i] * Unit(q[i])
  <2>1. q[i] \in Tradable /\ HeldOf(q[i]) \in Int /\ after[i] \in Int
    BY <1>2
  <2>2. LET e == Report(q[i], HeldOf(q[i]), after[i]) IN
         /\ e \in Reports \cup Fills /\ e.symbol = q[i]
         /\ V = "hyperliquid" => e \in Fills
         /\ ~ IsSpot(q[i]) => Amount(e) = after[i] * Unit(q[i])
    BY <1>1, <2>1, ReportFacts
  <2>. QED BY <1>3, <2>2
<1>5. rs \in Seq(Reports \cup Fills)
  <2>. DEFINE S == Reports \cup Fills
  <2>1. \A i \in DOMAIN q : rs[i] \in S
    BY <1>4
  <2>2. rs = [i \in DOMAIN q |-> rs[i]]
    BY DEF ReportsOf
  <2>. HIDE DEF rs, S
  <2>3. PICK n \in 1 .. 2 : DOMAIN q = 1 .. n
    BY <1>2
  <2>4. rs \in [1 .. n -> S]
    BY <2>1, <2>2, <2>3
  <2>5. rs \in Seq(S)
    BY <2>4
  <2>. QED BY <2>5 DEF S
<1>. HIDE DEF rs
<1>6. f \in Frames /\ f.positions = rs /\ f.balances = bs /\ f.snapshot = "none"
  <2>. DEFINE S == Seq(Reports \cup Fills)
  <2>1. \A ps \in S, b \in Purses, snapshot \in {"none", "usdt", "usdc", "inverse"} :
          LET g == Frame(ps, b, snapshot) IN
          g \in Frames /\ g.positions = ps /\ g.balances = b /\ g.snapshot = snapshot
    BY FrameIsOne
  <2>2. rs \in S
    BY <1>5
  <2>. HIDE DEF S
  <2>. QED BY <2>1, <2>2
<1>. HIDE DEF f
<1>7. GoodFrame(f)
  BY <1>2, <1>3, <1>4, <1>6 DEF GoodFrame
<1>8. ASSUME NEW s \in Held \cap Known
      PROVE  IF s \in Mentions(f) THEN Tells(f, s, p[s] * Unit(s)) ELSE p[s] = positions[s]
  <2>1. s \in Symbols /\ ~ IsSpot(s)
    BY <1>1, HeldFacts
  <2>2. s \in Mentions(f) <=> \E i \in DOMAIN q : q[i] = s
    BY <1>1, <1>3, <1>4, <1>6, <1>7, <2>1, MentionsFacts
  <2>3. CASE s \in Mentions(f)
    <3>1. ASSUME NEW i \in DOMAIN rs, rs[i].symbol = s PROVE Amount(rs[i]) = p[s] * Unit(s)
      <4>1. i \in DOMAIN q /\ q[i] = s
        BY <1>3, <1>4, <3>1
      <4>2. p[s] = after[i] /\ Amount(rs[i]) = after[i] * Unit(s)
        BY <1>2, <1>4, <2>1, <4>1
      <4>. QED BY <4>2
    <3>2. \E i \in DOMAIN rs : rs[i].symbol = s
      BY <1>3, <1>4, <2>2, <2>3
    <3>. QED BY <1>6, <2>3, <3>1, <3>2 DEF Tells
  <2>4. CASE s \notin Mentions(f)
    BY <1>2, <2>1, <2>2, <2>4
  <2>. QED BY <2>3, <2>4
<1>9. \A a \in Assets : a \in Mentions(f) <=> a \in DOMAIN bs \/ \E i \in DOMAIN q : IsSpot(q[i])
  BY <1>1, <1>3, <1>4, <1>6, <1>7, MentionsFacts
<1>10. DOMAIN f.positions = DOMAIN q
       /\ \A i \in DOMAIN q : /\ f.positions[i] = Report(q[i], HeldOf(q[i]), after[i])
                              /\ f.positions[i].symbol = q[i]
  BY <1>3, <1>4, <1>6
<1>. QED BY <1>6, <1>7, <1>8, <1>9, <1>10 DEF f, rs, p

\* A snapshot of Bitget has all open positions of a product, and closes the others.
LEMMA SnapshotSent ==
  ASSUME AccountsTypeOK, IsSnapshot, NEW q \in Changes, NEW after \in [DOMAIN q -> Int],
         NEW p, p = Turned(q, after), NEW product, product = ProductOf[q[1]],
         NEW open \in SetToSeqs({s \in Held : ProductOf[s] = product /\ p[s] # 0})
  PROVE  LET f == Frame([i \in DOMAIN open |-> SidedReport(open[i], p[open[i]])], <<>>, product) IN
         /\ f \in Frames /\ GoodFrame(f)
         /\ \A s \in Held \cap Known :
              IF s \in Mentions(f) THEN Tells(f, s, p[s] * Unit(s)) ELSE p[s] = positions[s]
         /\ \A a \in Assets : a \notin Mentions(f)
<1>. DEFINE S == {s \in Held : ProductOf[s] = product /\ p[s] # 0}
            n == Cardinality(S)
            rs == [i \in DOMAIN open |-> SidedReport(open[i], p[open[i]])]
            f == Frame(rs, <<>>, product)
<1>1. account \in Accounts /\ V = "bitget" /\ account[2] = "futures"
  BY DEF AccountsTypeOK, IsSnapshot, V
<1>2. /\ 1 \in DOMAIN q
      /\ \A i \in DOMAIN q : q[i] \in Tradable /\ q[i] \in Symbols /\ ProductOf[q[i]] = product
      /\ p \in [Symbols -> Int]
      /\ \A s \in Symbols : (\A i \in DOMAIN q : q[i] # s) => p[s] = positions[s]
  <2>1. /\ \E m \in 1 .. 2 : DOMAIN q = 1 .. m
        /\ \A i \in DOMAIN q : q[i] \in Tradable /\ q[i] \in Symbols
        /\ p \in [Symbols -> Int]
        /\ \A s \in Symbols : (\A i \in DOMAIN q : q[i] # s) => p[s] = positions[s]
    BY ChangesFacts
  <2>2. \A i, j \in DOMAIN q : ProductOf[q[i]] = ProductOf[q[j]]
    BY DEF Changes
  <2>3. 1 \in DOMAIN q
    BY <2>1
  <2>. QED BY <2>1, <2>2, <2>3
<1>3. product \in {"usdt", "usdc", "inverse"}
  <2>1. q[1] \in Tradable /\ product = ProductOf[q[1]]
    BY <1>2
  <2>. QED BY <1>1, <2>1, TradableFacts
<1>4. S \subseteq Symbols /\ IsFiniteSet(S) /\ n \in Nat
  <2>1. S \subseteq Symbols
    BY <1>1, HeldFacts
  <2>. HIDE DEF S
  <2>2. IsFiniteSet(S)
    BY <2>1, FiniteFacts
  <2>. QED BY <2>1, <2>2, FS_CardinalityType
<1>5. open \in [1 .. n -> S] /\ \A i, j \in 1 .. n : open[i] = open[j] => i = j
  BY DEF SetToSeqs, S, n
<1>6. \A s \in S : \E i \in DOMAIN open : open[i] = s
  <2>. HIDE DEF S
  <2>1. /\ DOMAIN open = 1 .. Cardinality(S) /\ \A i \in DOMAIN open : open[i] \in S
        /\ open = [i \in DOMAIN open |-> open[i]]
        /\ \A i, j \in DOMAIN open : open[i] = open[j] => i = j
    BY <1>5
  <2>. QED BY ONLY <1>4, <2>1, SequenceOfSet
<1>7. ASSUME NEW i \in 1 .. n
      PROVE  /\ open[i] \in Held /\ ProductOf[open[i]] = product
             /\ open[i] \in Tradable /\ open[i] \in Symbols /\ p[open[i]] \in Int
  <2>1. open[i] \in Held /\ ProductOf[open[i]] = product
    BY <1>5
  <2>. QED BY <1>1, <1>2, <2>1, HeldFacts
<1>8. DOMAIN rs = 1 .. n /\ DOMAIN open = 1 .. n
      /\ \A i \in 1 .. n : rs[i] = SidedReport(open[i], p[open[i]])
  BY <1>5
<1>9. ASSUME NEW i \in 1 .. n
      PROVE  /\ rs[i] \in Reports \cup Fills /\ rs[i].symbol = open[i]
             /\ Signed(rs[i]) = p[open[i]]
  <2>. DEFINE s == open[i]
              x == p[s]
  <2>1. rs[i] = [symbol |-> s, side |-> SideOf(x), size |-> Abs(x)] /\ x \in Int /\ s \in Ids
    BY <1>7, <1>8 DEF SidedReport, Ids
  <2>. HIDE DEF s, x
  <2>2. SideOf(x) \in Sides /\ Abs(x) \in Int
    BY <2>1 DEF SideOf, Sides, Abs
  <2>3. rs[i] \in Reports
    BY <2>1, <2>2 DEF Reports
  <2>4. Signed(rs[i]) = x
    BY <2>1 DEF Signed, SideOf, Abs
  <2>. QED BY <2>1, <2>3, <2>4 DEF s, x
<1>. HIDE DEF rs
<1>10. f \in Frames /\ f.positions = rs /\ DOMAIN f.balances = {} /\ f.snapshot = product
  <2>. DEFINE T == Seq(Reports \cup Fills)
  <2>1. rs \in T
    <3>. DEFINE R == Reports \cup Fills
    <3>1. \A i \in 1 .. n : rs[i] \in R
      BY <1>9
    <3>2. rs = [i \in 1 .. n |-> rs[i]]
      BY <1>8 DEF rs
    <3>. HIDE DEF R, n
    <3>3. rs \in [1 .. n -> R]
      BY <3>1, <3>2
    <3>4. rs \in Seq(R)
      BY <1>4, <3>3
    <3>. QED BY <3>4 DEF R
  <2>2. <<>> \in Purses
    <3>1. DOMAIN <<>> = {} /\ <<>> = [y \in DOMAIN <<>> |-> <<>>[y]]
      OBVIOUS
    <3>. QED BY <3>1, PursesFacts
  <2>3. \A ps \in T, bs \in Purses, snapshot \in {"none", "usdt", "usdc", "inverse"} :
          LET g == Frame(ps, bs, snapshot) IN
          g \in Frames /\ g.positions = ps /\ g.balances = bs /\ g.snapshot = snapshot
    BY FrameIsOne
  <2>. HIDE DEF T
  <2>4. f \in Frames /\ f.positions = rs /\ f.balances = <<>> /\ f.snapshot = product
    BY <1>3, <2>1, <2>2, <2>3
  <2>. QED BY <2>4
<1>. HIDE DEF f
<1>11. GoodFrame(f)
  <2>1. \A i, j \in DOMAIN f.positions : f.positions[i].symbol = f.positions[j].symbol => i = j
    BY <1>5, <1>8, <1>9, <1>10
  <2>2. \A i \in DOMAIN f.positions : f.positions[i].symbol \in Tradable
                                      /\ ProductOf[f.positions[i].symbol] = f.snapshot
    BY <1>7, <1>8, <1>9, <1>10
  <2>. QED BY <1>1, <2>1, <2>2 DEF GoodFrame
<1>12. ASSUME NEW s \in Held \cap Known
       PROVE  IF s \in Mentions(f) THEN Tells(f, s, p[s] * Unit(s)) ELSE p[s] = positions[s]
  <2>1. s \in Symbols /\ Unit(s) = 1 /\ p[s] \in Int /\ ~ IsSpot(s)
    BY <1>1, <1>2, HeldFacts, UnitFacts
  <2>2. s \in Mentions(f) <=> ProductOf[s] = product
    <3>1. s \in Mentions(f) <=> \/ \E i \in DOMAIN rs : rs[i].symbol = s
                                \/ ProductOf[s] = product
      BY <1>1, <1>3, <1>10, <1>11, <2>1, MentionsFacts
    <3>. QED BY <1>7, <1>8, <1>9, <3>1
  <2>3. CASE ProductOf[s] = product
    <3>1. ASSUME NEW i \in DOMAIN rs, rs[i].symbol = s PROVE Amount(rs[i]) = p[s] * Unit(s)
      <4>1. Signed(rs[i]) = p[s]
        BY <1>8, <1>9, <3>1
      <4>. QED BY <1>1, <3>1, <4>1 DEF Amount
    <3>2. ASSUME \A i \in DOMAIN rs : rs[i].symbol # s PROVE p[s] * Unit(s) = 0
      <4>1. s \notin S
        BY <1>6, <1>8, <1>9, <3>2
      <4>2. p[s] = 0
        BY <2>3, <4>1
      <4>. QED BY <2>1, <4>2
    <3>. QED BY <1>10, <2>2, <2>3, <3>1, <3>2 DEF Tells
  <2>4. CASE ProductOf[s] # product
    <3>1. \A i \in DOMAIN q : q[i] # s
      BY <1>2, <2>4
    <3>. QED BY <1>2, <2>1, <2>2, <2>4, <3>1
  <2>. QED BY <2>3, <2>4
<1>13. \A a \in Assets : a \notin Mentions(f)
  <2>1. \A i \in DOMAIN f.positions : ~ IsSpot(f.positions[i].symbol)
    BY <1>3, <1>7, <1>8, <1>9, <1>10 DEF IsSpot
  <2>. QED BY <1>1, <1>10, <1>11, <2>1, MentionsFacts
<1>. QED BY <1>10, <1>11, <1>12, <1>13 DEF f, rs

\* A trade changes one or two positions, and the venue tells of it.
LEMMA TradeKeeps ==
  ASSUME AccountsTypeOK, AccountsInv, Trade
  PROVE  (AccountsTypeOK /\ AccountsInv)'
<1>1. /\ stage # "refused" /\ UNCHANGED <<account, stage, connected, keyExpired, cache>>
  BY DEF Trade, key
<1>14. PICK q \in Changes :
       \E after \in [DOMAIN q -> -MaxSize..MaxTotal] :
       LET reports == [i \in DOMAIN q |-> Report(q[i], HeldOf(q[i]), after[i])]
           bought  == {i \in DOMAIN q : IsSpot(q[i])}
           product == ProductOf[q[1]]
           w       == WalletOf(q[1])
       IN
       /\ \A i \in DOMAIN q : after[i] \in AmountsAfter(q[i])
       /\ positions' = [s \in DOMAIN positions |->
            IF \E i \in DOMAIN q : q[i] = s /\ ~IsSpot(s)
            THEN after[CHOOSE i \in DOMAIN q : q[i] = s] ELSE positions[s]]
       /\ \/ /\ V = "binance"
             /\ wallets["quote"][w].total > 0
             /\ wallets' = [wallets EXCEPT !["quote"][w] = Paid(@)]
             /\ Send(Frame(reports, [a \in {"quote"} |-> ParsedUpdate(wallets'["quote"][w])],
                  "none"))
          \/ /\ IsSnapshot
             /\ UNCHANGED wallets
             /\ \E open \in SetToSeqs({s \in Held : ProductOf[s] = product /\ positions'[s] # 0}) :
                  Send(Frame([i \in DOMAIN open |-> SidedReport(open[i], positions'[open[i]])],
                             <<>>, product))
          \/ /\ V # "binance" /\ ~IsSnapshot /\ bought = {}
             /\ UNCHANGED wallets
             /\ Send(Frame(reports, <<>>, "none"))
          \/ \E i \in bought :
               LET buys == after[i] > HeldOf(q[i])
                   paid == wallets["quote"]["cash"].total
                             + IF buys THEN -FillSize ELSE FillSize - Fee
               IN
               /\ paid \in 0..MaxTotal
               /\ wallets' = [wallets EXCEPT !["base"]["cash"] = [total |-> after[i], locked |-> 0],
                                             !["quote"]["cash"] = [total |-> paid, locked |-> 0]]
               /\ Send(Frame(reports, <<>>, "none"))
  BY DEF Trade
<1>2. PICK after \in [DOMAIN q -> -MaxSize..MaxTotal] :
       LET reports == [i \in DOMAIN q |-> Report(q[i], HeldOf(q[i]), after[i])]
           bought  == {i \in DOMAIN q : IsSpot(q[i])}
           product == ProductOf[q[1]]
           w       == WalletOf(q[1])
       IN
       /\ \A i \in DOMAIN q : after[i] \in AmountsAfter(q[i])
       /\ positions' = [s \in DOMAIN positions |->
            IF \E i \in DOMAIN q : q[i] = s /\ ~IsSpot(s)
            THEN after[CHOOSE i \in DOMAIN q : q[i] = s] ELSE positions[s]]
       /\ \/ /\ V = "binance"
             /\ wallets["quote"][w].total > 0
             /\ wallets' = [wallets EXCEPT !["quote"][w] = Paid(@)]
             /\ Send(Frame(reports, [a \in {"quote"} |-> ParsedUpdate(wallets'["quote"][w])],
                  "none"))
          \/ /\ IsSnapshot
             /\ UNCHANGED wallets
             /\ \E open \in SetToSeqs({s \in Held : ProductOf[s] = product /\ positions'[s] # 0}) :
                  Send(Frame([i \in DOMAIN open |-> SidedReport(open[i], positions'[open[i]])],
                             <<>>, product))
          \/ /\ V # "binance" /\ ~IsSnapshot /\ bought = {}
             /\ UNCHANGED wallets
             /\ Send(Frame(reports, <<>>, "none"))
          \/ \E i \in bought :
               LET buys == after[i] > HeldOf(q[i])
                   paid == wallets["quote"]["cash"].total
                             + IF buys THEN -FillSize ELSE FillSize - Fee
               IN
               /\ paid \in 0..MaxTotal
               /\ wallets' = [wallets EXCEPT !["base"]["cash"] = [total |-> after[i], locked |-> 0],
                                             !["quote"]["cash"] = [total |-> paid, locked |-> 0]]
               /\ Send(Frame(reports, <<>>, "none"))
  BY <1>14
<1>. DEFINE rs == ReportsOf(q, after)
            p == Turned(q, after)
            w == WalletOf(q[1])
            product == ProductOf[q[1]]
            bought == {i \in DOMAIN q : IsSpot(q[i])}
<1>3. /\ \A i \in DOMAIN q : after[i] \in AmountsAfter(q[i])
      /\ positions' = p
      /\ \/ /\ V = "binance"
            /\ wallets' = [wallets EXCEPT !["quote"][w] = Paid(@)]
            /\ Send(Frame(rs, [a \in {"quote"} |-> ParsedUpdate(wallets'["quote"][w])], "none"))
         \/ /\ IsSnapshot
            /\ UNCHANGED wallets
            /\ \E open \in SetToSeqs({s \in Held : ProductOf[s] = product /\ positions'[s] # 0}) :
                 Send(Frame([i \in DOMAIN open |-> SidedReport(open[i], positions'[open[i]])],
                            <<>>, product))
         \/ /\ ~IsSnapshot /\ bought = {}
            /\ V # "binance"
            /\ UNCHANGED wallets
            /\ Send(Frame(rs, <<>>, "none"))
         \/ \E i \in bought :
              LET buys == after[i] > HeldOf(q[i])
                  paid == wallets["quote"]["cash"].total
                            + IF buys THEN -FillSize ELSE FillSize - Fee
              IN
              /\ paid \in 0..MaxTotal
              /\ wallets' = [wallets EXCEPT !["base"]["cash"] = [total |-> after[i], locked |-> 0],
                                            !["quote"]["cash"] = [total |-> paid, locked |-> 0]]
              /\ Send(Frame(rs, <<>>, "none"))
  BY <1>2 DEF ReportsOf, Turned
<1>4. /\ account \in Accounts /\ positions \in [Symbols -> Int] /\ wallets \in Wealth
  BY DEF AccountsTypeOK
<1>5. after \in [DOMAIN q -> Int]
  BY AccountsAssumption
<1>6. /\ \E n \in 1 .. 2 : DOMAIN q = 1 .. n
      /\ \A i \in DOMAIN q : q[i] \in Tradable /\ q[i] \in Symbols /\ HeldOf(q[i]) \in Int
      /\ \A i, j \in DOMAIN q : q[i] = q[j] => i = j
      /\ p \in [Symbols -> Int]
  BY <1>5, ChangesFacts
<1>7. positions' \in [Symbols -> Int]
  BY <1>3, <1>6
<1>8. <<>> \in Purses /\ DOMAIN <<>> = {}
  <2>1. DOMAIN <<>> = {} /\ <<>> = [y \in DOMAIN <<>> |-> <<>>[y]]
    OBVIOUS
  <2>. QED BY <2>1, PursesFacts
<1>9. ASSUME ~ IsSnapshot, NEW bs \in Purses, V = "hyperliquid" => DOMAIN bs = {}
      PROVE  LET f == Frame(rs, bs, "none") IN
             /\ f \in Frames /\ GoodFrame(f)
             /\ DOMAIN f.positions = DOMAIN q /\ f.balances = bs
             /\ \A i \in DOMAIN q : /\ f.positions[i] = Report(q[i], HeldOf(q[i]), after[i])
                                    /\ f.positions[i].symbol = q[i]
             /\ \A s \in Held \cap Known :
                  IF s \in Mentions(f) THEN Tells(f, s, p[s] * Unit(s)) ELSE p[s] = positions[s]
             /\ \A a \in Assets :
                  a \in Mentions(f) <=> a \in DOMAIN bs \/ \E i \in DOMAIN q : IsSpot(q[i])
  BY <1>5, <1>9, ChangesReported
<1>. HIDE DEF rs, p
<1>10. CASE /\ V = "binance"
            /\ wallets' = [wallets EXCEPT !["quote"][w] = Paid(@)]
            /\ Send(Frame(rs, [a \in {"quote"} |-> ParsedUpdate(wallets'["quote"][w])], "none"))
  <2>. DEFINE told == ParsedUpdate(wallets'["quote"][w])
              bs == [a \in {"quote"} |-> told]
              f == Frame(rs, bs, "none")
  <2>1. w \in Wallets
    BY DEF WalletOf, Wallets
  <2>2. /\ wallets' \in Wealth
        /\ \A v \in Wallets : wallets'["base"][v] = wallets["base"][v]
    <3>1. Paid(wallets["quote"][w]) \in Money
      <4>1. \A m \in Money : Paid(m) \in Money
        BY DEF Paid, Money
      <4>2. wallets["quote"][w] \in Money
        BY <1>4, <2>1 DEF Wealth, Assets
      <4>. QED BY <4>1, <4>2
    <3>2. wallets' = [wallets EXCEPT !["quote"][w] = Paid(wallets["quote"][w])]
      BY <1>10
    <3>. HIDE DEF w
    <3>. QED BY <1>4, <2>1, <3>1, <3>2 DEF Wealth, Assets
  <2>3. told \in Purse /\ told.free + told.locked = wallets'["quote"][w].total
    <3>1. wallets'["quote"][w] \in Money
      BY <2>1, <2>2 DEF Wealth, Assets
    <3>. QED BY <3>1 DEF ParsedUpdate, Purse, Money
  <2>. HIDE DEF told
  <2>4. bs \in Purses /\ DOMAIN bs = {"quote"} /\ bs["quote"] = told
    BY <2>3, PursesFacts DEF Assets
  <2>5. ~ IsSnapshot /\ \A i \in DOMAIN q : ~ IsSpot(q[i])
    BY <1>4, <1>6, <1>10, TradableFacts DEF IsSnapshot, V
  <2>6. Send(f)
    BY <1>10 DEF told
  <2>. HIDE DEF bs
  <2>7. /\ f \in Frames /\ GoodFrame(f)
        /\ DOMAIN f.positions = DOMAIN q /\ f.balances = bs
        /\ \A i \in DOMAIN q : f.positions[i].symbol = q[i]
        /\ \A s \in Held \cap Known :
             IF s \in Mentions(f) THEN Tells(f, s, p[s] * Unit(s)) ELSE p[s] = positions[s]
        /\ \A a \in Assets :
             a \in Mentions(f) <=> a \in DOMAIN bs \/ \E i \in DOMAIN q : IsSpot(q[i])
    BY <1>9, <1>10, <2>4, <2>5
  <2>. HIDE DEF f
  <2>8. \A a \in Assets : a \in Mentions(f) <=> a = "quote"
    BY <2>4, <2>5, <2>7
  <2>9. IsPm \/ TellsTotal(f, "quote", Total(wallets', "quote"))
    <3>1. ~ IsPm => Total(wallets', "quote") = wallets'["quote"][w].total
      BY DEF Total, WalletOf
    <3>. QED BY <2>3, <2>4, <2>5, <2>7, <3>1 DEF TellsTotal
  <2>10. Total(wallets', "base") = Total(wallets, "base")
    <3>1. IF IsPm THEN Wallets = {"margin", "um", "cm"} ELSE Wallets = {"cash"}
      BY DEF Wallets
    <3>. QED BY <2>2, <3>1 DEF Total
  <2>11. /\ \A s \in Held \cap Known :
              IF s \in Mentions(f) THEN Tells(f, s, positions'[s] * Unit(s))
              ELSE positions'[s] = positions[s]
         /\ \A a \in Assets :
              (V = "hyperliquid" => a = "base") =>
                IF a \in Mentions(f) THEN IsPm \/ TellsTotal(f, a, Total(wallets', a))
                ELSE Total(wallets', a) = Total(wallets, a)
         /\ V = "hyperliquid" => Moves(f, Total(wallets', "quote") - Total(wallets, "quote"))
    BY <1>3, <1>10, <2>7, <2>8, <2>9, <2>10 DEF Assets
  <2>12. Sent(wire, lost, f, wire', lost')
    BY <2>6, SendSent
  <2>. QED BY <1>1, <1>7, <2>2, <2>7, <2>11, <2>12, FrameSent
<1>11. CASE /\ IsSnapshot /\ UNCHANGED wallets
            /\ \E open \in SetToSeqs({s \in Held : ProductOf[s] = product /\ positions'[s] # 0}) :
                 Send(Frame([i \in DOMAIN open |-> SidedReport(open[i], positions'[open[i]])],
                            <<>>, product))
  <2>1. PICK open \in SetToSeqs({s \in Held : ProductOf[s] = product /\ p[s] # 0}) :
               Send(Frame([i \in DOMAIN open |-> SidedReport(open[i], p[open[i]])], <<>>, product))
    BY <1>3, <1>11
  <2>. DEFINE f == Frame([i \in DOMAIN open |-> SidedReport(open[i], p[open[i]])], <<>>, product)
  <2>2. /\ f \in Frames /\ GoodFrame(f)
        /\ \A s \in Held \cap Known :
              IF s \in Mentions(f) THEN Tells(f, s, p[s] * Unit(s)) ELSE p[s] = positions[s]
        /\ \A a \in Assets : a \notin Mentions(f)
    BY <1>5, <1>11, SnapshotSent DEF p
  <2>3. Send(f)
    BY <2>1
  <2>. HIDE DEF f
  <2>4. V # "hyperliquid"
    BY <1>11 DEF IsSnapshot, V
  <2>5. /\ \A s \in Held \cap Known :
              IF s \in Mentions(f) THEN Tells(f, s, positions'[s] * Unit(s))
              ELSE positions'[s] = positions[s]
        /\ \A a \in Assets :
              (V = "hyperliquid" => a = "base") =>
                IF a \in Mentions(f) THEN IsPm \/ TellsTotal(f, a, Total(wallets', a))
                ELSE Total(wallets', a) = Total(wallets, a)
        /\ V = "hyperliquid" => Moves(f, Total(wallets', "quote") - Total(wallets, "quote"))
    BY <1>3, <1>11, <2>2, <2>4
  <2>6. Sent(wire, lost, f, wire', lost') /\ wallets' \in Wealth
    BY <1>4, <1>11, <2>3, SendSent
  <2>. QED BY <1>1, <1>7, <2>2, <2>5, <2>6, FrameSent
<1>12. CASE /\ ~IsSnapshot /\ bought = {} /\ V # "binance"
            /\ UNCHANGED wallets /\ Send(Frame(rs, <<>>, "none"))
  <2>. DEFINE f == Frame(rs, <<>>, "none")
  <2>1. /\ f \in Frames /\ GoodFrame(f)
        /\ DOMAIN f.positions = DOMAIN q
        /\ \A i \in DOMAIN q : f.positions[i].symbol = q[i]
        /\ \A s \in Held \cap Known :
             IF s \in Mentions(f) THEN Tells(f, s, p[s] * Unit(s)) ELSE p[s] = positions[s]
        /\ \A a \in Assets :
             a \in Mentions(f) <=> a \in DOMAIN <<>> \/ \E i \in DOMAIN q : IsSpot(q[i])
    BY <1>8, <1>9, <1>12
  <2>2. Send(f)
    BY <1>12
  <2>. HIDE DEF f
  <2>3. \A i \in DOMAIN q : ~ IsSpot(q[i])
    BY <1>12
  <2>4. \A a \in Assets : a \notin Mentions(f) /\ Total(wallets, a) \in Int
    BY <1>4, <1>8, <2>1, <2>3, TotalFacts
  <2>5. Moves(f, Total(wallets', "quote") - Total(wallets, "quote"))
    <3>1. Total(wallets', "quote") - Total(wallets, "quote") = 0
      BY <1>12, <2>4 DEF Assets
    <3>. QED BY <2>1, <2>3, <3>1 DEF Moves
  <2>6. /\ \A s \in Held \cap Known :
              IF s \in Mentions(f) THEN Tells(f, s, positions'[s] * Unit(s))
              ELSE positions'[s] = positions[s]
        /\ \A a \in Assets :
              (V = "hyperliquid" => a = "base") =>
                IF a \in Mentions(f) THEN IsPm \/ TellsTotal(f, a, Total(wallets', a))
                ELSE Total(wallets', a) = Total(wallets, a)
    BY <1>3, <1>12, <2>1, <2>4
  <2>7. Sent(wire, lost, f, wire', lost') /\ wallets' \in Wealth
    BY <1>4, <1>12, <2>2, SendSent
  <2>. QED BY <1>1, <1>7, <2>1, <2>5, <2>6, <2>7, FrameSent
<1>13. ASSUME NEW i \in bought,
              LET buys == after[i] > HeldOf(q[i])
                  paid == wallets["quote"]["cash"].total
                            + IF buys THEN -FillSize ELSE FillSize - Fee
              IN
              /\ paid \in 0..MaxTotal
              /\ wallets' = [wallets EXCEPT !["base"]["cash"] = [total |-> after[i], locked |-> 0],
                                            !["quote"]["cash"] = [total |-> paid, locked |-> 0]]
              /\ Send(Frame(rs, <<>>, "none"))
       PROVE  (AccountsTypeOK /\ AccountsInv)'
  <2>. DEFINE f == Frame(rs, <<>>, "none")
              h == HeldOf(q[i])
              x == after[i]
              step == IF x > h THEN -FillSize ELSE FillSize - Fee
              paid == wallets["quote"]["cash"].total + step
              e == Report(q[i], h, x)
  <2>1. i \in DOMAIN q /\ IsSpot(q[i]) /\ q[i] \in Tradable /\ h \in Int /\ x \in Int
    BY <1>5, <1>6
  <2>2. V = "hyperliquid"
    BY <1>4, <2>1, TradableFacts
  <2>3. ~ IsSnapshot /\ ~ IsPm /\ Wallets = {"cash"}
    BY <2>2 DEF IsSnapshot, IsPm, Wallets, V
  <2>4. /\ wallets' = [wallets EXCEPT !["base"]["cash"] = [total |-> x, locked |-> 0],
                                      !["quote"]["cash"] = [total |-> paid, locked |-> 0]]
        /\ Send(f)
    BY <1>13
  <2>5. Fee \in Nat /\ FillSize \in Nat /\ Fee < FillSize
    BY AccountsAssumption
  <2>6. \/ x = h + FillSize - Fee /\ step = 0 - FillSize
        \/ x = h - FillSize /\ step = FillSize - Fee
    <3>1. x = h + FillSize - Fee \/ x = h - FillSize
      BY <1>3, <2>1 DEF AmountsAfter
    <3>. HIDE DEF x, h
    <3>. QED BY <2>1, <2>5, <3>1
  <2>7. Bought(e) = x /\ Paying(e) = step
    <3>1. /\ x = h + FillSize - Fee => Bought(e) = x /\ Paying(e) = 0 - FillSize
          /\ x = h - FillSize => Bought(e) = x /\ Paying(e) = FillSize - Fee
      BY <1>4, <2>1, ReportFacts
    <3>. QED BY <2>6, <3>1
  <2>8. /\ f \in Frames /\ GoodFrame(f)
        /\ DOMAIN f.positions = DOMAIN q /\ DOMAIN f.balances = {}
        /\ \A j \in DOMAIN q : f.positions[j].symbol = q[j]
        /\ f.positions[i] = e
        /\ \A s \in Held \cap Known :
             IF s \in Mentions(f) THEN Tells(f, s, p[s] * Unit(s)) ELSE p[s] = positions[s]
        /\ \A a \in Assets :
             a \in Mentions(f) <=> a \in DOMAIN <<>> \/ \E j \in DOMAIN q : IsSpot(q[j])
    BY <1>8, <1>9, <2>1, <2>3
  <2>. HIDE DEF f, e
  <2>9. \A j \in DOMAIN q : IsSpot(q[j]) => j = i
    BY <1>6, <2>1, AccountsAssumption DEF IsSpot
  <2>10. /\ wallets["quote"]["cash"] \in Money
         /\ wallets["quote"]["cash"].total \in Int
    BY <1>4, <2>3 DEF Wealth, Money, Assets
  <2>11. paid \in Int /\ step \in Int
    BY <2>5, <2>10
  <2>. HIDE DEF paid, step, x, h
  <2>12. /\ wallets' \in Wealth
         /\ wallets'["base"]["cash"].total = x /\ wallets'["quote"]["cash"].total = paid
    <3>1. [total |-> x, locked |-> 0] \in Money /\ [total |-> paid, locked |-> 0] \in Money
      BY <2>1, <2>11 DEF Money
    <3>. QED BY <1>4, <2>3, <2>4, <3>1 DEF Wealth, Assets
  <2>13. Total(wallets', "base") = x
         /\ Total(wallets', "quote") - Total(wallets, "quote") = step
    <3>1. paid = wallets["quote"]["cash"].total + step
      BY DEF paid
    <3>. QED BY <2>3, <2>10, <2>11, <2>12, <3>1 DEF Total
  <2>14. TellsTotal(f, "base", Total(wallets', "base"))
    BY <2>7, <2>8, <2>9, <2>13 DEF TellsTotal
  <2>15. Moves(f, Total(wallets', "quote") - Total(wallets, "quote"))
    BY <2>1, <2>7, <2>8, <2>9, <2>13 DEF Moves
  <2>16. "base" \in Mentions(f)
    BY <2>1, <2>8 DEF Assets
  <2>17. /\ \A s \in Held \cap Known :
              IF s \in Mentions(f) THEN Tells(f, s, positions'[s] * Unit(s))
              ELSE positions'[s] = positions[s]
         /\ \A a \in Assets :
              (V = "hyperliquid" => a = "base") =>
                IF a \in Mentions(f) THEN IsPm \/ TellsTotal(f, a, Total(wallets', a))
                ELSE Total(wallets', a) = Total(wallets, a)
    BY <1>3, <2>2, <2>8, <2>14, <2>16
  <2>18. Sent(wire, lost, f, wire', lost')
    BY <2>4, SendSent
  <2>. QED BY <1>1, <1>7, <2>8, <2>12, <2>15, <2>17, <2>18, FrameSent
<1>. QED BY <1>3, <1>10, <1>11, <1>12, <1>13

-----------------------------------------------------------------------------
(* The OMS is built.                                                        *)

\* A position that is listed has its signed size.
LEMMA ListedSigned ==
  ASSUME NEW s, positions[s] \in Int
  PROVE  ListedReport(s).symbol = s /\ Signed(ListedReport(s)) = positions[s]
BY DEF ListedReport, SidedReport, NetReport, Signed, SideOf, Abs

\* Every position that is read is in the cache, and no other.
LEMMA ListedApplied ==
  ASSUME account \in Accounts, positions \in [Symbols -> Int],
         NEW c \in Caches, DOMAIN c.positions = {}, NEW read, read \subseteq Held \cap Known
  PROVE  LET r == ApplyListed(c, read) IN
         /\ r \in Caches /\ r.balances = c.balances /\ DOMAIN r.positions \subseteq Held \cap Known
         /\ \A s : HeldIn(r, s) = IF s \in read THEN positions[s] * Unit(s) ELSE 0
<1>. DEFINE q == SetToSeq(read)
            n == Cardinality(read)
            es == [i \in DOMAIN q |-> ListedReport(q[i])]
            r == ApplyEntries(c, es)
<1>1. read \subseteq Symbols /\ IsFiniteSet(read)
  <2>1. read \subseteq Symbols
    BY HeldFacts
  <2>. QED BY <2>1, FiniteFacts
<1>2. /\ n \in Nat /\ DOMAIN q = 1 .. n
      /\ \A i \in DOMAIN q : q[i] \in read
      /\ \A i, j \in DOMAIN q : q[i] = q[j] => i = j
      /\ \A s \in read : \E i \in DOMAIN q : q[i] = s
  BY <1>1, SetToSeqFacts
<1>3. ApplyListed(c, read) = r
  BY DEF ApplyListed
<1>. HIDE DEF q
<1>4. DOMAIN es = 1 .. n
      /\ \A i \in 1 .. n : es[i].symbol = q[i] /\ Signed(es[i]) = positions[q[i]]
  <2>1. \A i \in 1 .. n : positions[q[i]] \in Int
    BY <1>1, <1>2
  <2>. QED BY <1>2, <2>1, ListedSigned
<1>. HIDE DEF es
<1>5. Entries(es, n)
  <2>1. ASSUME NEW i \in 1 .. n PROVE es[i].symbol \in Ids /\ Signed(es[i]) \in Int
    BY <1>1, <1>2, <1>4 DEF Ids
  <2>. QED BY <1>2, <1>4, <2>1 DEF Entries
<1>. HIDE DEF n
<1>6. /\ r \in Caches /\ r.balances = c.balances
      /\ \A y \in DOMAIN r.positions : y \notin DOMAIN c.positions =>
           \E i \in 1 .. n : es[i].symbol = y /\ y # NoSymbol
      /\ \A y : (\A i \in 1 .. n : es[i].symbol # y) => HeldIn(r, y) = HeldIn(c, y)
      /\ \A i \in 1 .. n :
           es[i].symbol # NoSymbol /\ (\A j \in 1 .. n : j > i => es[j].symbol # es[i].symbol)
             => HeldIn(r, es[i].symbol) = Signed(es[i]) * Unit(es[i].symbol)
  BY <1>5, EntriesApplied
<1>. HIDE DEF r
<1>7. DOMAIN r.positions \subseteq Held \cap Known
  BY <1>2, <1>4, <1>6
<1>8. ASSUME NEW s PROVE HeldIn(r, s) = IF s \in read THEN positions[s] * Unit(s) ELSE 0
  <2>1. CASE s \in read
    <3>1. PICK i \in 1 .. n : q[i] = s
      BY <1>2, <2>1
    <3>2. es[i].symbol = s /\ s # NoSymbol
      BY <1>1, <1>4, <2>1, <3>1, AccountsAssumption
    <3>3. \A j \in 1 .. n : j > i => es[j].symbol # es[i].symbol
      <4>1. \A j \in 1 .. n : j > i => j # i
        BY <1>2
      <4>. QED BY <1>2, <1>4, <4>1
    <3>. QED BY <1>4, <1>6, <2>1, <3>1, <3>2, <3>3
  <2>2. CASE s \notin read
    <3>1. HeldIn(r, s) = HeldIn(c, s)
      BY <1>2, <1>4, <1>6, <2>2
    <3>2. HeldIn(c, s) = 0
      BY DEF HeldIn
    <3>. QED BY <2>2, <3>1, <3>2
  <2>. QED BY <2>1, <2>2
<1>. QED BY <1>3, <1>6, <1>7, <1>8

\* What is listed: every open position but those of options, and no option.
Listings == {l \in SUBSET {s \in Held : ProductOf[s] # "option"} :
               {s \in Held : positions[s] # 0 /\ ProductOf[s] # "option"} \subseteq l}

\* The positions that are read at the start are those of the venue, if no one of them
\* makes the OMS refuse to start.
LEMMA PositionsRead ==
  ASSUME account \in Accounts, positions \in [Symbols -> Int],
         NEW c \in Caches, DOMAIN c.positions = {}, NEW listed \in Listings, ~ Refused(listed)
  PROVE  LET r == InitPositions(c, listed) IN
         /\ r \in Caches /\ r.balances = c.balances /\ DOMAIN r.positions \subseteq Held \cap Known
         /\ \A s \in Held \cap Known : HeldIn(r, s) = positions[s] * Unit(s)
<1>1. /\ listed \subseteq Held
      /\ \A s \in Held \cap Known : positions[s] # 0 => s \in listed
  BY AccountsAssumption DEF Listings
<1>2. \A s \in Held \cap Known :
        s \in Symbols /\ positions[s] \in Int /\ Unit(s) \in Int /\ s # NoSymbol
  BY HeldFacts, UnitFacts, AccountsAssumption
<1>3. ASSUME NEW read, read \subseteq listed \cap Known,
             \A s \in Held \cap Known : positions[s] # 0 => s \in read
      PROVE  LET r == ApplyListed(c, read) IN
             /\ r \in Caches /\ r.balances = c.balances
             /\ DOMAIN r.positions \subseteq Held \cap Known
             /\ \A s \in Held \cap Known : HeldIn(r, s) = positions[s] * Unit(s)
  <2>. DEFINE r == ApplyListed(c, read)
  <2>1. /\ r \in Caches /\ r.balances = c.balances /\ DOMAIN r.positions \subseteq Held \cap Known
        /\ \A s : HeldIn(r, s) = IF s \in read THEN positions[s] * Unit(s) ELSE 0
    <3>1. read \subseteq Held \cap Known
      BY <1>1, <1>3
    <3>. QED BY <3>1, ListedApplied
  <2>. HIDE DEF r
  <2>2. ASSUME NEW s \in Held \cap Known PROVE HeldIn(r, s) = positions[s] * Unit(s)
    <3>1. CASE s \in read
      BY <2>1, <3>1
    <3>2. CASE s \notin read
      <4>1. positions[s] = 0 /\ positions[s] * Unit(s) = 0
        BY <1>2, <1>3, <3>2
      <4>. QED BY <2>1, <3>2, <4>1
    <3>. QED BY <3>1, <3>2
  <2>3. /\ r \in Caches /\ r.balances = c.balances /\ DOMAIN r.positions \subseteq Held \cap Known
        /\ \A s \in Held \cap Known : HeldIn(r, s) = positions[s] * Unit(s)
    BY <2>1, <2>2
  <2>. QED BY <2>3 DEF r
<1>4. \A s \in Symbols : RawMarketId(s) # NoSymbol <=> s \in Known
  BY AccountsAssumption DEF RawMarketId
<1>5. CASE V = "binance"
  <2>. DEFINE suffix(s) == CASE account[2] = "linear"  -> "_linear"
                             [] account[2] = "inverse" -> "_inverse"
                             [] OTHER -> Suffix(ProductOf[s])
              read == {s \in listed : MarketId(s, suffix(s)) # NoSymbol /\ positions[s] # 0}
  <2>1. InitPositions(c, listed) = BinanceInit(c, listed)
    BY <1>5 DEF InitPositions
  <2>2. BinanceInit(c, listed) = ApplyListed(c, read)
    BY DEF BinanceInit
  <2>3. ASSUME NEW s \in listed PROVE MarketId(s, suffix(s)) # NoSymbol <=> s \in Known
    <3>1. s \in Held /\ s \in Tradable /\ s \in Symbols /\ s # NoSymbol
      BY <1>1, HeldFacts, TradableFacts
    <3>2. /\ account[2] = "linear" => ProductOf[s] \in {"usdt", "usdc"}
          /\ account[2] = "inverse" => ProductOf[s] = "inverse"
      BY <3>1, TradableFacts
    <3>3. suffix(s) = Suffix(ProductOf[s])
      BY <3>2, SuffixFacts
    <3>. HIDE DEF suffix
    <3>. QED BY <3>1, <3>3 DEF MarketId
  <2>4. read \subseteq listed \cap Known /\ \A s \in Held \cap Known : positions[s] # 0 =>
          s \in read
    <3>. HIDE DEF suffix
    <3>. QED BY <1>1, <2>3
  <2>. HIDE DEF read
  <2>. QED BY <1>3, <2>1, <2>2, <2>4
<1>6. CASE V = "okx"
  <2>. DEFINE read == {s \in listed : RawMarketId(s) # NoSymbol}
  <2>1. InitPositions(c, listed) = ApplyListed(c, read)
    BY <1>6 DEF InitPositions, OkxInit
  <2>2. read \subseteq listed \cap Known /\ \A s \in Held \cap Known : positions[s] # 0 =>
          s \in read
    BY <1>1, <1>2, <1>4, HeldFacts
  <2>. HIDE DEF read
  <2>. QED BY <1>3, <2>1, <2>2
<1>7. CASE V = "bybit"
  <2>1. InitPositions(c, listed) = ApplyListed(c, listed)
    BY <1>7 DEF InitPositions, BybitInit
  <2>2. listed \subseteq Known
    BY <1>7 DEF Refused
  <2>. QED BY <1>1, <1>3, <2>1, <2>2
<1>8. CASE V = "bitget"
  <2>. DEFINE read == {s \in listed : s \in Known /\ positions[s] # 0}
  <2>1. InitPositions(c, listed) = ApplyListed(c, read)
    BY <1>8 DEF InitPositions, BitgetInit
  <2>2. read \subseteq listed \cap Known /\ \A s \in Held \cap Known : positions[s] # 0 =>
          s \in read
    BY <1>1
  <2>. HIDE DEF read
  <2>. QED BY <1>3, <2>1, <2>2
<1>9. CASE V = "hyperliquid"
  <2>. DEFINE read == {s \in listed : RawMarketId(s) # NoSymbol /\ positions[s] # 0}
  <2>1. InitPositions(c, listed) = ApplyListed(c, read)
    BY <1>9 DEF InitPositions, HyperliquidInit
  <2>2. read \subseteq listed \cap Known /\ \A s \in Held \cap Known : positions[s] # 0 =>
          s \in read
    BY <1>1, <1>2, <1>4, HeldFacts
  <2>. HIDE DEF read
  <2>. QED BY <1>3, <2>1, <2>2
<1>. QED BY <1>5, <1>6, <1>7, <1>8, <1>9, AccountFacts

\* The total the model has of an asset is that of the invariant.
LEMMA TotalsAgree ==
  ASSUME NEW a
  PROVE  TotalOf(a) = Total(wallets, a)
BY DEF TotalOf, Total

\* The balances that are read at the start are those of the venue with the profit
\* that is read with them; Bitget reads none.
LEMMA BalancesRead ==
  ASSUME account \in Accounts, wallets \in Wealth, NEW profit \in [Assets -> Int]
  PROVE  LET r == InitBalances(EmptyCache, profit) IN
         /\ r \in Caches /\ DOMAIN r.positions = {}
         /\ V # "bitget" => /\ DOMAIN r.balances = Assets
                            /\ \A a \in Assets : TotalIn(r, a) = Total(wallets, a) + profit[a]
<1>. DEFINE told == [a \in Assets |-> Parsed([total |-> TotalOf(a) + profit[a],
                                              locked |-> LockedOf(a)])]
            r == ApplyBalances(EmptyCache, told)
<1>1. EmptyCache \in Caches /\ DOMAIN EmptyCache.positions = {} /\ DOMAIN EmptyCache.balances = {}
  BY NothingCached
<1>2. CASE V = "bitget"
  BY <1>1, <1>2 DEF InitBalances
<1>3. CASE V # "bitget"
  <2>1. InitBalances(EmptyCache, profit) = r
    BY <1>3 DEF InitBalances
  <2>2. ASSUME NEW a \in Assets
        PROVE  told[a] \in Purse /\ told[a].free + told[a].locked = Total(wallets, a) + profit[a]
    <3>1. TotalOf(a) \in Int /\ TotalOf(a) = Total(wallets, a)
      BY TotalFacts, TotalsAgree
    <3>2. LockedOf(a) \in Int
      BY DEF LockedOf, Wealth, Money, Wallets
    <3>. QED BY <3>1, <3>2 DEF Parsed, Purse
  <2>3. told \in Purses /\ DOMAIN told = Assets
    BY <2>2, PursesFacts
  <2>. HIDE DEF told
  <2>4. /\ r \in Caches /\ r.positions = EmptyCache.positions
        /\ DOMAIN r.balances = DOMAIN EmptyCache.balances \cup DOMAIN told
        /\ \A a \in DOMAIN r.balances :
              r.balances[a] = IF a \in DOMAIN told THEN told[a] ELSE EmptyCache.balances[a]
    BY <1>1, <2>3, BalancesApplied
  <2>. HIDE DEF r
  <2>. QED BY <1>1, <2>1, <2>2, <2>3, <2>4 DEF TotalIn
<1>. QED BY <1>2, <1>3

\* An OMS is built: balances and positions are read, or it refuses to start.
LEMMA BuildKeeps ==
  ASSUME AccountsTypeOK, AccountsInv, Build
  PROVE  (AccountsTypeOK /\ AccountsInv)'
<1>1. /\ stage = "down"
      /\ UNCHANGED <<account, positions, wallets, connected, keyExpired, wire>>
  BY DEF Build, venue, key
<1>2. PICK listed \in Listings, profit \in MarginProfits :
        /\ lost' = Unread \cup {a \in Assets : profit[a] # 0}
        /\ stage' = IF Refused(listed) THEN "refused" ELSE "built"
        /\ cache' = IF Refused(listed) THEN cache
                    ELSE InitPositions(InitBalances(cache, profit), listed)
  BY DEF Build, Listings
<1>3. /\ account \in Accounts /\ positions \in [Symbols -> Int] /\ wallets \in Wealth
      /\ wire \in Seq(Frames)
  BY DEF AccountsTypeOK
<1>4. ~ connected /\ cache = EmptyCache /\ wire = <<>>
  BY <1>1 DEF AccountsInv, StreamOK, Listening
<1>5. /\ positions' \in [Symbols -> Int] /\ wallets' \in Wealth /\ wire' \in Seq(Frames)
      /\ wire' = <<>> /\ ~ connected' /\ \A i \in DOMAIN wire' : GoodFrame(wire'[i])
  BY <1>1, <1>3, <1>4
<1>6. CASE Refused(listed)
  <2>1. stage' = "refused" /\ cache' = EmptyCache
    BY <1>2, <1>4, <1>6
  <2>2. cache' \in Caches /\ DOMAIN cache'.positions \subseteq Held \cap Known
    BY <2>1, NothingCached
  <2>. QED BY <1>1, <1>5, <2>1, <2>2, StepKeeps
<1>7. CASE ~ Refused(listed)
  <2>. DEFINE b == InitBalances(EmptyCache, profit)
              gain == {a \in Assets : profit[a] # 0}
              r == InitPositions(b, listed)
  <2>1. stage' = "built" /\ cache' = r /\ lost' = Unread \cup gain
    BY <1>2, <1>4, <1>7
  <2>11. profit \in [Assets -> Int] /\ (V = "hyperliquid" => profit["quote"] = 0)
    BY AccountFacts, AccountsAssumption DEF MarginProfits, ReadsMargin, V, Assets
  <2>2. /\ b \in Caches /\ DOMAIN b.positions = {}
        /\ V # "bitget" => /\ DOMAIN b.balances = Assets
                           /\ \A a \in Assets : TotalIn(b, a) = Total(wallets, a) + profit[a]
    BY <1>3, <2>11, BalancesRead
  <2>. HIDE DEF b
  <2>3. /\ r \in Caches /\ r.balances = b.balances /\ DOMAIN r.positions \subseteq Held \cap Known
        /\ \A s \in Held \cap Known : HeldIn(r, s) = positions[s] * Unit(s)
    BY <1>3, <1>7, <2>2, PositionsRead
  <2>. HIDE DEF r
  <2>4. V = "bitget" => Assets \subseteq Unread
    BY DEF Unread
  <2>5. V # "bitget" => /\ DOMAIN r.balances = Assets
                        /\ \A a \in Assets : TotalIn(r, a) = Total(wallets, a) + profit[a]
    BY <2>2, <2>3 DEF TotalIn
  <2>6. PositionsComing(positions, <<>>, r, Unread \cup gain)
    BY <2>3, NoFrames DEF PositionsComing, SymbolComes
  <2>7. BalancesComing(wallets, <<>>, r, Unread \cup gain)
    <3>1. ASSUME NEW a \in Assets, a \notin Unread \cup gain, V # "bitget"
          PROVE  TotalIn(r, a) = Total(wallets, a)
      <4>1. profit[a] = 0 /\ Total(wallets, a) \in Int
        BY <1>3, <3>1, TotalFacts DEF Assets
      <4>. QED BY <2>5, <3>1, <4>1
    <3>. HIDE DEF gain
    <3>. QED BY <2>4, <2>5, <3>1, NoFrames DEF BalancesComing, AssetComes
  <2>8. QuoteComing(wallets, <<>>, r, Unread \cup gain)
    <3>1. ASSUME V = "hyperliquid" PROVE QuoteComes(<<>>, r, Total(wallets, "quote"))
      <4>. DEFINE x == Total(wallets, "quote")
                  t == [i \in 0 .. 0 |-> x]
      <4>1. x \in Int /\ TotalIn(r, "quote") = x
        BY <1>3, <2>5, <2>11, <3>1, TotalFacts DEF Assets
      <4>. HIDE DEF x
      <4>2. t \in [0 .. 0 -> Int] /\ t[0] = x
        BY <4>1
      <4>3. Len(<<>>) = 0 /\ 1 .. 0 = {}
        OBVIOUS
      <4>4. QuoteComes(<<>>, r, x)
        BY <4>1, <4>2, <4>3 DEF QuoteComes
      <4>. QED BY <4>4 DEF x
    <3>. QED BY <3>1 DEF QuoteComing
  <2>9. /\ PositionsComing(positions', wire', cache', lost')
        /\ BalancesComing(wallets', wire', cache', lost')
        /\ QuoteComing(wallets', wire', cache', lost')
    BY <1>1, <1>4, <2>1, <2>6, <2>7, <2>8
  <2>10. /\ cache' \in Caches /\ DOMAIN cache'.positions \subseteq Held \cap Known
         /\ V = "hyperliquid" => DOMAIN cache'.balances = Assets
    BY <2>1, <2>3, <2>5
  <2>. QED BY <1>1, <1>5, <2>1, <2>9, <2>10, StepKeeps
<1>. QED BY <1>6, <1>7

-----------------------------------------------------------------------------
(* The theorems.                                                            *)

\* At the start nothing is built.
LEMMA InitKeeps == Init => AccountsTypeOK /\ AccountsInv
<1>. SUFFICES ASSUME Init PROVE AccountsTypeOK /\ AccountsInv
  OBVIOUS
<1>1. AccountsTypeOK
  <2>1. account \in Accounts /\ wire \in Seq(Frames) /\ cache \in Caches
    BY NothingCached DEF Init
  <2>2. positions \in [Symbols -> Int]
    BY AccountsAssumption DEF Init
  <2>3. wallets \in Wealth
    <3>1. [total |-> 2, locked |-> 1] \in Money
      BY DEF Money
    <3>. QED BY <3>1 DEF Init, Wealth
  <2>. QED BY <2>1, <2>2, <2>3 DEF AccountsTypeOK
<1>2. AccountsInv
  BY NothingCached DEF Init, AccountsInv, StreamOK
<1>. QED BY <1>1, <1>2

\* Every step keeps the invariant.
LEMMA NextKeeps ==
  AccountsTypeOK /\ AccountsInv /\ [Next]_vars => (AccountsTypeOK /\ AccountsInv)'
<1>. SUFFICES ASSUME AccountsTypeOK, AccountsInv, [Next]_vars
              PROVE  (AccountsTypeOK /\ AccountsInv)'
  OBVIOUS
<1>1. CASE Build
  BY <1>1, BuildKeeps
<1>2. CASE Trade
  BY <1>2, TradeKeeps
<1>3. CASE Transfer
  BY <1>3, TransferKeeps
<1>4. CASE Handle
  BY <1>4, HandleKeeps
<1>5. CASE Connect
  BY <1>5, ConnectKeeps
<1>6. CASE Disconnect
  BY <1>6, DisconnectKeeps
<1>7. CASE KeepAlive
  BY <1>7, KeepAliveKeeps
<1>8. CASE KeyExpires
  BY <1>8, KeyExpiresKeeps
<1>9. CASE Restart
  BY <1>9, RestartKeeps
<1>10. CASE UNCHANGED vars
  <2>1. UNCHANGED <<account, positions, wallets, stage, wire, cache, lost, connected, keyExpired>>
    BY <1>10 DEF vars, venue, key
  <2>2. Listening' \/ wire = <<>>
    BY <2>1 DEF AccountsInv, StreamOK, Listening
  <2>3. stage # "built" => ~ connected'
    BY <2>1 DEF AccountsInv, StreamOK
  <2>. QED BY <2>1, <2>2, <2>3, QuietStep
<1>. QED BY <1>1, <1>2, <1>3, <1>4, <1>5, <1>6, <1>7, <1>8, <1>9, <1>10 DEF Next

\* Whatever the account, what the venue has of every position and asset is in the
\* cache, on its way, or known to be lost.
THEOREM AccountsInvariance == Spec => [](AccountsTypeOK /\ AccountsInv)
<1>. QED BY InitKeeps, NextKeeps, PTL DEF Spec

\* Account, positions, wallets, cache and frames have values the OMS and the venue can
\* give them.
THEOREM AccountsTypeCorrect == Spec => []AccountsTypeOK
<1>. QED BY AccountsInvariance, PTL

\* Once every frame is handled, the cache has the positions of the venue, in its own
\* units and under its own symbols, and no other, but for those whose last change was
\* lost with the stream or could not be read.
THEOREM PositionsAreTheVenues == Spec => []PositionsFollowVenue
<1>1. AccountsTypeOK /\ AccountsInv => PositionsFollowVenue
  <2>. SUFFICES ASSUME AccountsTypeOK, AccountsInv, stage = "built", wire = <<>>
                PROVE  /\ \A s \in (Held \cap Known) \ lost : Cached(s) = positions[s] * Unit(s)
                       /\ DOMAIN cache.positions \subseteq Held \cap Known
    BY DEF PositionsFollowVenue
  <2>1. \A s \in Held \cap Known : SymbolComes(<<>>, cache, lost, s, positions[s] * Unit(s))
    BY DEF AccountsInv, PositionsComing
  <2>2. \A s \in (Held \cap Known) \ lost : HeldIn(cache, s) = positions[s] * Unit(s)
    BY <2>1, NoFrames DEF SymbolComes
  <2>3. \A s : Cached(s) = HeldIn(cache, s)
    BY DEF Cached, HeldIn
  <2>. QED BY <2>2, <2>3 DEF AccountsInv, StreamOK
<1>. QED BY <1>1, AccountsInvariance, PTL

\* Once every frame is handled, the cache has the balances of the venue, but for those
\* whose last change was lost, or never read.
THEOREM BalancesAreTheVenues == Spec => []BalancesFollowVenue
<1>1. AccountsTypeOK /\ AccountsInv => BalancesFollowVenue
  <2>. SUFFICES ASSUME AccountsTypeOK, AccountsInv, stage = "built", wire = <<>>,
                       NEW a \in Assets, a \notin lost
                PROVE  CachedTotal(a) = TotalOf(a)
    BY DEF BalancesFollowVenue
  <2>1. CachedTotal(a) = TotalIn(cache, a) /\ TotalOf(a) = Total(wallets, a)
    BY TotalsAgree DEF CachedTotal, TotalIn
  <2>2. CASE V = "hyperliquid" => a = "base"
    <3>1. AssetComes(<<>>, cache, lost, a, Total(wallets, a))
      BY <2>2 DEF AccountsInv, BalancesComing
    <3>. QED BY <2>1, <3>1, NoFrames DEF AssetComes
  <2>3. CASE V = "hyperliquid" /\ a = "quote"
    <3>1. QuoteComes(<<>>, cache, Total(wallets, "quote"))
      BY <2>3 DEF AccountsInv, QuoteComing
    <3>2. Len(<<>>) = 0
      OBVIOUS
    <3>. QED BY <2>1, <2>3, <3>1, <3>2 DEF QuoteComes
  <2>. QED BY <2>2, <2>3 DEF Assets
<1>. QED BY <1>1, AccountsInvariance, PTL

=============================================================================
