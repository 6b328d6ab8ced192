----------------------------- MODULE FeedsProofs -----------------------------
(***************************************************************************)
(* Proofs about the market data, for every choice of accounts, symbols and *)
(* feeds and any number of requests.                                       *)
(***************************************************************************)
EXTENDS Feeds, FoldLemmas, FiniteSetTheorems

-----------------------------------------------------------------------------
(* Types.                                                                   *)

Kinds == {"trade", "bookl1", "bookl2", "kline"} \cup Prices
AllWords == BinanceWords \cup OkxWords \cup BybitWords \cup BitgetWords \cup HyperliquidWords
Details == {"none"} \cup {p[1] : p \in AllWords}

\* The events of the venues, and those the strategy is sent.
Events == {e \in [data : Kinds, detail : Details] : e.data # "kline" => e.detail = "none"}
VolumeKline == Feed("kline", "volume")
Published == Events \cup {VolumeKline}

Keys == {<<d, x>> : d \in Kinds, x \in Details} \cup {<<"symbol", s>> : s \in Symbols}
Gates ==
  [key : Keys, heard : UNION {[S -> BOOLEAN] : S \in SUBSET Symbols},
   open : BOOLEAN, started : BOOLEAN, late : BOOLEAN]
Books == [Sides -> SUBSET BookPrices]

RequestsOK ==
  /\ account \in Accounts /\ menu \in Menus
  /\ subscribes \in Seq(Symbols \X menu) /\ unsubscribes \in Seq(Symbols \X menu)
  /\ aggregators \in [Symbols -> Seq(menu)]
  /\ asked \subseteq Symbols \X menu
  /\ tracked \in BOOLEAN
  /\ \A st \in topics : st[1] \in Symbols /\ st = <<st[1], st[2]>>

\* The strategy is sent whatever the cache has; a gate that has heard of a
\* symbol has heard an event of it; a gate made shut opens when all is heard
\* or its time has run out.
CachedIn(c, s, key) == \E e \in Published : <<s, e>> \in c /\ GateOf(s, e) = key

GateSound(g, c) ==
  /\ g \in Gates
  /\ tracked /\ g.open => AllHeard(g) \/ g.late
  /\ \A s \in DOMAIN g.heard : g.heard[s] => CachedIn(c, s, g.key)

GatesOK == gates \in Seq(Gates) /\ \A i \in DOMAIN gates : GateSound(gates[i], cached)

\* Every request handled has its symbol at its gate, but the later symbols of
\* the trades.
Admitted(s, f) ==
  \E i \in DOMAIN gates : gates[i].key = GateOf(s, Event(f)) /\ s \in DOMAIN gates[i].heard

AskedAreAdmitted ==
  subscriberAlive => \A r \in asked \ ToSet(subscribes) : r[2] = Trades \/ Admitted(r[1], r[2])

GatesInv == RequestsOK /\ GatesOK /\ AskedAreAdmitted

\* What the venue has and what the connector made of it.
BookOK ==
  book \in [venue : Books, local : Books, synced : BOOLEAN, leftover : BOOLEAN]

-----------------------------------------------------------------------------
(* The types.                                                               *)

LEMMA ElementOf ==
  ASSUME NEW S, NEW q \in Seq(S), NEW i \in DOMAIN q
  PROVE  q[i] \in S /\ q[i] \in ToSet(q)
BY DEF ToSet

\* A message is taken from the front of a queue.
LEMMA HeadOf ==
  ASSUME NEW S, NEW q \in Seq(S), q # <<>>
  PROVE  /\ Head(q) \in S /\ Tail(q) \in Seq(S)
         /\ ToSet(q) = {Head(q)} \cup ToSet(Tail(q))
<1>1. Head(q) \in S /\ Tail(q) \in Seq(S) /\ Len(q) \in Nat /\ Len(q) > 0
  OBVIOUS
<1>2. /\ Head(q) = q[1] /\ DOMAIN q = 1 .. Len(q) /\ DOMAIN Tail(q) = 1 .. (Len(q) - 1)
      /\ \A i \in 1 .. (Len(q) - 1) : Tail(q)[i] = q[i + 1]
  BY <1>1
<1>3. ASSUME NEW x \in ToSet(q) PROVE x = Head(q) \/ x \in ToSet(Tail(q))
  <2>1. PICK i \in 1 .. Len(q) : q[i] = x
    BY <1>2, <1>3 DEF ToSet
  <2>2. CASE i = 1
    BY <1>2, <2>1, <2>2
  <2>3. CASE i # 1
    <3>1. i - 1 \in 1 .. (Len(q) - 1) /\ Tail(q)[i - 1] = q[(i - 1) + 1] /\ (i - 1) + 1 = i
      BY <1>1, <1>2, <2>1, <2>3
    <3>. QED BY <1>2, <2>1, <3>1 DEF ToSet
  <2>. QED BY <2>2, <2>3
<1>4. ASSUME NEW x \in ToSet(Tail(q)) PROVE x \in ToSet(q)
  <2>1. PICK i \in 1 .. (Len(q) - 1) : Tail(q)[i] = x
    BY <1>2 DEF ToSet
  <2>2. i + 1 \in 1 .. Len(q) /\ q[i + 1] = x
    BY <1>1, <1>2, <2>1
  <2>. QED BY <1>2, <2>2 DEF ToSet
<1>5. Head(q) \in ToSet(q)
  BY <1>1, <1>2 DEF ToSet
<1>. QED BY <1>1, <1>3, <1>4, <1>5

\* A message is put at the end of a queue.
LEMMA AppendTo ==
  ASSUME NEW S, NEW q \in Seq(S), NEW x \in S
  PROVE  /\ Append(q, x) \in Seq(S) /\ Len(Append(q, x)) = Len(q) + 1
         /\ ToSet(Append(q, x)) = ToSet(q) \cup {x}
<1>1. /\ Append(q, x) \in Seq(S) /\ Len(q) \in Nat /\ Len(Append(q, x)) = Len(q) + 1
      /\ DOMAIN q = 1 .. Len(q) /\ DOMAIN Append(q, x) = 1 .. (Len(q) + 1)
      /\ \A i \in 1 .. Len(q) : Append(q, x)[i] = q[i]
      /\ Append(q, x)[Len(q) + 1] = x
  OBVIOUS
<1>2. ASSUME NEW y \in ToSet(Append(q, x)) PROVE y \in ToSet(q) \cup {x}
  <2>1. PICK i \in 1 .. (Len(q) + 1) : Append(q, x)[i] = y
    BY <1>1, <1>2 DEF ToSet
  <2>2. i \in 1 .. Len(q) \/ i = Len(q) + 1
    BY <1>1
  <2>. QED BY <1>1, <2>1, <2>2 DEF ToSet
<1>3. ASSUME NEW y \in ToSet(q) PROVE y \in ToSet(Append(q, x))
  <2>1. PICK i \in 1 .. Len(q) : q[i] = y
    BY <1>1 DEF ToSet
  <2>2. i \in 1 .. (Len(q) + 1)
    BY <1>1
  <2>. QED BY <1>1, <2>1, <2>2 DEF ToSet
<1>4. x \in ToSet(Append(q, x))
  <2>1. Len(q) + 1 \in 1 .. (Len(q) + 1)
    BY <1>1
  <2>. QED BY <1>1, <2>1 DEF ToSet
<1>. QED BY <1>1, <1>2, <1>3, <1>4

\* A function on 1 .. n is a sequence.
LEMMA SequenceOf ==
  ASSUME NEW S, NEW n \in Nat, NEW q \in [1 .. n -> S]
  PROVE  q \in Seq(S) /\ Len(q) = n
OBVIOUS

\* Without a request: what is left, in a sequence no longer than it was.
LEMMA WithoutFacts ==
  ASSUME NEW S, NEW list \in Seq(S), NEW f
  PROVE  /\ Without(list, f) \in Seq(S) /\ Len(Without(list, f)) <= Len(list)
         /\ ToSet(Without(list, f)) = ToSet(list) \ {f}
<1>. DEFINE n == Len(list)
            Next1(kept, a) == IF a = f THEN kept ELSE Append(kept, a)
            IsFold(g) == g = [s \in SUBSET DOMAIN list |->
                                IF s = {} THEN <<>>
                                ELSE IF list[Max(s)] = f THEN g[s \ {Max(s)}]
                                     ELSE Append(g[s \ {Max(s)}], list[Max(s)])]
            h == CHOOSE g : IsFold(g)
            step == [p \in Seq(S) \X (1 .. n) |-> Next1(p[1], list[p[2]])]
<1>1. n \in Nat /\ DOMAIN list = 1 .. n /\ \A i \in 1 .. n : list[i] \in S
  OBVIOUS
<1>2. Without(list, f) = h[DOMAIN list]
  BY DEF Without, FoldLeft, MapThenFoldSet
<1>. HIDE DEF n
<1>3. step \in [Seq(S) \X (1 .. n) -> Seq(S)]
  <2>1. ASSUME NEW kept \in Seq(S), NEW i \in 1 .. n PROVE Next1(kept, list[i]) \in Seq(S)
    BY <1>1
  <2>. HIDE DEF Next1
  <2>. QED BY <2>1
<1>4. \A q \in Seq(S), i \in 1 .. n : step[<<q, i>>] = Next1(q, list[i])
  OBVIOUS
<1>5. <<>> \in Seq(S)
  OBVIOUS
<1>6. \E g : IsFold(g)
  <2>. HIDE DEF step
  <2>1. PICK g \in [SUBSET (1 .. n) -> Seq(S)] : IsMaxRecursion(g, n, <<>>, step)
    BY <1>1, <1>3, <1>5, MaxRecursion, Zenon
  <2>2. ASSUME NEW s \in SUBSET (1 .. n)
        PROVE  g[s] = IF s = {} THEN <<>> ELSE Next1(g[s \ {Max(s)}], list[Max(s)])
    <3>1. CASE s = {}
      BY <2>1, <3>1 DEF IsMaxRecursion
    <3>2. CASE s # {}
      <4>1. Max(s) \in s
        BY <1>1, <3>2, MaxFacts
      <4>2. Max(s) \in 1 .. n /\ g[s \ {Max(s)}] \in Seq(S)
        BY <2>1, <4>1
      <4>3. g[s] = step[<<g[s \ {Max(s)}], Max(s)>>]
        BY <2>1, <3>2 DEF IsMaxRecursion
      <4>. HIDE DEF Next1
      <4>. QED BY <1>4, <3>2, <4>2, <4>3
    <3>. QED BY <3>1, <3>2
  <2>3. IsFold(g)
    BY <1>1, <2>1, <2>2
  <2>. HIDE DEF IsFold
  <2>. QED BY <2>3
<1>7. IsFold(h)
  <2>. HIDE DEF IsFold
  <2>. QED BY <1>6
<1>. HIDE DEF h, step
<1>8. h[1 .. 0] = <<>>
  <2>1. 1 .. 0 = {} /\ 1 .. 0 \in SUBSET (1 .. n)
    BY <1>1
  <2>. QED BY <1>1, <1>7, <2>1
<1>9. ASSUME NEW i \in 1 .. n PROVE h[1 .. i] = Next1(h[1 .. (i - 1)], list[i])
  <2>1. Max(1 .. i) = i /\ (1 .. i) \ {i} = 1 .. (i - 1)
    BY <1>1, MaxOfInterval
  <2>2. 1 .. i \in SUBSET (1 .. n) /\ 1 .. i # {}
    <3>1. i \in Nat /\ i <= n /\ i \in 1 .. i
      BY <1>1
    <3>. QED BY <1>1, <3>1
  <2>3. h[1 .. i] = Next1(h[(1 .. i) \ {Max(1 .. i)}], list[Max(1 .. i)])
    BY <1>1, <1>7, <2>2
  <2>. QED BY <2>1, <2>3
<1>. HIDE DEF IsFold
<1>. DEFINE Holds(i) == /\ h[1 .. i] \in Seq(S) /\ Len(h[1 .. i]) <= i
                        /\ ToSet(h[1 .. i]) = {list[j] : j \in 1 .. i} \ {f}
            Done == {i \in Nat : i <= n => Holds(i)}
<1>10. Holds(0)
  BY <1>5, <1>8 DEF ToSet
<1>11. ASSUME NEW i \in Nat, i + 1 <= n, Holds(i) PROVE Holds(i + 1)
  <2>. DEFINE kept == h[1 .. i]
  <2>1. i + 1 \in 1 .. n /\ (i + 1) - 1 = i /\ list[i + 1] \in S
    BY <1>1, <1>11
  <2>2. h[1 .. (i + 1)] = Next1(kept, list[i + 1])
    BY <1>9, <2>1
  <2>3. kept \in Seq(S) /\ Len(kept) <= i /\ ToSet(kept) = {list[j] : j \in 1 .. i} \ {f}
    BY <1>11
  <2>4. {list[j] : j \in 1 .. (i + 1)} = {list[j] : j \in 1 .. i} \cup {list[i + 1]}
    OBVIOUS
  <2>. HIDE DEF kept
  <2>5. CASE list[i + 1] = f
    BY <2>2, <2>3, <2>4, <2>5
  <2>6. CASE list[i + 1] # f
    <3>1. /\ Append(kept, list[i + 1]) \in Seq(S) /\ Len(Append(kept, list[i + 1])) = Len(kept) + 1
          /\ ToSet(Append(kept, list[i + 1])) = ToSet(kept) \cup {list[i + 1]}
      BY <2>1, <2>3, AppendTo
    <3>2. Len(kept) \in Nat
      BY <2>3
    <3>. QED BY <2>2, <2>3, <2>4, <2>6, <3>1, <3>2
  <2>. QED BY <2>5, <2>6
<1>12. n \in Done
  <2>1. 0 \in Done /\ \A i \in Nat : i \in Done => i + 1 \in Done
    <3>. HIDE DEF Holds
    <3>. QED BY <1>1, <1>10, <1>11
  <2>. HIDE DEF Done
  <2>. QED BY <1>1, <2>1, NatSetInduction
<1>13. Holds(n)
  <2>. HIDE DEF Holds
  <2>. QED BY <1>1, <1>12
<1>. QED BY <1>1, <1>2, <1>13 DEF ToSet, n

-----------------------------------------------------------------------------
(* The tables of a venue: the topics asked for and the events of a message  *)
(* agree, but for the feeds no message serves.                              *)

Fit(S, E, silent) ==
  /\ \A x, y \in S : x[1] = y[1] => x[2] = y[2]
  /\ \E x \in S : x[1] = Trades
  /\ \A y \in E : y[2] \in Seq(Events)
  /\ \A x \in S, y \in E : y[1] = x[2] =>
       /\ Event(x[1]) \in ToSet(y[2])
       /\ \A e \in ToSet(y[2]) : e.data = "kline" => e = x[1]
  /\ \A x \in S : x[1] \in silent \/ \E y \in E : y[1] = x[2]

OneToOne(words) ==
  \A p, q \in words : p = <<p[1], p[2]>> /\ (p[1] = q[1] <=> p[2] = q[2])

\* What a venue calls by different words is told apart again.
LEMMA ParsedBack ==
  ASSUME NEW words, OneToOne(words), NEW p \in words
  PROVE  Parsed(words, p[2]) = p[1]
BY DEF Parsed, OneToOne

\* A pair of a composition goes by way of something.
LEMMA Composed ==
  ASSUME NEW R, NEW S, NEW x \in Compose(R, S)
  PROVE  \E r \in R, s \in S : r[2] = s[1] /\ x = <<r[1], s[2]>>
BY DEF Compose

\* Two pairs that meet compose.
LEMMA InCompose ==
  ASSUME NEW R, NEW S, NEW a, NEW b, NEW c, <<a, b>> \in R, <<b, c>> \in S
  PROVE  <<a, c>> \in Compose(R, S)
<1>. DEFINE p == << <<a, b>>, <<b, c>> >>
<1>1. p \in R \X S /\ p[1][1] = a /\ p[1][2] = b /\ p[2][1] = b /\ p[2][2] = c
  OBVIOUS
<1>. HIDE DEF p
<1>. QED BY <1>1 DEF Compose

\* A row of a table is found by its key.
LEMMA RowOf ==
  ASSUME NEW T, NEW a, NEW b, <<a, b>> \in T
  PROVE  \E x \in T : x[1] = a
<1>. DEFINE x == <<a, b>>
<1>1. x \in T /\ x[1] = a
  OBVIOUS
<1>. HIDE DEF x
<1>. QED BY <1>1

\* Every kind of feed has its event, and klines one for each interval.
LEMMA PlainEvents ==
  /\ \A d \in Kinds \ {"kline"} : Plain(d) \in Events
  /\ \A p \in AllWords : Feed("kline", p[1]) \in Events
BY DEF Events, Details, Kinds, Plain, Feed, AllWords

\* The event of a price feed is the feed itself.
LEMMA PriceFacts ==
  ASSUME NEW p \in Prices
  PROVE  Event(Plain(p)) = Plain(p) /\ Plain(p).data = p /\ Plain(p) \in Events
BY DEF Event, Plain, Feed, Prices, Events, Kinds, Details

\* A message of one event, and one of three that are not klines.
LEMMA OneFits ==
  ASSUME NEW e, NEW f, NEW q, q = <<e>>, e.data = "kline" => e = f
  PROVE  e \in ToSet(q) /\ \A g \in ToSet(q) : g.data = "kline" => g = f
<1>1. ToSet(<<e>>) = {e}
  BY DEF ToSet
<1>. QED BY <1>1

\* The three events of one message, none of which is a kline.
LEMMA ThreeFits ==
  ASSUME NEW e, NEW f, NEW g, NEW q, q = <<e, f, g>>, NEW h \in {e, f, g},
         e.data # "kline", f.data # "kline", g.data # "kline", NEW i
  PROVE  h \in ToSet(q) /\ \A j \in ToSet(q) : j.data = "kline" => j = i
<1>1. ToSet(<<e, f, g>>) = {e, f, g}
  BY DEF ToSet
<1>. QED BY <1>1

\* The tables of OKX fit together, but no message brings an index price.
LEMMA OkxFits == Fit(Compose(OkxSubscribes, OkxChannels), OkxEvents, {Plain("index_price")})
<1>. DEFINE S == Compose(OkxSubscribes, OkxChannels)
            E == OkxEvents
            Row(x) ==
              \/ x = <<Plain("trade"), <<"trades">>>> \/ x = <<Plain("bookl1"), <<"bbo-tbt">>>>
              \/ x = <<Feed("bookl2", "5"), <<"books5">>>>
              \/ x = <<Plain("funding_rate"), <<"funding-rate">>>>
              \/ x = <<Plain("index_price"), <<"index-tickers">>>>
              \/ x = <<Plain("mark_price"), <<"mark-price">>>>
              \/ \E p \in OkxWords : x = <<Feed("kline", p[1]), <<p[2]>>>>
            Says(y) ==
              \/ y = <<<<"trades">>, <<Plain("trade")>>>> \/ y = <<<<"bbo-tbt">>, <<Plain("bookl1")>>>>
              \/ y = <<<<"books5">>, <<Plain("bookl2")>>>>
              \/ y = <<<<"funding-rate">>, <<Plain("funding_rate")>>>>
              \/ y = <<<<"index-ticker">>, <<Plain("index_price")>>>>
              \/ y = <<<<"mark-price">>, <<Plain("mark_price")>>>>
              \/ \E p \in OkxWords : y = <<<<p[2]>>, <<Feed("kline", p[1])>>>>
<1>1. OneToOne(OkxWords)
  BY DEF OneToOne, OkxWords
<1>2. \A p \in OkxWords : p[2] \notin {"trades", "bbo-tbt", "books5", "funding-rate",
                                       "index-tickers", "index-ticker", "mark-price"}
  BY DEF OkxWords
<1>3. ASSUME NEW x \in S PROVE Row(x)
  <2>1. PICK r \in OkxSubscribes, s \in OkxChannels : r[2] = s[1] /\ x = <<r[1], s[2]>>
    BY Composed
  <2>2. \/ r = <<Plain("trade"), <<"trade">>>> \/ r = <<Plain("bookl1"), <<"order_book", "bbo-tbt">>>>
        \/ r = <<Feed("bookl2", "5"), <<"order_book", "books5">>>>
        \/ r = <<Plain("funding_rate"), <<"funding_rate">>>>
        \/ r = <<Plain("index_price"), <<"index_price">>>>
        \/ r = <<Plain("mark_price"), <<"mark_price">>>>
        \/ \E p \in OkxWords : r = <<Feed("kline", p[1]), <<"candlesticks", p[2]>>>>
    BY DEF OkxSubscribes, Prices
  <2>3. \/ s = <<<<"trade">>, <<"trades">>>> \/ s = <<<<"funding_rate">>, <<"funding-rate">>>>
        \/ s = <<<<"index_price">>, <<"index-tickers">>>> \/ s = <<<<"mark_price">>, <<"mark-price">>>>
        \/ s = <<<<"order_book", "bbo-tbt">>, <<"bbo-tbt">>>> \/ s = <<<<"order_book", "books5">>, <<"books5">>>>
        \/ \E p \in OkxWords : s = <<<<"candlesticks", p[2]>>, <<p[2]>>>>
    BY DEF OkxChannels
  <2>. QED BY <2>1, <2>2, <2>3
<1>4. ASSUME NEW y \in E PROVE Says(y)
  <2>1. ASSUME NEW p \in OkxWords, y = <<<<p[2]>>, <<Feed("kline", Parsed(OkxWords, p[2]))>>>>
        PROVE  Says(y)
    BY <1>1, <2>1, ParsedBack
  <2>. QED BY <2>1 DEF OkxEvents, OkxPriceEvents
<1>. HIDE DEF S, E
<1>5. ASSUME NEW x \in S, NEW y \in S, x[1] = y[1] PROVE x[2] = y[2]
  BY <1>1, <1>3, <1>5 DEF Feed, Plain, OneToOne
<1>6. \E x \in S : x[1] = Trades
  <2>. DEFINE x == <<Plain("trade"), <<"trades">>>>
  <2>1. x \in S
    BY InCompose DEF S, OkxSubscribes, OkxChannels
  <2>2. x[1] = Trades
    BY DEF Trades
  <2>. HIDE DEF x
  <2>. QED BY <2>1, <2>2
<1>7. ASSUME NEW y \in E PROVE y[2] \in Seq(Events)
  <2>1. \E e \in Events : y[2] = <<e>>
    BY <1>4, PlainEvents DEF Kinds, Prices, AllWords
  <2>. QED BY <2>1
<1>8. ASSUME NEW x \in S, NEW y \in E, y[1] = x[2]
      PROVE  y[2] = <<Event(x[1])>> /\ (Event(x[1]).data = "kline" => Event(x[1]) = x[1])
  BY <1>1, <1>2, <1>3, <1>4, <1>8 DEF Event, Feed, Plain, OneToOne
<1>9. ASSUME NEW x \in S, x[1] # Plain("index_price") PROVE \E y \in E : y[1] = x[2]
  <2>1. \E es : <<x[2], es>> \in E
    <3>1. CASE \E p \in OkxWords : x = <<Feed("kline", p[1]), <<p[2]>>>>
      <4>1. PICK p \in OkxWords : x = <<Feed("kline", p[1]), <<p[2]>>>>
        BY <3>1
      <4>. DEFINE es == <<Feed("kline", Parsed(OkxWords, p[2]))>>
      <4>2. <<<<p[2]>>, es>> \in E /\ x[2] = <<p[2]>>
        BY <4>1 DEF E, OkxEvents
      <4>. HIDE DEF es
      <4>. QED BY <4>2
    <3>2. {<<<<"trades">>, <<Plain("trade")>>>>, <<<<"bbo-tbt">>, <<Plain("bookl1")>>>>,
                <<<<"books5">>, <<Plain("bookl2")>>>>, 
                <<<<"mark-price">>, <<Plain("mark_price")>>>>,
                <<<<"funding-rate">>, <<Plain("funding_rate")>>>>} \subseteq E
      BY DEF E, OkxEvents, OkxPriceEvents
    <3>3. CASE x = <<Plain("trade"), <<"trades">>>> 
      BY <3>2, <3>3
    <3>4. CASE x = <<Plain("bookl1"), <<"bbo-tbt">>>>
      BY <3>2, <3>4
    <3>5. CASE x = <<Feed("bookl2", "5"), <<"books5">>>>
      BY <3>2, <3>5
    <3>6. CASE x = <<Plain("funding_rate"), <<"funding-rate">>>>
      BY <3>2, <3>6
    <3>7. CASE x = <<Plain("mark_price"), <<"mark-price">>>>
      BY <3>2, <3>7
    <3>8. x # <<Plain("index_price"), <<"index-tickers">>>>
      BY <1>9
    <3>9. Row(x)
      BY <1>3
    <3>. QED BY <3>8, <3>9, <3>1, <3>3, <3>4, <3>5, <3>6, <3>7
  <2>. QED BY <2>1, RowOf
<1>. QED
  <2>1. ASSUME NEW x \in S, NEW y \in E, y[1] = x[2]
        PROVE  /\ Event(x[1]) \in ToSet(y[2])
               /\ \A e \in ToSet(y[2]) : e.data = "kline" => e = x[1]
    BY <1>8, <2>1, OneFits
  <2>. QED BY <1>5, <1>6, <1>7, <1>9, <2>1 DEF Fit, S, E

\* The tables of Bitget fit together.
LEMMA BitgetFits == Fit(Compose(BitgetSubscribes, BitgetTopics), BitgetEvents, {})
<1>. DEFINE S == Compose(BitgetSubscribes, BitgetTopics)
            E == BitgetEvents
            Row(x) ==
              \/ x = <<Plain("trade"), <<"publicTrade">>>> \/ x = <<Plain("bookl1"), <<"books1">>>>
              \/ \E p \in BitgetWords : x = <<Feed("kline", p[1]), <<"kline", p[2]>>>>
            Says(y) ==
              \/ y = <<<<"publicTrade">>, <<Plain("trade")>>>> \/ y = <<<<"books1">>, <<Plain("bookl1")>>>>
              \/ \E p \in BitgetWords : y = <<<<"kline", p[2]>>, <<Feed("kline", p[1])>>>>
<1>1. OneToOne(BitgetWords)
  BY DEF OneToOne, BitgetWords, Words
<1>2. ASSUME NEW x \in S PROVE Row(x)
  <2>1. PICK r \in BitgetSubscribes, s \in BitgetTopics : r[2] = s[1] /\ x = <<r[1], s[2]>>
    BY Composed
  <2>2. \/ r = <<Plain("trade"), <<"trades_v3">>>> \/ r = <<Plain("bookl1"), <<"depth_v3", "books1">>>>
        \/ \E p \in BitgetWords : r = <<Feed("kline", p[1]), <<"candlestick_v3", p[2]>>>>
    BY DEF BitgetSubscribes
  <2>3. \/ s = <<<<"trades_v3">>, <<"publicTrade">>>> \/ s = <<<<"depth_v3", "books1">>, <<"books1">>>>
        \/ \E p \in BitgetWords : s = <<<<"candlestick_v3", p[2]>>, <<"kline", p[2]>>>>
    BY DEF BitgetTopics
  <2>. QED BY <2>1, <2>2, <2>3
<1>3. ASSUME NEW y \in E PROVE Says(y)
  <2>1. ASSUME NEW p \in BitgetWords, y = <<<<"kline", p[2]>>, <<Feed("kline", Parsed(BitgetWords, p[2]))>>>>
        PROVE  Says(y)
    BY <1>1, <2>1, ParsedBack
  <2>. QED BY <2>1 DEF BitgetEvents
<1>4. {<<<<"publicTrade">>, <<Plain("trade")>>>>, <<<<"books1">>, <<Plain("bookl1")>>>>} \subseteq E
  BY DEF BitgetEvents
<1>5. ASSUME NEW p \in BitgetWords PROVE \E es : <<<<"kline", p[2]>>, es>> \in E
  <2>. DEFINE es == <<Feed("kline", Parsed(BitgetWords, p[2]))>>
  <2>1. <<<<"kline", p[2]>>, es>> \in E
    BY DEF E, BitgetEvents
  <2>. HIDE DEF es
  <2>. QED BY <2>1
<1>6. <<Trades, <<"publicTrade">>>> \in S
  BY InCompose DEF S, BitgetSubscribes, BitgetTopics, Trades
<1>. HIDE DEF S, E
<1>7. ASSUME NEW x \in S, NEW y \in S, x[1] = y[1] PROVE x[2] = y[2]
  BY <1>1, <1>2, <1>7 DEF Feed, Plain, OneToOne
<1>8. ASSUME NEW y \in E PROVE y[2] \in Seq(Events)
  <2>1. \E e \in Events : y[2] = <<e>>
    BY <1>3, PlainEvents DEF Kinds, AllWords
  <2>. QED BY <2>1
<1>9. ASSUME NEW x \in S, NEW y \in E, y[1] = x[2]
      PROVE  y[2] = <<Event(x[1])>> /\ (Event(x[1]).data = "kline" => Event(x[1]) = x[1])
  BY <1>1, <1>2, <1>3, <1>9 DEF Event, Feed, Plain, OneToOne
<1>10. ASSUME NEW x \in S, NEW y \in E, y[1] = x[2]
       PROVE  /\ Event(x[1]) \in ToSet(y[2])
              /\ \A e \in ToSet(y[2]) : e.data = "kline" => e = x[1]
  BY <1>9, <1>10, OneFits
<1>11. ASSUME NEW x \in S PROVE \E y \in E : y[1] = x[2]
  <2>1. x[2] = <<"publicTrade">> \/ x[2] = <<"books1">> \/ \E p \in BitgetWords : x[2] = <<"kline", p[2]>>
    BY <1>2
  <2>2. CASE x[2] = <<"publicTrade">>
    BY <1>4, <2>2, RowOf
  <2>3. CASE x[2] = <<"books1">>
    BY <1>4, <2>3, RowOf
  <2>4. CASE \E p \in BitgetWords : x[2] = <<"kline", p[2]>>
    BY <1>5, <2>4, RowOf
  <2>. QED BY <2>1, <2>2, <2>3, <2>4
<1>12. \E x \in S : x[1] = Trades
  BY <1>6, RowOf
<1>. QED BY <1>7, <1>8, <1>10, <1>11, <1>12 DEF Fit, S, E

\* The tables of Hyperliquid fit together.
LEMMA HyperliquidFits == Fit(Compose(HyperliquidSubscribes, HyperliquidTopics), HyperliquidEvents, {})
<1>. DEFINE S == Compose(HyperliquidSubscribes, HyperliquidTopics)
            E == HyperliquidEvents
            Row(x) ==
              \/ x = <<Plain("trade"), <<"trades">>>> \/ x = <<Plain("bookl1"), <<"bbo">>>>
              \/ \E p \in HyperliquidWords : x = <<Feed("kline", p[1]), <<"candle", p[2]>>>>
            Says(y) ==
              \/ y = <<<<"trades">>, <<Plain("trade")>>>> \/ y = <<<<"bbo">>, <<Plain("bookl1")>>>>
              \/ \E p \in HyperliquidWords : y = <<<<"candle", p[2]>>, <<Feed("kline", p[1])>>>>
<1>1. OneToOne(HyperliquidWords)
  BY DEF OneToOne, HyperliquidWords, Words
<1>2. ASSUME NEW x \in S PROVE Row(x)
  <2>1. PICK r \in HyperliquidSubscribes, s \in HyperliquidTopics : r[2] = s[1] /\ x = <<r[1], s[2]>>
    BY Composed
  <2>2. \/ r = <<Plain("trade"), <<"trades">>>> \/ r = <<Plain("bookl1"), <<"bbo">>>>
        \/ \E p \in HyperliquidWords : r = <<Feed("kline", p[1]), <<"candle", p[2]>>>>
    BY DEF HyperliquidSubscribes
  <2>3. \/ s = <<<<"trades">>, <<"trades">>>> \/ s = <<<<"bbo">>, <<"bbo">>>>
        \/ \E p \in HyperliquidWords : s = <<<<"candle", p[2]>>, <<"candle", p[2]>>>>
    BY DEF HyperliquidTopics
  <2>. QED BY <2>1, <2>2, <2>3
<1>3. ASSUME NEW y \in E PROVE Says(y)
  <2>1. ASSUME NEW p \in HyperliquidWords, y = <<<<"candle", p[2]>>, <<Feed("kline", Parsed(HyperliquidWords, p[2]))>>>>
        PROVE  Says(y)
    BY <1>1, <2>1, ParsedBack
  <2>. QED BY <2>1 DEF HyperliquidEvents
<1>4. {<<<<"trades">>, <<Plain("trade")>>>>, <<<<"bbo">>, <<Plain("bookl1")>>>>} \subseteq E
  BY DEF HyperliquidEvents
<1>5. ASSUME NEW p \in HyperliquidWords PROVE \E es : <<<<"candle", p[2]>>, es>> \in E
  <2>. DEFINE es == <<Feed("kline", Parsed(HyperliquidWords, p[2]))>>
  <2>1. <<<<"candle", p[2]>>, es>> \in E
    BY DEF E, HyperliquidEvents
  <2>. HIDE DEF es
  <2>. QED BY <2>1
<1>6. <<Trades, <<"trades">>>> \in S
  BY InCompose DEF S, HyperliquidSubscribes, HyperliquidTopics, Trades
<1>. HIDE DEF S, E
<1>7. ASSUME NEW x \in S, NEW y \in S, x[1] = y[1] PROVE x[2] = y[2]
  BY <1>1, <1>2, <1>7 DEF Feed, Plain, OneToOne
<1>8. ASSUME NEW y \in E PROVE y[2] \in Seq(Events)
  <2>1. \E e \in Events : y[2] = <<e>>
    BY <1>3, PlainEvents DEF Kinds, AllWords
  <2>. QED BY <2>1
<1>9. ASSUME NEW x \in S, NEW y \in E, y[1] = x[2]
      PROVE  y[2] = <<Event(x[1])>> /\ (Event(x[1]).data = "kline" => Event(x[1]) = x[1])
  BY <1>1, <1>2, <1>3, <1>9 DEF Event, Feed, Plain, OneToOne
<1>10. ASSUME NEW x \in S, NEW y \in E, y[1] = x[2]
       PROVE  /\ Event(x[1]) \in ToSet(y[2])
              /\ \A e \in ToSet(y[2]) : e.data = "kline" => e = x[1]
  BY <1>9, <1>10, OneFits
<1>11. ASSUME NEW x \in S PROVE \E y \in E : y[1] = x[2]
  <2>1. x[2] = <<"trades">> \/ x[2] = <<"bbo">> \/ \E p \in HyperliquidWords : x[2] = <<"candle", p[2]>>
    BY <1>2
  <2>2. CASE x[2] = <<"trades">>
    BY <1>4, <2>2, RowOf
  <2>3. CASE x[2] = <<"bbo">>
    BY <1>4, <2>3, RowOf
  <2>4. CASE \E p \in HyperliquidWords : x[2] = <<"candle", p[2]>>
    BY <1>5, <2>4, RowOf
  <2>. QED BY <2>1, <2>2, <2>3, <2>4
<1>12. \E x \in S : x[1] = Trades
  BY <1>6, RowOf
<1>. QED BY <1>7, <1>8, <1>10, <1>11, <1>12 DEF Fit, S, E

\* The tables of Bybit fit together, but the spot tickers bring none of the prices.
LEMMA BybitFits ==
  ASSUME NEW market
  PROVE  Fit(Compose(BybitSubscribes, BybitTopics), BybitEvents(market),
             IF market = "spot" THEN {Plain(p) : p \in Prices} ELSE {})
<1>. DEFINE S == Compose(BybitSubscribes, BybitTopics)
            E == BybitEvents(market)
            Tickers == <<Plain("funding_rate"), Plain("index_price"), Plain("mark_price")>>
            Row(x) ==
              \/ x = <<Plain("trade"), <<"publicTrade">>>>
              \/ x = <<Plain("bookl1"), <<"orderbook", "1">>>>
              \/ x = <<Feed("bookl2", "50"), <<"orderbook", "50">>>>
              \/ \E p \in BybitWords : x = <<Feed("kline", p[1]), <<"kline", p[2]>>>>
            Price(x) == \E p \in Prices : x = <<Plain(p), <<"tickers">>>>
            Says(y) ==
              \/ y = <<<<"publicTrade">>, <<Plain("trade")>>>>
              \/ y = <<<<"orderbook", "1">>, <<Plain("bookl1")>>>>
              \/ y = <<<<"orderbook", "50">>, <<Plain("bookl2")>>>>
              \/ \E p \in BybitWords : y = <<<<"kline", p[2]>>, <<Feed("kline", p[1])>>>>
            Ticker(y) == market # "spot" /\ y = <<<<"tickers">>, Tickers>>
<1>1. OneToOne(BybitWords)
  BY DEF OneToOne, BybitWords
<1>2. ASSUME NEW x \in S PROVE Row(x) \/ Price(x)
  <2>1. PICK r \in BybitSubscribes, s \in BybitTopics : r[2] = s[1] /\ x = <<r[1], s[2]>>
    BY Composed
  <2>2. \/ r = <<Plain("trade"), <<"trade">>>> \/ r = <<Plain("bookl1"), <<"order_book", "1">>>>
        \/ r = <<Feed("bookl2", "50"), <<"order_book", "50">>>>
        \/ \E p \in Prices : r = <<Plain(p), <<"ticker">>>>
        \/ \E p \in BybitWords : r = <<Feed("kline", p[1]), <<"kline", p[2]>>>>
    BY DEF BybitSubscribes, BybitPrices
  <2>3. \/ s = <<<<"trade">>, <<"publicTrade">>>> \/ s = <<<<"ticker">>, <<"tickers">>>>
        \/ s = <<<<"order_book", "1">>, <<"orderbook", "1">>>>
        \/ s = <<<<"order_book", "50">>, <<"orderbook", "50">>>>
        \/ \E p \in BybitWords : s = <<<<"kline", p[2]>>, <<"kline", p[2]>>>>
    BY DEF BybitTopics
  <2>. QED BY <2>1, <2>2, <2>3
<1>3. ASSUME NEW y \in E PROVE Says(y) \/ Ticker(y)
  <2>1. ASSUME NEW p \in BybitWords,
               y = <<<<"kline", p[2]>>, <<Feed("kline", Parsed(BybitWords, p[2]))>>>>
        PROVE  Says(y)
    BY <1>1, <2>1, ParsedBack
  <2>. QED BY <2>1 DEF BybitEvents
<1>4. /\ {<<<<"publicTrade">>, <<Plain("trade")>>>>, <<<<"orderbook", "1">>, <<Plain("bookl1")>>>>,
          <<<<"orderbook", "50">>, <<Plain("bookl2")>>>>} \subseteq E
      /\ market # "spot" => <<<<"tickers">>, Tickers>> \in E
  BY DEF BybitEvents
<1>5. ASSUME NEW p \in BybitWords PROVE \E es : <<<<"kline", p[2]>>, es>> \in E
  <2>. DEFINE es == <<Feed("kline", Parsed(BybitWords, p[2]))>>
  <2>1. <<<<"kline", p[2]>>, es>> \in E
    BY DEF E, BybitEvents
  <2>. HIDE DEF es
  <2>. QED BY <2>1
<1>6. <<Trades, <<"publicTrade">>>> \in S
  BY InCompose DEF S, BybitSubscribes, BybitTopics, Trades
<1>. HIDE DEF S, E
<1>7. ASSUME NEW x \in S, NEW y \in S, x[1] = y[1] PROVE x[2] = y[2]
  BY <1>1, <1>2, <1>7 DEF Feed, Plain, OneToOne, Prices
<1>8. ASSUME NEW y \in E PROVE y[2] \in Seq(Events)
  <2>1. CASE Says(y)
    <3>1. \E e \in Events : y[2] = <<e>>
      BY <2>1, PlainEvents DEF Kinds, AllWords
    <3>. QED BY <3>1
  <2>2. CASE Ticker(y)
    BY <2>2, PriceFacts DEF Prices
  <2>. QED BY <1>3, <2>1, <2>2
<1>9. ASSUME NEW x \in S, NEW y \in E, y[1] = x[2]
      PROVE  /\ Event(x[1]) \in ToSet(y[2])
             /\ \A e \in ToSet(y[2]) : e.data = "kline" => e = x[1]
  <2>1. CASE Row(x)
    <3>1. Says(y)
      BY <1>3, <1>9, <2>1
    <3>2. y[2] = <<Event(x[1])>> /\ (Event(x[1]).data = "kline" => Event(x[1]) = x[1])
      BY <1>1, <1>9, <2>1, <3>1 DEF Event, Feed, Plain, OneToOne
    <3>. QED BY <3>2, OneFits
  <2>2. CASE Price(x)
    <3>1. PICK p \in Prices : x = <<Plain(p), <<"tickers">>>>
      BY <2>2
    <3>2. y[2] = Tickers
      BY <1>3, <1>9, <3>1
    <3>3. /\ Event(x[1]) = Plain(p)
          /\ Plain(p) \in {Plain("funding_rate"), Plain("index_price"), Plain("mark_price")}
          /\ \A q \in Prices : Plain(q).data # "kline"
      BY <3>1, PriceFacts DEF Prices
    <3>. QED BY <3>2, <3>3, ThreeFits DEF Prices
  <2>. QED BY <1>2, <2>1, <2>2
<1>10. ASSUME NEW x \in S, x[1] \notin (IF market = "spot" THEN {Plain(p) : p \in Prices} ELSE {})
       PROVE  \E y \in E : y[1] = x[2]
  <2>1. \/ x[2] = <<"publicTrade">> \/ x[2] = <<"orderbook", "1">> \/ x[2] = <<"orderbook", "50">>
        \/ x[2] = <<"tickers">> /\ market # "spot"
        \/ \E p \in BybitWords : x[2] = <<"kline", p[2]>>
    BY <1>2, <1>10
  <2>2. CASE x[2] \in {<<"publicTrade">>, <<"orderbook", "1">>, <<"orderbook", "50">>}
    BY <1>4, <2>2, RowOf
  <2>3. CASE x[2] = <<"tickers">> /\ market # "spot"
    BY <1>4, <2>3, RowOf
  <2>4. CASE \E p \in BybitWords : x[2] = <<"kline", p[2]>>
    BY <1>5, <2>4, RowOf
  <2>. QED BY <2>1, <2>2, <2>3, <2>4
<1>11. \E x \in S : x[1] = Trades
  BY <1>6, RowOf
<1>. QED BY <1>7, <1>8, <1>9, <1>10, <1>11 DEF Fit, S, E

\* The tables of Binance fit together.
LEMMA BinanceFits ==
  ASSUME NEW market
  PROVE  Fit(Compose(BinanceSubscribes, BinanceStreams(market)), BinanceEvents, {})
<1>. DEFINE S == Compose(BinanceSubscribes, BinanceStreams(market))
            E == BinanceEvents
            Marks == <<Plain("funding_rate"), Plain("mark_price"), Plain("index_price")>>
            Row(x) ==
              \/ x = <<Plain("trade"), <<"trade">>>> \/ x = <<Plain("bookl1"), <<"bookTicker">>>>
              \/ \E l \in Levels : x = <<Feed("bookl2", l), <<"depth", l>>>>
              \/ \E p \in BinanceWords : x = <<Feed("kline", p[1]), <<"kline", p[2]>>>>
            Price(x) == \E p \in Prices : x = <<Plain(p), <<"markPrice">>>>
            Says(y) ==
              \/ y = <<<<"trade">>, <<Plain("trade")>>>> \/ y = <<<<"bookTicker">>, <<Plain("bookl1")>>>>
              \/ \E l \in Levels : y = <<<<"depth", l>>, <<Plain("bookl2")>>>>
              \/ \E p \in BinanceWords : y = <<<<"kline", p[2]>>, <<Feed("kline", p[1])>>>>
            Mark(y) == y = <<<<"markPrice">>, Marks>>
<1>1. OneToOne(BinanceWords)
  BY DEF OneToOne, BinanceWords, Words
<1>2. ASSUME NEW x \in S PROVE Row(x) \/ Price(x)
  <2>1. PICK r \in BinanceSubscribes, s \in BinanceStreams(market) :
          r[2] = s[1] /\ x = <<r[1], s[2]>>
    BY Composed
  <2>2. \/ s = <<<<"trade">>, <<"trade">>>> \/ s = <<<<"book_ticker">>, <<"bookTicker">>>>
        \/ s = <<<<"mark_price">>, <<"markPrice">>>>
        \/ \E l \in Levels : s = <<<<"partial_book_depth", l>>, <<"depth", l>>>>
        \/ \E p \in BinanceWords : s = <<<<"kline", p[2]>>, <<"kline", p[2]>>>>
    BY DEF BinanceStreams
  <2>3. CASE r = <<Plain("trade"), <<"trade">>>> \/ r = <<Plain("bookl1"), <<"book_ticker">>>>
    BY <2>1, <2>2, <2>3
  <2>4. CASE \E l \in Levels : r = <<Feed("bookl2", l), <<"partial_book_depth", l>>>>
    BY <2>1, <2>2, <2>4
  <2>5. CASE \E p \in BinanceWords : r = <<Feed("kline", p[1]), <<"kline", p[2]>>>>
    <3>1. PICK p \in BinanceWords : r = <<Feed("kline", p[1]), <<"kline", p[2]>>>>
      BY <2>5
    <3>2. \/ s[1] = <<"trade">> \/ s[1] = <<"book_ticker">> \/ s[1] = <<"mark_price">>
          \/ \E l \in Levels : s[1] = <<"partial_book_depth", l>>
          \/ \E q \in BinanceWords : s[1] = <<"kline", q[2]>> /\ s[2] = <<"kline", q[2]>>
      BY <2>2
    <3>3. \E q \in BinanceWords : s[1] = <<"kline", q[2]>> /\ s[2] = <<"kline", q[2]>>
      BY <2>1, <3>1, <3>2
    <3>. QED BY <2>1, <3>1, <3>3
  <2>6. CASE \E p \in Prices : r = <<Plain(p), <<"mark_price">>>>
    BY <2>1, <2>2, <2>6
  <2>. QED BY <2>3, <2>4, <2>5, <2>6 DEF BinanceSubscribes
<1>3. ASSUME NEW y \in E PROVE Says(y) \/ Mark(y)
  <2>1. ASSUME NEW p \in BinanceWords,
               y = <<<<"kline", p[2]>>, <<Feed("kline", Parsed(BinanceWords, p[2]))>>>>
        PROVE  Says(y)
    BY <1>1, <2>1, ParsedBack
  <2>. QED BY <2>1 DEF BinanceEvents, BinanceDepthEvents
<1>4. /\ {<<<<"trade">>, <<Plain("trade")>>>>, <<<<"bookTicker">>, <<Plain("bookl1")>>>>,
          <<<<"markPrice">>, Marks>>} \subseteq E
      /\ \A l \in Levels : <<<<"depth", l>>, <<Plain("bookl2")>>>> \in E
  BY DEF BinanceEvents, BinanceDepthEvents
<1>5. ASSUME NEW p \in BinanceWords PROVE \E es : <<<<"kline", p[2]>>, es>> \in E
  <2>. DEFINE es == <<Feed("kline", Parsed(BinanceWords, p[2]))>>
  <2>1. <<<<"kline", p[2]>>, es>> \in E
    BY DEF E, BinanceEvents
  <2>. HIDE DEF es
  <2>. QED BY <2>1
<1>6. <<Trades, <<"trade">>>> \in S
  BY InCompose DEF S, BinanceSubscribes, BinanceStreams, Trades
<1>. HIDE DEF S, E
<1>7. ASSUME NEW x \in S, NEW y \in S, x[1] = y[1] PROVE x[2] = y[2]
  BY <1>1, <1>2, <1>7 DEF Feed, Plain, OneToOne, Prices
<1>8. ASSUME NEW y \in E PROVE y[2] \in Seq(Events)
  <2>1. CASE Says(y)
    <3>1. \E e \in Events : y[2] = <<e>>
      BY <2>1, PlainEvents DEF Kinds, AllWords
    <3>. QED BY <3>1
  <2>2. CASE Mark(y)
    BY <2>2, PriceFacts DEF Prices
  <2>. QED BY <1>3, <2>1, <2>2
<1>9. ASSUME NEW x \in S, NEW y \in E, y[1] = x[2]
      PROVE  /\ Event(x[1]) \in ToSet(y[2])
             /\ \A e \in ToSet(y[2]) : e.data = "kline" => e = x[1]
  <2>1. CASE Row(x)
    <3>1. Says(y)
      BY <1>3, <1>9, <2>1
    <3>2. y[2] = <<Event(x[1])>> /\ (Event(x[1]).data = "kline" => Event(x[1]) = x[1])
      BY <1>1, <1>9, <2>1, <3>1 DEF Event, Feed, Plain, OneToOne
    <3>. QED BY <3>2, OneFits
  <2>2. CASE Price(x)
    <3>1. PICK p \in Prices : x = <<Plain(p), <<"markPrice">>>>
      BY <2>2
    <3>2. y[2] = Marks
      BY <1>3, <1>9, <3>1
    <3>3. /\ Event(x[1]) = Plain(p)
          /\ Plain(p) \in {Plain("funding_rate"), Plain("mark_price"), Plain("index_price")}
          /\ \A q \in Prices : Plain(q).data # "kline"
      BY <3>1, PriceFacts DEF Prices
    <3>. QED BY <3>2, <3>3, ThreeFits DEF Prices
  <2>. QED BY <1>2, <2>1, <2>2
<1>10. ASSUME NEW x \in S PROVE \E y \in E : y[1] = x[2]
  <2>1. \/ x[2] \in {<<"trade">>, <<"bookTicker">>, <<"markPrice">>}
        \/ \E l \in Levels : x[2] = <<"depth", l>>
        \/ \E p \in BinanceWords : x[2] = <<"kline", p[2]>>
    BY <1>2
  <2>2. CASE x[2] \in {<<"trade">>, <<"bookTicker">>, <<"markPrice">>}
    BY <1>4, <2>2, RowOf
  <2>3. CASE \E l \in Levels : x[2] = <<"depth", l>>
    BY <1>4, <2>3, RowOf
  <2>4. CASE \E p \in BinanceWords : x[2] = <<"kline", p[2]>>
    BY <1>5, <2>4, RowOf
  <2>. QED BY <2>1, <2>2, <2>3, <2>4
<1>11. \E x \in S : x[1] = Trades
  BY <1>6, RowOf
<1>. QED BY <1>7, <1>8, <1>9, <1>10, <1>11 DEF Fit, S, E

-----------------------------------------------------------------------------
(* The tables of the account.                                               *)

LEMMA AccountFits ==
  ASSUME account \in AllAccounts
  PROVE  \E silent : /\ Fit(SubscribeTable[account], EventTable[account], silent)
                     /\ \A f \in silent : Deaf(f)
<1>. DEFINE spot == IF account[2] = "spot" THEN {Plain(p) : p \in Prices} ELSE {}
<1>1. CASE account[1] = "binance"
  BY <1>1, BinanceFits DEF SubscribeTable, EventTable
<1>2. CASE account[1] = "okx"
  <2>1. Deaf(Plain("index_price"))
    BY <1>2 DEF Deaf, Plain, Feed, Prices
  <2>. QED BY <1>2, <2>1, OkxFits DEF SubscribeTable, EventTable
<1>3. CASE account[1] = "bybit"
  <2>1. \A f \in spot : Deaf(f)
    BY <1>3 DEF Deaf, Plain, Feed, Prices, AllAccounts
  <2>. HIDE DEF spot
  <2>2. Fit(SubscribeTable[account], EventTable[account], spot)
    BY <1>3, BybitFits DEF SubscribeTable, EventTable, spot
  <2>. QED BY <2>1, <2>2
<1>4. CASE account[1] = "bitget"
  BY <1>4, BitgetFits DEF SubscribeTable, EventTable
<1>5. CASE account[1] = "hyperliquid"
  BY <1>5, HyperliquidFits DEF SubscribeTable, EventTable
<1>. QED BY <1>1, <1>2, <1>3, <1>4, <1>5 DEF AllAccounts

\* A topic of a feed, and the row of a message.
LEMMA TopicRow ==
  ASSUME NEW f, NEW t \in TopicsOf(f)
  PROVE  \E x \in SubscribeTable[account] : x[1] = f /\ x[2] = t
BY DEF TopicsOf

\* A topic has one row of events, or none.
LEMMA EventRow ==
  ASSUME NEW t
  PROVE  \/ EventsOf(t) = <<>> /\ \A y \in EventTable[account] : y[1] # t
         \/ \E y \in EventTable[account] : y[1] = t /\ EventsOf(t) = y[2]
<1>. DEFINE rows == {r \in EventTable[account] : r[1] = t}
<1>1. CASE rows = {}
  BY <1>1 DEF EventsOf
<1>2. CASE rows # {}
  <2>1. (CHOOSE r \in rows : TRUE) \in rows
    BY <1>2
  <2>2. EventsOf(t) = (CHOOSE r \in rows : TRUE)[2]
    BY <1>2 DEF EventsOf
  <2>. QED BY <2>1, <2>2
<1>. QED BY <1>1, <1>2

\* What a message is parsed into are events.
LEMMA EventsAreTyped ==
  ASSUME account \in AllAccounts, NEW t
  PROVE  EventsOf(t) \in Seq(Events)
<1>1. \A y \in EventTable[account] : y[2] \in Seq(Events)
  BY AccountFits DEF Fit
<1>2. <<>> \in Seq(Events)
  OBVIOUS
<1>. QED BY <1>1, <1>2, EventRow

\* A request has at most one topic, and its unsubscription takes that one.
LEMMA OneTopic ==
  ASSUME account \in AllAccounts, NEW f, NEW t \in TopicsOf(f), NEW u \in TopicsOf(f)
  PROVE  t = u
<1>1. \A x, y \in SubscribeTable[account] : x[1] = y[1] => x[2] = y[2]
  BY AccountFits DEF Fit
<1>. QED BY <1>1, TopicRow

\* Trades have a topic on every account.
LEMMA TradesHaveTopic ==
  ASSUME account \in AllAccounts
  PROVE  TopicsOf(Trades) # {}
<1>1. PICK x \in SubscribeTable[account] : x[1] = Trades
  BY AccountFits DEF Fit
<1>. QED BY <1>1 DEF TopicsOf

\* unsubscribe_* gives up the topics that subscribe_* asked for.
LEMMA WayBack ==
  ASSUME account \in AllAccounts, NEW f
  PROVE  UntopicsOf(f) = TopicsOf(f)
<1>1. UnsubscribeTable[account] = SubscribeTable[account]
  BY DEF UnsubscribeTable, SubscribeTable, BinanceUnsubscribes, BinanceUnstreams,
         OkxUnsubscribes, OkxUnchannels, BybitUntopics
<1>. QED BY <1>1 DEF UntopicsOf, TopicsOf

\* The messages of a topic become the event of its request, and the only
\* klines among them are those asked for.
LEMMA TopicFeeds ==
  ASSUME account \in AllAccounts, NEW f, NEW t \in TopicsOf(f)
  PROVE  /\ Deaf(f) \/ Event(f) \in ToSet(EventsOf(t))
         /\ \A e \in ToSet(EventsOf(t)) : e.data = "kline" => e = f
<1>1. PICK silent : /\ Fit(SubscribeTable[account], EventTable[account], silent)
                    /\ \A g \in silent : Deaf(g)
  BY AccountFits
<1>2. PICK x \in SubscribeTable[account] : x[1] = f /\ x[2] = t
  BY TopicRow
<1>3. CASE EventsOf(t) = <<>> /\ \A y \in EventTable[account] : y[1] # t
  <2>1. f \in silent
    BY <1>1, <1>2, <1>3 DEF Fit
  <2>2. ToSet(<<>>) = {}
    BY DEF ToSet
  <2>. QED BY <1>1, <1>3, <2>1, <2>2
<1>4. CASE \E y \in EventTable[account] : y[1] = t /\ EventsOf(t) = y[2]
  BY <1>1, <1>2, <1>4 DEF Fit
<1>. QED BY <1>3, <1>4, EventRow

\* What is asked for is a feed, and its event one the strategy can be sent.
LEMMA FeedFacts ==
  ASSUME RequestsOK, NEW f \in menu
  PROVE  /\ f = Feed(f.data, f.detail) /\ Event(f) \in Published
         /\ f.data = "volume_kline" => Event(f) = VolumeKline
         /\ f.data = "built_kline" => Event(f).data = "kline" /\ Event(f) \in Events
         /\ ~ Built(f) => Event(f) \in Events
<1>1. /\ f = Feed(f.data, f.detail)
      /\ \/ f.data = "volume_kline"
         \/ f.data \in {"kline", "built_kline"} /\ f.detail \in Intervals
         \/ f.data \in {"trade", "bookl1"} \cup Prices /\ f.detail = "none"
         \/ f.data = "bookl2" /\ f.detail \in Levels
  BY FeedsAssumption DEF RequestsOK
<1>2. ASSUME NEW i \in Intervals PROVE Feed("kline", i) \in Events
  BY <1>2 DEF Events, Kinds, Details, Intervals, AllWords, Feed
<1>3. ASSUME NEW d \in {"trade", "bookl1", "bookl2"} \cup Prices PROVE Plain(d) \in Events
  BY <1>3 DEF Events, Kinds, Details, Feed, Plain, Prices
<1>4. CASE f.data = "volume_kline"
  BY <1>1, <1>4 DEF Event, Published, Built, VolumeKline
<1>5. CASE f.data = "built_kline"
  <2>1. Event(f) = Feed("kline", f.detail) /\ f.detail \in Intervals
    BY <1>1, <1>5 DEF Event, Prices
  <2>. QED BY <1>1, <1>2, <1>5, <2>1 DEF Published, Feed, Built
<1>6. CASE f.data = "kline"
  <2>1. Event(f) = Feed("kline", f.detail) /\ f.detail \in Intervals
    BY <1>1, <1>6 DEF Event, Prices
  <2>. QED BY <1>1, <1>2, <1>6, <2>1 DEF Published
<1>7. CASE f.data \in {"trade", "bookl1"} \cup Prices /\ f.detail = "none"
  <2>1. Event(f) = Plain(f.data)
    BY <1>1, <1>7 DEF Event, Plain, Prices
  <2>. QED BY <1>1, <1>3, <1>7, <2>1 DEF Published, Prices
<1>8. CASE f.data = "bookl2"
  <2>1. Event(f) = Plain("bookl2")
    BY <1>8 DEF Event
  <2>. QED BY <1>1, <1>3, <1>8, <2>1 DEF Published
<1>. QED BY <1>1, <1>4, <1>5, <1>6, <1>7, <1>8

\* Pairs are equal by their parts.
LEMMA PairsEqual ==
  ASSUME NEW a, NEW b, NEW c, NEW d, <<a, b>> = <<c, d>>
  PROVE  a = c /\ b = d
OBVIOUS

\* Two events of a symbol that go to the same gate are the same.
LEMMA GateFacts ==
  ASSUME NEW s \in Symbols, NEW e \in Published
  PROVE  /\ GateOf(s, e) \in Keys
         /\ \A d \in Published : GateOf(s, d) = GateOf(s, e) => d = e
<1>1. e = Feed(e.data, e.detail) /\ e.data \in Kinds
  BY DEF Published, Events, VolumeKline, Feed, Kinds
<1>2. "symbol" \notin Kinds
  BY DEF Kinds, Prices
<1>3. GateOf(s, e) \in Keys
  BY DEF Published, Events, VolumeKline, GateOf, Keys, Feed
<1>4. ASSUME NEW d \in Published, GateOf(s, d) = GateOf(s, e) PROVE d = e
  <2>1. d = Feed(d.data, d.detail) /\ d.data \in Kinds
    BY DEF Published, Events, VolumeKline, Feed, Kinds
  <2>2. CASE d = VolumeKline
    <3>1. GateOf(s, d) = <<"symbol", s>>
      BY <2>2 DEF GateOf, VolumeKline
    <3>2. CASE e # VolumeKline
      <4>1. GateOf(s, e) = <<e.data, e.detail>>
        BY <3>2 DEF GateOf, VolumeKline
      <4>2. e.data = "symbol"
        BY <1>4, <3>1, <4>1, PairsEqual, Zenon
      <4>. QED BY <1>1, <1>2, <4>2
    <3>. QED BY <2>2, <3>2
  <2>3. CASE d # VolumeKline
    <3>1. GateOf(s, d) = <<d.data, d.detail>>
      BY <2>3 DEF GateOf, VolumeKline
    <3>2. CASE e = VolumeKline
      <4>1. GateOf(s, e) = <<"symbol", s>>
        BY <3>2 DEF GateOf, VolumeKline
      <4>2. d.data = "symbol"
        BY <1>4, <3>1, <4>1, PairsEqual, Zenon
      <4>. QED BY <1>2, <2>1, <4>2
    <3>3. CASE e # VolumeKline
      <4>1. GateOf(s, e) = <<e.data, e.detail>>
        BY <3>3 DEF GateOf, VolumeKline
      <4>2. <<d.data, d.detail>> = <<e.data, e.detail>>
        BY <1>4, <3>1, <4>1
      <4>3. d.data = e.data /\ d.detail = e.detail
        BY <4>2, PairsEqual
      <4>. QED BY <1>1, <2>1, <4>3
    <3>. QED BY <3>2, <3>3
  <2>. QED BY <2>2, <2>3
<1>. QED BY <1>3, <1>4

-----------------------------------------------------------------------------
(* The requests and their queues.                                           *)

LEMMA RequestsKept == RequestsOK /\ [Next]_vars => RequestsOK'
<1>. SUFFICES ASSUME RequestsOK, [Next]_vars PROVE RequestsOK'
  OBVIOUS
<1>. USE DEF RequestsOK
<1>1. ASSUME NEW s \in Symbols, NEW f \in menu, AskSubscribe(s, f) \/ AskUnsubscribe(s, f)
      PROVE  RequestsOK'
  <2>1. <<s, f>> \in Symbols \X menu
    OBVIOUS
  <2>. DEFINE req == <<s, f>>
  <2>2. /\ menu' = menu /\ account' = account /\ aggregators' = aggregators
        /\ tracked' = tracked /\ topics' = topics
        /\ subscribes' \in {subscribes, Append(subscribes, req)}
        /\ unsubscribes' \in {unsubscribes, Append(unsubscribes, req)}
        /\ asked' \in {asked \cup {req}, asked \ {req}}
    BY <1>1 DEF AskSubscribe, AskUnsubscribe, connector
  <2>3. req \in Symbols \X menu
    BY <2>1
  <2>. HIDE DEF req
  <2>4. Append(subscribes, req) \in Seq(Symbols \X menu)
        /\ Append(unsubscribes, req) \in Seq(Symbols \X menu)
    BY <2>3
  <2>. QED BY <2>2, <2>3, <2>4
<1>2. CASE HandleSubscribe
  <2>. DEFINE s == Head(subscribes)[1]
              f == Head(subscribes)[2]
  <2>1. s \in Symbols /\ f \in menu /\ Tail(subscribes) \in Seq(Symbols \X menu)
    BY <1>2, HeadOf DEF HandleSubscribe
  <2>2. /\ menu' = menu /\ account' = account /\ subscribes' = Tail(subscribes)
        /\ unsubscribes' = unsubscribes /\ asked' = asked
        /\ aggregators' \in {aggregators, [aggregators EXCEPT ![s] = Append(@, f)]}
        /\ tracked' = tracked
        /\ \E ts : topics' \subseteq topics \cup At(s, ts)
    BY <1>2 DEF HandleSubscribe, SubscribeNative, SubscribeBuilt, history
  <2>. HIDE DEF s, f
  <2>3. Append(aggregators[s], f) \in Seq(menu)
    BY <2>1
  <2>4. \A st \in topics' : st[1] \in Symbols /\ st = <<st[1], st[2]>>
    BY <2>1, <2>2 DEF At
  <2>. QED BY <2>1, <2>2, <2>3, <2>4
<1>3. CASE HandleUnsubscribe
  <2>. DEFINE s == Head(unsubscribes)[1]
              f == Head(unsubscribes)[2]
              left == Without(aggregators[s], f)
  <2>1. s \in Symbols /\ f \in menu /\ Tail(unsubscribes) \in Seq(Symbols \X menu)
    BY <1>3, HeadOf DEF HandleUnsubscribe
  <2>2. /\ menu' = menu /\ account' = account /\ unsubscribes' = Tail(unsubscribes)
        /\ subscribes' = subscribes /\ asked' = asked
        /\ aggregators' \in {aggregators, [aggregators EXCEPT ![s] = left]}
        /\ tracked' = tracked /\ topics' \subseteq topics
    BY <1>3 DEF HandleUnsubscribe, UnsubscribeNative, UnsubscribeBuilt, history
  <2>3. left \in Seq(menu)
    <3>. HIDE DEF s, f
    <3>1. aggregators[s] \in Seq(menu)
      BY <2>1
    <3>. QED BY <3>1, WithoutFacts
  <2>. HIDE DEF s, f, left
  <2>. QED BY <2>1, <2>2, <2>3
<1>4. ASSUME \/ \E st \in topics : Deliver(st[1], st[2])
             \/ \E s \in Symbols : BuildBar(s)
             \/ Reconnect \/ AskReady \/ \E i \in DOMAIN gates : Expire(i)
             \/ UNCHANGED vars
      PROVE  RequestsOK'
  <2>1. UNCHANGED <<account, menu, tracked, queues, topics, aggregators, asked>>
    BY <1>4 DEF Deliver, BuildBar, Reconnect, AskReady, Expire, vars, connector, history
  <2>. QED BY <2>1 DEF queues
<1>. QED BY <1>1, <1>2, <1>3, <1>4 DEF Next

-----------------------------------------------------------------------------
(* The gates.                                                               *)

LEMMA NewGateFacts ==
  ASSUME RequestsOK, NEW key \in Keys, NEW s \in Symbols, NEW c
  PROVE  /\ GateSound(NewGate(key, s), c) /\ NewGate(key, s).key = key
         /\ DOMAIN NewGate(key, s).heard = {s}
<1>. DEFINE told == [x \in {s} |-> FALSE]
<1>1. /\ told \in [{s} -> BOOLEAN] /\ DOMAIN told = {s} /\ told[s] = FALSE
      /\ {s} \in SUBSET Symbols
  OBVIOUS
<1>. HIDE DEF told
<1>2. tracked \in BOOLEAN
  BY DEF RequestsOK
<1>3. NewGate(key, s) = [key |-> key, heard |-> told, open |-> ~ tracked,
                         started |-> FALSE, late |-> FALSE]
  BY DEF NewGate, told
<1>4. NewGate(key, s) \in Gates
  BY <1>1, <1>2, <1>3 DEF Gates
<1>. QED BY <1>1, <1>3, <1>4 DEF GateSound

\* A gate stays sound when a symbol is added to it.
LEMMA AddSymbolFacts ==
  ASSUME NEW c, NEW g, GateSound(g, c), NEW s \in Symbols
  PROVE  /\ GateSound(AddSymbol(g, s), c) /\ AddSymbol(g, s).key = g.key
         /\ DOMAIN AddSymbol(g, s).heard = DOMAIN g.heard \cup {s}
<1>1. CASE s \in DOMAIN g.heard
  BY <1>1 DEF AddSymbol
<1>2. CASE s \notin DOMAIN g.heard
  <2>. DEFINE told == Joined(g.heard, s)
              D == DOMAIN g.heard
  <2>1. g \in Gates /\ D \in SUBSET Symbols /\ g.heard \in [D -> BOOLEAN]
    BY DEF GateSound, Gates
  <2>2. /\ told \in [D \cup {s} -> BOOLEAN] /\ told[s] = FALSE
        /\ \A x \in D : told[x] = g.heard[x]
        /\ D \cup {s} \in SUBSET Symbols
    BY <1>2, <2>1 DEF Joined
  <2>3. AddSymbol(g, s) = [g EXCEPT !.heard = told, !.open = FALSE]
    BY <1>2 DEF AddSymbol
  <2>. HIDE DEF told, D
  <2>4. /\ AddSymbol(g, s) \in Gates /\ AddSymbol(g, s).heard = told
        /\ AddSymbol(g, s).open = FALSE /\ AddSymbol(g, s).key = g.key
    BY <2>1, <2>2, <2>3 DEF Gates
  <2>5. \A x \in D : g.heard[x] => CachedIn(c, x, g.key)
    BY DEF GateSound, D
  <2>6. DOMAIN told = D \cup {s}
    BY <2>2
  <2>. QED BY <2>2, <2>4, <2>5, <2>6 DEF GateSound, D
<1>. QED BY <1>1, <1>2

\* A gate stays sound when it hears of a symbol that is in the cache.
LEMMA InputFacts ==
  ASSUME NEW c, NEW g, GateSound(g, c), NEW s, CachedIn(c, s, g.key)
  PROVE  /\ GateSound(Input(g, s), c) /\ Input(g, s).key = g.key
         /\ DOMAIN Input(g, s).heard = DOMAIN g.heard
<1>1. CASE g.open
  BY <1>1 DEF Input
<1>2. CASE ~ g.open
  <2>. DEFINE D == DOMAIN g.heard
              heard == [x \in D |-> g.heard[x] \/ x = s]
              told == [g EXCEPT !.started = TRUE, !.heard = heard]
  <2>1. g \in Gates /\ D \in SUBSET Symbols /\ g.heard \in [D -> BOOLEAN]
    BY DEF GateSound, Gates
  <2>2. heard \in [D -> BOOLEAN]
    OBVIOUS
  <2>3. \A x \in D : heard[x] => g.heard[x] \/ x = s
    OBVIOUS
  <2>4. Input(g, s) = [told EXCEPT !.open = AllHeard(told)]
    BY <1>2 DEF Input
  <2>. HIDE DEF heard, D
  <2>5. AllHeard(told) \in BOOLEAN
    BY DEF AllHeard
  <2>6. told \in Gates /\ told.heard = heard /\ told.key = g.key
    BY <2>1, <2>2 DEF Gates
  <2>. HIDE DEF told
  <2>7. /\ Input(g, s) \in Gates /\ Input(g, s).heard = heard /\ Input(g, s).key = g.key
        /\ Input(g, s).open = AllHeard(told)
    BY <2>4, <2>5, <2>6 DEF Gates
  <2>8. AllHeard(told) => AllHeard(Input(g, s))
    BY <2>6, <2>7 DEF AllHeard
  <2>9. \A x \in D : heard[x] => CachedIn(c, x, g.key)
    BY <2>3 DEF GateSound, D
  <2>10. DOMAIN heard = D
    BY <2>2
  <2>. QED BY <2>7, <2>8, <2>9, <2>10 DEF GateSound, D
<1>3. g.open \in BOOLEAN
  BY DEF GateSound, Gates
<1>. QED BY <1>1, <1>2, <1>3

\* A gate stays sound when more is cached.
LEMMA MoreCached ==
  ASSUME NEW c, NEW d, c \subseteq d, NEW g, GateSound(g, c)
  PROVE  GateSound(g, d)
BY DEF GateSound, CachedIn

\* Gates are only added, with their keys and their symbols.
GatesGrow ==
  /\ DOMAIN gates \subseteq DOMAIN gates'
  /\ \A i \in DOMAIN gates :
       gates'[i].key = gates[i].key /\ DOMAIN gates[i].heard \subseteq DOMAIN gates'[i].heard

\* A change of every gate by itself.
LEMMA GatesChanged ==
  ASSUME GatesOK, gates' = [i \in DOMAIN gates |-> gates'[i]], tracked' = tracked,
         \A i \in DOMAIN gates :
           /\ GateSound(gates'[i], cached')
           /\ gates'[i].key = gates[i].key
           /\ DOMAIN gates[i].heard \subseteq DOMAIN gates'[i].heard
  PROVE  GatesOK' /\ GatesGrow
<1>1. DOMAIN gates = 1 .. Len(gates) /\ Len(gates) \in Nat
  BY DEF GatesOK
<1>2. DOMAIN gates' = DOMAIN gates
  OBVIOUS
<1>3. gates' \in [1 .. Len(gates) -> Gates]
  BY <1>1, <1>2 DEF GateSound
<1>4. gates' \in Seq(Gates)
  BY <1>1, <1>3, SequenceOf
<1>5. GatesGrow
  BY <1>2 DEF GatesGrow
<1>6. ASSUME NEW i \in DOMAIN gates' PROVE GateSound(gates[i], cached)'
  BY <1>2 DEF GateSound, CachedIn, AllHeard
<1>. QED BY <1>4, <1>5, <1>6 DEF GatesOK

\* A request that is handled makes its gate, or is added to it.
LEMMA GatesWithKeeps ==
  ASSUME RequestsOK, GatesOK, NEW s \in Symbols, NEW f \in menu,
         gates' = GatesWith(s, f), tracked' = tracked, cached' = cached
  PROVE  /\ GatesOK' /\ GatesGrow /\ (f = Trades \/ Admitted(s, f)')
         /\ HasGate(GateOf(s, Event(f)))'
<1>. DEFINE key == GateOf(s, Event(f))
<1>1. key \in Keys
  BY FeedFacts, GateFacts
<1>2. gates \in Seq(Gates) /\ DOMAIN gates = 1 .. Len(gates) /\ Len(gates) \in Nat
      /\ \A i \in DOMAIN gates : GateSound(gates[i], cached)
  BY DEF GatesOK
<1>3. CASE ~ HasGate(key)
  <2>. DEFINE g == NewGate(key, s)
  <2>1. gates' = Append(gates, g)
    BY <1>3 DEF GatesWith
  <2>. HIDE DEF key
  <2>2. GateSound(g, cached) /\ g.key = key /\ DOMAIN g.heard = {s}
    BY <1>1, NewGateFacts
  <2>. HIDE DEF g
  <2>3. g \in Gates
    BY <2>2 DEF GateSound
  <2>4. /\ gates' \in Seq(Gates) /\ DOMAIN gates' = 1 .. (Len(gates) + 1)
        /\ \A i \in 1 .. Len(gates) : gates'[i] = gates[i]
        /\ gates'[Len(gates) + 1] = g
    BY <1>2, <2>1, <2>3
  <2>5. Len(gates) + 1 \in DOMAIN gates'
    BY <1>2, <2>4
  <2>6. ASSUME NEW i \in DOMAIN gates' PROVE GateSound(gates[i], cached)'
    <3>1. i \in 1 .. Len(gates) \/ i = Len(gates) + 1
      BY <1>2, <2>4
    <3>2. GateSound(gates'[i], cached)
      BY <1>2, <2>2, <2>4, <3>1
    <3>. QED BY <3>2 DEF GateSound, CachedIn, AllHeard
  <2>7. GatesGrow
    BY <1>2, <2>4 DEF GatesGrow
  <2>8. GatesOK'
    BY <2>4, <2>6 DEF GatesOK
  <2>9. Admitted(s, f)'
    <3>1. Event(f)' = Event(f) /\ GateOf(s, Event(f))' = key
      BY DEF Event, GateOf, key
    <3>2. gates'[Len(gates) + 1].key = key /\ s \in DOMAIN gates'[Len(gates) + 1].heard
      BY <2>2, <2>4
    <3>. QED BY <2>5, <3>1, <3>2 DEF Admitted
  <2>. QED BY <2>7, <2>8, <2>9 DEF HasGate, Admitted
<1>4. CASE HasGate(key) /\ f = Trades
  <2>1. gates' = gates
    BY <1>4 DEF GatesWith
  <2>2. GatesOK'
    BY <2>1 DEF GatesOK, GateSound, CachedIn, AllHeard
  <2>3. HasGate(key)'
    BY <1>4, <2>1 DEF HasGate, Event, GateOf
  <2>. QED BY <1>4, <2>1, <2>2, <2>3 DEF GatesGrow
<1>5. CASE HasGate(key) /\ f # Trades
  <2>1. gates' = [i \in DOMAIN gates |-> IF gates[i].key = key THEN AddSymbol(gates[i], s)
                                         ELSE gates[i]]
    BY <1>5 DEF GatesWith
  <2>2. PICK j \in DOMAIN gates : gates[j].key = key
    BY <1>5 DEF HasGate
  <2>. HIDE DEF key
  <2>3. ASSUME NEW i \in DOMAIN gates
        PROVE  /\ GateSound(gates'[i], cached') /\ gates'[i].key = gates[i].key
               /\ DOMAIN gates[i].heard \subseteq DOMAIN gates'[i].heard
    <3>1. CASE gates[i].key = key
      <4>1. gates'[i] = AddSymbol(gates[i], s)
        BY <2>1, <3>1
      <4>2. /\ GateSound(AddSymbol(gates[i], s), cached) /\ AddSymbol(gates[i], s).key = gates[i].key
            /\ DOMAIN AddSymbol(gates[i], s).heard = DOMAIN gates[i].heard \cup {s}
        BY <1>2, AddSymbolFacts
      <4>. QED BY <4>1, <4>2
    <3>2. CASE gates[i].key # key
      BY <1>2, <2>1, <3>2
    <3>. QED BY <3>1, <3>2
  <2>4. gates' = [i \in DOMAIN gates |-> gates'[i]]
    BY <2>1
  <2>5. GatesOK' /\ GatesGrow
    BY <2>3, <2>4, GatesChanged
  <2>6. j \in DOMAIN gates' /\ gates'[j].key = key /\ s \in DOMAIN gates'[j].heard
    <3>1. gates'[j] = AddSymbol(gates[j], s)
      BY <2>1, <2>2
    <3>2. s \in DOMAIN AddSymbol(gates[j], s).heard
      BY <1>2, <2>2, AddSymbolFacts
    <3>. QED BY <2>1, <2>2, <2>3, <3>1, <3>2
  <2>7. Admitted(s, f)'
    <3>1. Event(f)' = Event(f) /\ GateOf(s, Event(f))' = key
      BY DEF Event, GateOf, key
    <3>. QED BY <2>6, <3>1 DEF Admitted
  <2>. QED BY <2>5, <2>7 DEF HasGate, Admitted
<1>. QED BY <1>3, <1>4, <1>5

\* Whatever is published, a gate hears what the cache holds.
LEMMA PublishKeeps ==
  ASSUME GatesOK, NEW s \in Symbols, NEW events \in Seq(Published), Publish(s, events),
         tracked' = tracked
  PROVE  GatesOK' /\ GatesGrow /\ cached \subseteq cached'
<1>. DEFINE reach == Reach(s, events)
            given == {GateOf(s, events[i]) : i \in {j \in DOMAIN events : j < reach /\ events[j].data \in handled}}
<1>1. /\ cached' = cached \cup {<<s, events[i]>> : i \in {j \in DOMAIN events : j <= reach}}
      /\ gates' = [i \in DOMAIN gates |-> IF gates[i].key \in given THEN Input(gates[i], s)
                                          ELSE gates[i]]
  BY DEF Publish
<1>2. reach \in Int
  <2>. DEFINE deaf == {i \in DOMAIN events : events[i].data \in handled /\ ~ HasGate(GateOf(s, events[i]))}
  <2>1. reach = IF deaf = {} THEN Len(events) + 1 ELSE Min(deaf)
    BY DEF Reach
  <2>2. deaf \subseteq Nat /\ Len(events) \in Nat
    OBVIOUS
  <2>. HIDE DEF deaf
  <2>3. deaf # {} => Min(deaf) \in deaf
    BY <2>2, MinFacts
  <2>. HIDE DEF reach
  <2>. QED BY <2>1, <2>2, <2>3
<1>3. ASSUME NEW key \in given PROVE CachedIn(cached', s, key)
  <2>1. PICK i \in DOMAIN events : i < reach /\ GateOf(s, events[i]) = key
    OBVIOUS
  <2>2. events[i] \in Published
    BY ElementOf
  <2>. HIDE DEF reach
  <2>3. i <= reach
    BY <1>2, <2>1
  <2>4. <<s, events[i]>> \in cached'
    BY <1>1, <2>3
  <2>. QED BY <2>1, <2>2, <2>4 DEF CachedIn
<1>. HIDE DEF given
<1>4. \A i \in DOMAIN gates : GateSound(gates[i], cached)
  BY DEF GatesOK
<1>5. ASSUME NEW i \in DOMAIN gates
      PROVE  /\ GateSound(gates'[i], cached') /\ gates'[i].key = gates[i].key
             /\ DOMAIN gates[i].heard \subseteq DOMAIN gates'[i].heard
  <2>1. GateSound(gates[i], cached')
    BY <1>1, <1>4, MoreCached
  <2>2. CASE gates[i].key \in given
    <3>1. gates'[i] = Input(gates[i], s) /\ CachedIn(cached', s, gates[i].key)
      BY <1>1, <1>3, <2>2
    <3>2. /\ GateSound(Input(gates[i], s), cached') /\ Input(gates[i], s).key = gates[i].key
          /\ DOMAIN Input(gates[i], s).heard = DOMAIN gates[i].heard
      BY <2>1, <3>1, InputFacts
    <3>. QED BY <3>1, <3>2
  <2>3. CASE gates[i].key \notin given
    BY <1>1, <2>1, <2>3
  <2>. QED BY <2>2, <2>3
<1>6. gates' = [i \in DOMAIN gates |-> gates'[i]]
  BY <1>1
<1>. QED BY <1>1, <1>5, <1>6, GatesChanged

\* What a message is published as.
LEMMA DeliverPublishes ==
  ASSUME RequestsOK, NEW st \in topics, Deliver(st[1], st[2])
  PROVE  \E events \in Seq(Published) : Publish(st[1], events)
<1>1. PICK full \in SUBSET (IF Trades \in ToSet(EventsOf(st[2]))
                            THEN {a \in ToSet(aggregators[st[1]]) : a.data = "volume_kline"} ELSE {}) :
        Publish(st[1], [i \in 1 .. Cardinality(full) |-> VolumeKline] \o EventsOf(st[2]))
  BY DEF Deliver, VolumeKline
<1>. DEFINE list == aggregators[st[1]]
            filled == [i \in 1 .. Cardinality(full) |-> VolumeKline]
<1>2. list \in Seq(menu)
  BY DEF RequestsOK
<1>. HIDE DEF list
<1>3. IsFiniteSet(ToSet(list))
  <2>. DEFINE g == [i \in 1 .. Len(list) |-> list[i]]
  <2>1. 1 \in Int /\ Len(list) \in Int /\ DOMAIN list = 1 .. Len(list)
    BY <1>2
  <2>2. g \in Surjection(1 .. Len(list), ToSet(list))
    BY <2>1 DEF Surjection, ToSet
  <2>3. IsFiniteSet(1 .. Len(list))
    BY <2>1, FS_Interval
  <2>. HIDE DEF g
  <2>. QED BY <2>2, <2>3, FS_Surjection
<1>4. full \subseteq ToSet(list)
  BY DEF list
<1>5. Cardinality(full) \in Nat
  BY <1>3, <1>4, FS_Subset, FS_CardinalityType
<1>6. filled \in Seq(Published)
  <2>1. filled \in [1 .. Cardinality(full) -> Published]
    BY DEF Published
  <2>. HIDE DEF filled
  <2>. QED BY <1>5, <2>1, SequenceOf
<1>7. EventsOf(st[2]) \in Seq(Published)
  <2>1. account \in AllAccounts
    BY FeedsAssumption DEF RequestsOK
  <2>2. EventsOf(st[2]) \in Seq(Events)
    BY <2>1, EventsAreTyped
  <2>. QED BY <2>2 DEF Published
<1>8. filled \o EventsOf(st[2]) \in Seq(Published)
  <2>. HIDE DEF filled
  <2>. QED BY <1>6, <1>7
<1>. QED BY <1>1, <1>8

\* Once it is admitted, a request stays so.
LEMMA AdmittedStays ==
  ASSUME GatesGrow, NEW s, NEW f, Admitted(s, f)
  PROVE  Admitted(s, f)'
<1>1. Event(f)' = Event(f) /\ GateOf(s, Event(f))' = GateOf(s, Event(f))
  BY DEF Event, GateOf
<1>. QED BY <1>1 DEF Admitted, GatesGrow

\* A step that leaves the gates alone keeps them well formed.
LEMMA GatesUnchanged ==
  ASSUME GatesOK, gates' = gates, tracked' = tracked, cached' = cached
  PROVE  GatesOK' /\ GatesGrow
BY DEF GatesOK, GatesGrow, GateSound, CachedIn, AllHeard

\* A subscription that is handled is admitted to its gate.
LEMMA HandleSubscribeAdmits ==
  ASSUME RequestsOK, GatesOK, AskedAreAdmitted, HandleSubscribe
  PROVE  GatesOK' /\ GatesGrow /\ AskedAreAdmitted'
<1>1. PICK s \in Symbols, f \in menu :
        /\ Head(subscribes) = <<s, f>>
        /\ ToSet(subscribes) = {<<s, f>>} \cup ToSet(Tail(subscribes))
  <2>1. subscribes \in Seq(Symbols \X menu) /\ subscribes # <<>>
    BY DEF RequestsOK, HandleSubscribe
  <2>2. Head(subscribes) \in Symbols \X menu
        /\ ToSet(subscribes) = {Head(subscribes)} \cup ToSet(Tail(subscribes))
    BY <2>1, HeadOf
  <2>. QED BY <2>2
<1>2. /\ subscriberAlive /\ subscribes' = Tail(subscribes) /\ asked' = asked
      /\ tracked' = tracked /\ cached' = cached
      /\ IF Built(f) THEN SubscribeBuilt(s, f) ELSE SubscribeNative(s, f)
  BY <1>1 DEF HandleSubscribe, history
<1>3. \/ gates' = gates /\ subscriberAlive' = FALSE
      \/ gates' = GatesWith(s, f) /\ subscriberAlive' = subscriberAlive
  BY <1>2 DEF SubscribeBuilt, SubscribeNative
<1>4. CASE gates' = gates /\ subscriberAlive' = FALSE
  BY <1>2, <1>4, GatesUnchanged DEF AskedAreAdmitted
<1>5. CASE gates' = GatesWith(s, f) /\ subscriberAlive' = subscriberAlive
  <2>1. GatesOK' /\ GatesGrow /\ (f = Trades \/ Admitted(s, f)')
    BY <1>1, <1>2, <1>5, GatesWithKeeps
  <2>2. ASSUME NEW r \in asked, r \notin ToSet(Tail(subscribes))
        PROVE  r[2] = Trades \/ Admitted(r[1], r[2])'
    <3>1. CASE r = <<s, f>>
      <4>1. r[1] = s /\ r[2] = f
        BY <3>1
      <4>. QED BY <2>1, <4>1
    <3>2. CASE r # <<s, f>>
      <4>1. r[2] = Trades \/ Admitted(r[1], r[2])
        BY <1>1, <1>2, <2>2, <3>2 DEF AskedAreAdmitted
      <4>. QED BY <2>1, <4>1, AdmittedStays
    <3>. QED BY <3>1, <3>2
  <2>3. AskedAreAdmitted'
    <3>1. Trades' = Trades
      BY DEF Trades
    <3>. QED BY <1>2, <2>2, <3>1 DEF AskedAreAdmitted, Admitted
  <2>. QED BY <2>1, <2>3
<1>. QED BY <1>3, <1>4, <1>5

\* Every step keeps the gates, and no gate goes away.
LEMMA GatesStep ==
  ASSUME GatesInv, [Next]_vars
  PROVE  GatesOK' /\ GatesGrow /\ AskedAreAdmitted'
<1>. USE DEF GatesInv
<1>1. CASE HandleSubscribe
  BY <1>1, HandleSubscribeAdmits
<1>2. ASSUME GatesOK', GatesGrow, subscribes' = subscribes, asked' = asked,
             subscriberAlive' = subscriberAlive
      PROVE  AskedAreAdmitted'
  <2>1. ASSUME subscriberAlive, NEW r \in asked, r \notin ToSet(subscribes)
        PROVE  r[2] = Trades \/ Admitted(r[1], r[2])'
    <3>1. r[2] = Trades \/ Admitted(r[1], r[2])
      BY <2>1 DEF AskedAreAdmitted
    <3>. QED BY <1>2, <3>1, AdmittedStays
  <2>. QED BY <1>2, <2>1 DEF AskedAreAdmitted, Admitted
<1>3. ASSUME NEW s \in Symbols, NEW f \in menu, AskSubscribe(s, f) \/ AskUnsubscribe(s, f)
      PROVE  GatesOK' /\ GatesGrow /\ AskedAreAdmitted'
  <2>. DEFINE req == <<s, f>>
  <2>1. /\ gates' = gates /\ cached' = cached /\ tracked' = tracked
        /\ subscriberAlive' = subscriberAlive
        /\ \/ subscribes' = Append(subscribes, req) /\ asked' = asked \cup {req}
           \/ subscribes' = subscribes /\ asked' = asked \ {req}
    BY <1>3 DEF AskSubscribe, AskUnsubscribe
  <2>2. subscribes \in Seq(Symbols \X menu) /\ req \in Symbols \X menu
    BY DEF RequestsOK
  <2>. HIDE DEF req
  <2>3. ToSet(Append(subscribes, req)) = ToSet(subscribes) \cup {req}
    BY <2>2, AppendTo
  <2>4. GatesOK' /\ GatesGrow
    BY <2>1, GatesUnchanged
  <2>5. asked' \ ToSet(subscribes') \subseteq asked \ ToSet(subscribes)
    BY <2>1, <2>3
  <2>. QED BY <2>1, <2>4, <2>5 DEF AskedAreAdmitted, Admitted
<1>4. CASE \/ HandleUnsubscribe \/ Reconnect \/ UNCHANGED vars
  <2>1. UNCHANGED <<gates, cached, tracked, subscribes, asked, subscriberAlive>>
    BY <1>4 DEF HandleUnsubscribe, UnsubscribeNative, UnsubscribeBuilt, Reconnect, vars, queues,
       history
  <2>. QED BY <1>2, <2>1, GatesUnchanged
<1>5. ASSUME NEW st \in topics, Deliver(st[1], st[2]) PROVE GatesOK' /\ GatesGrow /\ AskedAreAdmitted'
  <2>1. UNCHANGED <<tracked, subscribes, asked, subscriberAlive>>
    BY <1>5 DEF Deliver, queues, history
  <2>2. st[1] \in Symbols
    BY DEF RequestsOK
  <2>3. PICK events \in Seq(Published) : Publish(st[1], events)
    BY <1>5, DeliverPublishes
  <2>. QED BY <1>2, <2>1, <2>2, <2>3, PublishKeeps
<1>6. ASSUME NEW s \in Symbols, BuildBar(s) PROVE GatesOK' /\ GatesGrow /\ AskedAreAdmitted'
  <2>1. UNCHANGED <<tracked, subscribes, asked, subscriberAlive>>
    BY <1>6 DEF BuildBar, queues, history
  <2>2. PICK a \in ToSet(aggregators[s]) : Publish(s, <<Event(a)>>)
    BY <1>6 DEF BuildBar
  <2>3. a \in menu
    BY DEF RequestsOK, ToSet
  <2>4. Event(a) \in Published
    BY <2>3, FeedFacts
  <2>5. <<Event(a)>> \in Seq(Published)
    BY <2>4
  <2>. QED BY <1>2, <2>1, <2>2, <2>5, PublishKeeps
<1>7. CASE AskReady
  <2>1. UNCHANGED <<cached, tracked, subscribes, asked, subscriberAlive>>
    BY <1>7 DEF AskReady, queues, history
  <2>2. gates' = [i \in DOMAIN gates |->
          [gates[i] EXCEPT !.open = @ \/ \A j \in 1 .. i : Ready(gates[j])]]
    BY <1>7 DEF AskReady
  <2>3. ASSUME NEW i \in DOMAIN gates
        PROVE  /\ GateSound(gates'[i], cached') /\ gates'[i].key = gates[i].key
               /\ DOMAIN gates[i].heard \subseteq DOMAIN gates'[i].heard
    <3>. DEFINE opens == gates[i].open \/ \A j \in 1 .. i : Ready(gates[j])
                g == [gates[i] EXCEPT !.open = opens]
    <3>1. GateSound(gates[i], cached) /\ i \in Nat \ {0}
      BY DEF GatesOK
    <3>2. opens => gates[i].open \/ Ready(gates[i])
      <4>1. i \in 1 .. i
        BY <3>1
      <4>. QED BY <4>1
    <3>3. opens \in BOOLEAN
      OBVIOUS
    <3>4. gates'[i] = g
      BY <2>2
    <3>. HIDE DEF opens
    <3>5. /\ g \in Gates /\ g.open = opens /\ g.late = gates[i].late
          /\ g.heard = gates[i].heard /\ g.key = gates[i].key
      BY <3>1, <3>3 DEF GateSound, Gates
    <3>6. tracked /\ opens => AllHeard(gates[i]) \/ gates[i].late
      BY <3>1, <3>2 DEF GateSound, Ready
    <3>7. AllHeard(gates[i]) => AllHeard(g)
      BY <3>5 DEF AllHeard
    <3>. HIDE DEF g
    <3>8. GateSound(g, cached)
      BY <3>1, <3>5, <3>6, <3>7 DEF GateSound
    <3>. QED BY <2>1, <3>4, <3>5, <3>8
  <2>4. gates' = [i \in DOMAIN gates |-> gates'[i]]
    BY <2>2
  <2>. QED BY <1>2, <2>1, <2>3, <2>4, GatesChanged
<1>8. ASSUME NEW k \in DOMAIN gates, Expire(k) PROVE GatesOK' /\ GatesGrow /\ AskedAreAdmitted'
  <2>1. UNCHANGED <<cached, tracked, subscribes, asked, subscriberAlive>>
    BY <1>8 DEF Expire, queues, history
  <2>2. gates' = [gates EXCEPT ![k].late = TRUE]
    BY <1>8 DEF Expire
  <2>. DEFINE g == [gates[k] EXCEPT !.late = TRUE]
  <2>3. \A i \in DOMAIN gates : gates'[i] = IF i = k THEN g ELSE gates[i]
    BY <2>2
  <2>4. \A i \in DOMAIN gates : GateSound(gates[i], cached)
    BY DEF GatesOK
  <2>5. g.key = gates[k].key /\ g.heard = gates[k].heard /\ g \in Gates /\ g.late = TRUE
    BY <2>4 DEF GateSound, Gates
  <2>6. GateSound(g, cached)
    <3>. HIDE DEF g
    <3>. QED BY <2>4, <2>5 DEF GateSound
  <2>. HIDE DEF g
  <2>7. ASSUME NEW i \in DOMAIN gates
        PROVE  /\ GateSound(gates'[i], cached') /\ gates'[i].key = gates[i].key
               /\ DOMAIN gates[i].heard \subseteq DOMAIN gates'[i].heard
    BY <2>1, <2>3, <2>4, <2>5, <2>6
  <2>8. gates' = [i \in DOMAIN gates |-> gates'[i]]
    <3>1. gates \in Seq(Gates)
      BY DEF GatesOK
    <3>. QED BY <2>2, <3>1
  <2>. QED BY <1>2, <2>1, <2>7, <2>8, GatesChanged
<1>. QED BY <1>1, <1>3, <1>4, <1>5, <1>6, <1>7, <1>8 DEF Next

-----------------------------------------------------------------------------
(* What the strategy listens to.                                            *)

\* But for the klines a kind of event has one gate, and the request for it
\* waits or has made that gate.
HandledOK ==
  subscriberAlive => \A d \in handled \ {"kline"} :
    HasGate(<<d, "none">>) \/ \E r \in ToSet(subscribes) : Event(r[2]).data = d

\* The klines of a topic have the gate of their interval.
KlinesOK ==
  subscriberAlive => \A st \in topics : \A e \in ToSet(EventsOf(st[2])) :
    e.data = "kline" => HasGate(GateOf(st[1], e))

ListenInv == HandledOK /\ KlinesOK

\* No gate goes away.
LEMMA HasGateStays ==
  ASSUME GatesGrow, NEW key, HasGate(key)
  PROVE  HasGate(key)'
BY DEF GatesGrow, HasGate

\* The request handled, with its source of data.
LEMMA HandledRequest ==
  ASSUME RequestsOK, HandleSubscribe
  PROVE  \E s \in Symbols, f \in menu :
           /\ Head(subscribes) = <<s, f>>
           /\ ToSet(subscribes) = {<<s, f>>} \cup ToSet(Tail(subscribes))
           /\ IF Built(f) THEN SubscribeBuilt(s, f) ELSE SubscribeNative(s, f)
<1>1. subscribes \in Seq(Symbols \X menu) /\ subscribes # <<>>
  BY DEF RequestsOK, HandleSubscribe
<1>2. PICK s \in Symbols, f \in menu : Head(subscribes) = <<s, f>>
  <2>1. Head(subscribes) \in Symbols \X menu
    BY <1>1, HeadOf
  <2>. QED BY <2>1
<1>3. ToSet(subscribes) = {<<s, f>>} \cup ToSet(Tail(subscribes))
  BY <1>1, <1>2, HeadOf
<1>4. IF Built(f) THEN SubscribeBuilt(s, f) ELSE SubscribeNative(s, f)
  BY <1>2 DEF HandleSubscribe
<1>. QED BY <1>2, <1>3, <1>4

\* A subscription that is handled: its gate is there when its events come.
LEMMA ListenHandle ==
  ASSUME RequestsOK, GatesOK, GatesGrow, ListenInv, HandleSubscribe
  PROVE  ListenInv'
<1>1. PICK s \in Symbols, f \in menu :
        /\ Head(subscribes) = <<s, f>>
        /\ ToSet(subscribes) = {<<s, f>>} \cup ToSet(Tail(subscribes))
        /\ IF Built(f) THEN SubscribeBuilt(s, f) ELSE SubscribeNative(s, f)
  BY HandledRequest
<1>2. /\ subscriberAlive /\ subscribes' = Tail(subscribes) /\ handled' = handled
      /\ account' = account /\ tracked' = tracked /\ cached' = cached
  BY DEF HandleSubscribe
<1>3. CASE subscriberAlive' = FALSE
  BY <1>3 DEF ListenInv, HandledOK, KlinesOK
<1>4. CASE subscriberAlive' # FALSE
  <2>1. /\ gates' = GatesWith(s, f)
        /\ topics' = topics \cup At(s, TopicsOf(IF Built(f) THEN Trades ELSE f))
    BY <1>1, <1>4 DEF SubscribeBuilt, SubscribeNative
  <2>2. HasGate(GateOf(s, Event(f)))'
    BY <1>2, <2>1, GatesWithKeeps
  <2>3. account \in AllAccounts
    BY FeedsAssumption DEF RequestsOK
  <2>4. ASSUME NEW d \in handled \ {"kline"}
        PROVE  HasGate(<<d, "none">>)' \/ \E r \in ToSet(Tail(subscribes)) : Event(r[2]).data = d
    <3>1. \/ HasGate(<<d, "none">>)
          \/ \E r \in ToSet(subscribes) : Event(r[2]).data = d
      BY <1>2 DEF ListenInv, HandledOK
    <3>2. CASE HasGate(<<d, "none">>)
      BY <3>2, HasGateStays
    <3>3. CASE Event(f).data = d
      <4>1. Event(f) \in Published
        BY FeedFacts
      <4>2. GateOf(s, Event(f)) = <<d, "none">>
        BY <3>3, <4>1 DEF Published, Events, VolumeKline, Feed, GateOf
      <4>. QED BY <2>2, <4>2
    <3>. QED BY <1>1, <3>1, <3>2, <3>3
  <2>5. HandledOK'
    BY <1>2, <2>4 DEF HandledOK, HasGate, Event
  <2>6. ASSUME NEW st \in topics', NEW e \in ToSet(EventsOf(st[2])), e.data = "kline"
        PROVE  HasGate(GateOf(st[1], e))'
    <3>1. CASE st \in topics
      <4>1. HasGate(GateOf(st[1], e))
        BY <1>2, <2>6, <3>1 DEF ListenInv, KlinesOK
      <4>. QED BY <4>1, HasGateStays
    <3>2. CASE st \in At(s, TopicsOf(IF Built(f) THEN Trades ELSE f))
      <4>1. PICK t \in TopicsOf(IF Built(f) THEN Trades ELSE f) : st = <<s, t>>
        BY <3>2 DEF At
      <4>2. st[1] = s /\ st[2] = t
        BY <4>1
      <4>3. e = IF Built(f) THEN Trades ELSE f
        BY <2>3, <2>6, <4>1, <4>2, TopicFeeds
      <4>4. ~ Built(f) /\ e = f
        BY <2>6, <4>3 DEF Trades, Plain, Feed
      <4>5. Event(f) = f
        BY <2>6, <4>4 DEF Event
      <4>. QED BY <2>2, <4>2, <4>4, <4>5
    <3>. QED BY <2>1, <3>1, <3>2
  <2>7. KlinesOK'
    <3>1. \A t : EventsOf(t)' = EventsOf(t)
      BY <1>2 DEF EventsOf
    <3>. QED BY <2>6, <3>1 DEF KlinesOK
  <2>. QED BY <2>5, <2>7 DEF ListenInv
<1>. QED BY <1>3, <1>4

\* Every step keeps what the handlers of the strategy need.
LEMMA ListenStep ==
  ASSUME GatesInv, ListenInv, [Next]_vars
  PROVE  ListenInv'
<1>. USE DEF GatesInv
<1>1. GatesGrow
  BY GatesStep
<1>2. CASE HandleSubscribe
  BY <1>1, <1>2, ListenHandle
<1>3. ASSUME account' = account, subscriberAlive' = subscriberAlive, topics' \subseteq topics,
             ToSet(subscribes) \subseteq ToSet(subscribes'),
             \A d \in handled' \ handled : \E r \in ToSet(subscribes') : Event(r[2]).data = d
      PROVE  ListenInv'
  <2>1. ASSUME subscriberAlive, NEW d \in handled' \ {"kline"}
        PROVE  HasGate(<<d, "none">>)' \/ \E r \in ToSet(subscribes') : Event(r[2]).data = d
    <3>1. CASE d \in handled
      <4>1. HasGate(<<d, "none">>) => HasGate(<<d, "none">>)'
        BY <1>1, HasGateStays
      <4>. QED BY <1>3, <2>1, <3>1, <4>1 DEF ListenInv, HandledOK
    <3>. QED BY <1>3, <3>1
  <2>2. HandledOK'
    BY <1>3, <2>1 DEF HandledOK, HasGate, Event
  <2>3. ASSUME subscriberAlive, NEW st \in topics', NEW e \in ToSet(EventsOf(st[2])), e.data = "kline"
        PROVE  HasGate(GateOf(st[1], e))'
    <3>1. HasGate(GateOf(st[1], e))
      BY <1>3, <2>3 DEF ListenInv, KlinesOK
    <3>. QED BY <1>1, <3>1, HasGateStays
  <2>4. \A t : EventsOf(t)' = EventsOf(t)
    BY <1>3 DEF EventsOf
  <2>5. KlinesOK'
    BY <1>3, <2>3, <2>4 DEF KlinesOK
  <2>. QED BY <2>2, <2>5 DEF ListenInv
<1>4. ASSUME NEW s \in Symbols, NEW f \in menu, AskSubscribe(s, f) PROVE ListenInv'
  <2>. DEFINE req == <<s, f>>
  <2>1. /\ account' = account /\ subscriberAlive' = subscriberAlive /\ topics' = topics
        /\ subscribes' = Append(subscribes, req) /\ handled' = handled \cup {Event(f).data}
    BY <1>4 DEF AskSubscribe, connector
  <2>2. subscribes \in Seq(Symbols \X menu) /\ req \in Symbols \X menu /\ req[2] = f
    BY DEF RequestsOK
  <2>. HIDE DEF req
  <2>3. ToSet(subscribes') = ToSet(subscribes) \cup {req}
    BY <2>1, <2>2, AppendTo
  <2>. QED BY <1>3, <2>1, <2>2, <2>3
<1>5. CASE \/ \E s \in Symbols, f \in menu : AskUnsubscribe(s, f)
           \/ HandleUnsubscribe
           \/ \E st \in topics : Deliver(st[1], st[2])
           \/ \E s \in Symbols : BuildBar(s)
           \/ Reconnect \/ AskReady \/ \E i \in DOMAIN gates : Expire(i)
           \/ UNCHANGED vars
  <2>1. UNCHANGED <<account, subscriberAlive, subscribes, handled>> /\ topics' \subseteq topics
    BY <1>5 DEF AskUnsubscribe, HandleUnsubscribe, UnsubscribeNative, UnsubscribeBuilt, Deliver,
       BuildBar, Reconnect, AskReady, Expire, vars, queues, connector
  <2>. QED BY <1>3, <2>1
<1>. QED BY <1>2, <1>4, <1>5 DEF Next

-----------------------------------------------------------------------------
(* What is asked for is fed.                                                *)

Source(f) == IF Built(f) THEN Trades ELSE f
Served(s, f) == TopicsOf(Source(f)) # {} /\ At(s, TopicsOf(Source(f))) \subseteq topics

\* A request waiting to be taken back is one the strategy has turned around,
\* or no longer asks for.
TurnsAreKnown == asked \cap ToSet(unsubscribes) \subseteq turned

\* A request handled and not turned around has its aggregator, and the topic
\* it lives on unless another unsubscription cut it.
AskedIsServed ==
  subscriberAlive => \A r \in asked \ (ToSet(subscribes) \cup turned) :
    /\ Built(r[2]) => r[2] \in ToSet(aggregators[r[1]])
    /\ r \notin cut => Served(r[1], r[2])

FedInv == TurnsAreKnown /\ AskedIsServed

\* A request is queued.
LEMMA FedAsk ==
  ASSUME RequestsOK, FedInv, NEW s \in Symbols, NEW f \in menu,
         AskSubscribe(s, f) \/ AskUnsubscribe(s, f)
  PROVE  FedInv'
<1>. DEFINE req == <<s, f>>
<1>1. /\ UNCHANGED <<account, subscriberAlive, topics, aggregators, cut>>
      /\ \/ /\ subscribes' = Append(subscribes, req) /\ asked' = asked \cup {req}
            /\ unsubscribes' = unsubscribes
            /\ turned' = turned \cup ({req} \cap ToSet(unsubscribes))
         \/ /\ subscribes' = subscribes /\ asked' = asked \ {req}
            /\ unsubscribes' = Append(unsubscribes, req)
            /\ turned' = turned \cup ({req} \cap ToSet(subscribes))
  BY DEF AskSubscribe, AskUnsubscribe, connector
<1>2. /\ subscribes \in Seq(Symbols \X menu) /\ unsubscribes \in Seq(Symbols \X menu)
      /\ req \in Symbols \X menu
  BY DEF RequestsOK
<1>. HIDE DEF req
<1>3. /\ ToSet(Append(subscribes, req)) = ToSet(subscribes) \cup {req}
      /\ ToSet(Append(unsubscribes, req)) = ToSet(unsubscribes) \cup {req}
  BY <1>2, AppendTo
<1>4. TurnsAreKnown'
  BY <1>1, <1>3 DEF FedInv, TurnsAreKnown
<1>5. asked' \ (ToSet(subscribes') \cup turned') \subseteq asked \ (ToSet(subscribes) \cup turned)
  BY <1>1, <1>3
<1>6. \A x, g : Served(x, g)' <=> Served(x, g)
  BY <1>1 DEF Served, TopicsOf, At, Source
<1>7. AskedIsServed'
  BY <1>1, <1>5, <1>6 DEF FedInv, AskedIsServed
<1>. QED BY <1>4, <1>7 DEF FedInv

\* A subscription is handled: its feed gets a topic or an aggregator.
LEMMA FedHandleSubscribe ==
  ASSUME RequestsOK, FedInv, HandleSubscribe
  PROVE  FedInv'
<1>1. PICK s \in Symbols, f \in menu :
        /\ Head(subscribes) = <<s, f>>
        /\ ToSet(subscribes) = {<<s, f>>} \cup ToSet(Tail(subscribes))
        /\ IF Built(f) THEN SubscribeBuilt(s, f) ELSE SubscribeNative(s, f)
  BY HandledRequest
<1>2. /\ subscriberAlive /\ subscribes' = Tail(subscribes) /\ asked' = asked
      /\ unsubscribes' = unsubscribes /\ turned' = turned /\ account' = account
  BY DEF HandleSubscribe, history
<1>3. TurnsAreKnown'
  BY <1>2 DEF FedInv, TurnsAreKnown
<1>4. account \in AllAccounts
  BY FeedsAssumption DEF RequestsOK
<1>5. CASE subscriberAlive' = FALSE
  BY <1>3, <1>5 DEF FedInv, AskedIsServed
<1>6. CASE subscriberAlive' # FALSE
  <2>1. /\ topics' = topics \cup At(s, TopicsOf(Source(f)))
        /\ cut' = cut \ Sharing(s, f)
        /\ TopicsOf(Source(f)) # {}
    BY <1>1, <1>4, <1>6, TradesHaveTopic DEF SubscribeBuilt, SubscribeNative, Source
  <2>2. ASSUME NEW r \in asked, Built(r[2]), r \notin ToSet(Tail(subscribes)) \cup turned
        PROVE  r[2] \in ToSet(aggregators'[r[1]])
    <3>1. r[1] \in Symbols /\ aggregators \in [Symbols -> Seq(menu)] /\ aggregators[r[1]] \in Seq(menu)
      BY DEF RequestsOK
    <3>2. CASE r = <<s, f>>
      <4>1. r[1] = s /\ r[2] = f
        BY <3>2
      <4>2. aggregators'[s] = Append(aggregators[s], f)
        BY <1>1, <2>2, <3>1, <4>1 DEF SubscribeBuilt
      <4>. QED BY <3>1, <4>1, <4>2, AppendTo
    <3>3. CASE r # <<s, f>>
      <4>1. r[2] \in ToSet(aggregators[r[1]])
        BY <1>1, <1>2, <2>2, <3>3 DEF FedInv, AskedIsServed
      <4>2. \/ aggregators'[r[1]] = aggregators[r[1]]
            \/ aggregators'[r[1]] = Append(aggregators[r[1]], f)
        BY <1>1, <3>1 DEF SubscribeBuilt, SubscribeNative
      <4>3. ToSet(Append(aggregators[r[1]], f)) = ToSet(aggregators[r[1]]) \cup {f}
        BY <3>1, AppendTo
      <4>. QED BY <4>1, <4>2, <4>3
    <3>. QED BY <3>2, <3>3
  <2>3. ASSUME NEW r \in asked, r \notin ToSet(Tail(subscribes)) \cup turned, r \notin cut'
        PROVE  /\ TopicsOf(Source(r[2])) # {}
               /\ At(r[1], TopicsOf(Source(r[2]))) \subseteq topics'
    <3>1. CASE r = <<s, f>>
      <4>1. r[1] = s /\ r[2] = f
        BY <3>1
      <4>. QED BY <2>1, <4>1
    <3>2. CASE r # <<s, f>> /\ r \notin cut
      <4>1. Served(r[1], r[2])
        BY <1>1, <1>2, <2>3, <3>2 DEF FedInv, AskedIsServed
      <4>. QED BY <2>1, <4>1 DEF Served
    <3>3. CASE r \in cut
      <4>1. r \in Sharing(s, f)
        BY <2>1, <2>3, <3>3
      <4>2. r[1] = s /\ TopicsOf(Source(r[2])) \cap TopicsOf(Source(f)) # {}
        BY <4>1 DEF Sharing, Source
      <4>3. PICK t : t \in TopicsOf(Source(r[2])) /\ t \in TopicsOf(Source(f))
        BY <4>2
      <4>4. \A u \in TopicsOf(Source(r[2])) : u = t
        BY <1>4, <4>3, OneTopic
      <4>. QED BY <2>1, <4>2, <4>3, <4>4 DEF At
    <3>. QED BY <3>1, <3>2, <3>3
  <2>4. \A g : TopicsOf(Source(g))' = TopicsOf(Source(g))
    BY <1>2 DEF TopicsOf, Source
  <2>5. AskedIsServed'
    BY <1>2, <2>2, <2>3, <2>4 DEF AskedIsServed, Served, At
  <2>. QED BY <1>3, <2>5 DEF FedInv
<1>. QED BY <1>5, <1>6

\* An unsubscription is handled: the topic of trades stays while an aggregator needs it.
LEMMA FedHandleUnsubscribe ==
  ASSUME RequestsOK, FedInv, HandleUnsubscribe
  PROVE  FedInv'
<1>1. PICK s \in Symbols, f \in menu :
        /\ Head(unsubscribes) = <<s, f>>
        /\ ToSet(unsubscribes) = {<<s, f>>} \cup ToSet(Tail(unsubscribes))
  <2>1. unsubscribes \in Seq(Symbols \X menu) /\ unsubscribes # <<>>
    BY DEF RequestsOK, HandleUnsubscribe
  <2>2. Head(unsubscribes) \in Symbols \X menu
        /\ ToSet(unsubscribes) = {Head(unsubscribes)} \cup ToSet(Tail(unsubscribes))
    BY <2>1, HeadOf
  <2>. QED BY <2>2
<1>2. /\ unsubscribes' = Tail(unsubscribes) /\ asked' = asked /\ turned' = turned
      /\ subscribes' = subscribes /\ subscriberAlive' = subscriberAlive /\ account' = account
      /\ IF Built(f) THEN UnsubscribeBuilt(s, f) ELSE UnsubscribeNative(s, f)
  BY <1>1 DEF HandleUnsubscribe, history
<1>3. TurnsAreKnown'
  BY <1>1, <1>2 DEF FedInv, TurnsAreKnown
<1>4. account \in AllAccounts
  BY FeedsAssumption DEF RequestsOK
<1>5. ASSUME NEW r \in asked, r \notin turned PROVE r # <<s, f>>
  BY <1>1, <1>5 DEF FedInv, TurnsAreKnown
<1>6. \/ topics' = topics /\ cut' = cut
      \/ /\ topics' = topics \ At(s, TopicsOf(Source(f)))
         /\ cut' = cut \cup (Sharing(s, f) \ {<<s, f>>})
  BY <1>2, <1>4, WayBack DEF UnsubscribeBuilt, UnsubscribeNative, Source
<1>7. ASSUME subscriberAlive, NEW r \in asked, r \notin ToSet(subscribes) \cup turned
      PROVE  /\ Built(r[2]) => r[2] \in ToSet(aggregators'[r[1]])
             /\ r \notin cut' => /\ TopicsOf(Source(r[2])) # {}
                                 /\ At(r[1], TopicsOf(Source(r[2]))) \subseteq topics'
  <2>1. /\ r # <<s, f>> /\ r[1] \in Symbols /\ r = <<r[1], r[2]>>
        /\ aggregators \in [Symbols -> Seq(menu)] /\ aggregators[r[1]] \in Seq(menu)
    BY <1>5, <1>7 DEF RequestsOK
  <2>2. /\ Built(r[2]) => r[2] \in ToSet(aggregators[r[1]])
        /\ r \notin cut => Served(r[1], r[2])
    BY <1>7 DEF FedInv, AskedIsServed
  <2>3. ASSUME Built(r[2]) PROVE r[2] \in ToSet(aggregators'[r[1]])
    <3>1. CASE aggregators'[r[1]] = aggregators[r[1]]
      BY <2>2, <2>3, <3>1
    <3>2. CASE aggregators'[r[1]] # aggregators[r[1]]
      <4>1. r[1] = s /\ aggregators'[s] = Without(aggregators[s], f)
        BY <1>2, <2>1, <3>2 DEF UnsubscribeBuilt, UnsubscribeNative
      <4>2. ToSet(Without(aggregators[s], f)) = ToSet(aggregators[s]) \ {f}
        BY <2>1, <4>1, WithoutFacts
      <4>3. r[2] # f
        BY <2>1, <4>1
      <4>. QED BY <2>2, <2>3, <4>1, <4>2, <4>3
    <3>. QED BY <3>1, <3>2
  <2>4. ASSUME r \notin cut'
        PROVE  /\ TopicsOf(Source(r[2])) # {}
               /\ At(r[1], TopicsOf(Source(r[2]))) \subseteq topics'
    <3>1. TopicsOf(Source(r[2])) # {} /\ At(r[1], TopicsOf(Source(r[2]))) \subseteq topics
      BY <1>6, <2>2, <2>4 DEF Served
    <3>2. CASE topics' = topics
      BY <3>1, <3>2
    <3>3. CASE /\ topics' = topics \ At(s, TopicsOf(Source(f)))
               /\ cut' = cut \cup (Sharing(s, f) \ {<<s, f>>})
      <4>1. r \notin Sharing(s, f)
        BY <2>1, <2>4, <3>3
      <4>2. ~ (r[1] = s /\ TopicsOf(Source(r[2])) \cap TopicsOf(Source(f)) # {})
        BY <4>1 DEF Sharing, Source
      <4>3. ASSUME NEW t \in TopicsOf(Source(r[2])) PROVE <<r[1], t>> \notin At(s, TopicsOf(Source(f)))
        <5>. SUFFICES ASSUME NEW u \in TopicsOf(Source(f)), <<r[1], t>> = <<s, u>> PROVE FALSE
          BY DEF At
        <5>1. r[1] = s /\ t = u
          BY PairsEqual
        <5>. QED BY <4>2, <5>1
      <4>. QED BY <3>1, <3>3, <4>3 DEF At
    <3>. QED BY <1>6, <3>2, <3>3
  <2>. QED BY <2>3, <2>4
<1>8. \A g : TopicsOf(Source(g))' = TopicsOf(Source(g))
  BY <1>2 DEF TopicsOf, Source
<1>9. AskedIsServed'
  BY <1>2, <1>7, <1>8 DEF AskedIsServed, Served, At
<1>. QED BY <1>3, <1>9 DEF FedInv

\* Every step keeps each feed on its topic.
LEMMA FedStep ==
  ASSUME RequestsOK, FedInv, [Next]_vars
  PROVE  FedInv'
<1>1. CASE \/ \E st \in topics : Deliver(st[1], st[2])
           \/ \E s \in Symbols : BuildBar(s)
           \/ Reconnect \/ AskReady \/ \E i \in DOMAIN gates : Expire(i)
           \/ UNCHANGED vars
  <2>1. UNCHANGED <<account, subscriberAlive, subscribes, unsubscribes, topics, aggregators,
                    asked, turned, cut>>
    BY <1>1 DEF Deliver, BuildBar, Reconnect, AskReady, Expire, vars, queues, connector, history
  <2>. QED BY <2>1
       DEF FedInv, TurnsAreKnown, AskedIsServed, Served, TopicsOf, Source, At
<1>. QED BY <1>1, FedAsk, FedHandleSubscribe, FedHandleUnsubscribe DEF Next

-----------------------------------------------------------------------------
(* The book of Bybit.                                                       *)

BookInv == BookOK /\ LocalBookIsVenues

\* A snapshot replaces the book, but for a side it has nothing of.
LEMMA SnapshotFacts ==
  ASSUME NEW local \in Books, NEW data \in Books
  PROVE  /\ Snapshot(local, data) \in Books
         /\ ~ (\E side \in Sides : data[side] = {} /\ local[side] # {})
            => Snapshot(local, data) = data
BY DEF Snapshot, Books

\* A delta leaves a book.
LEMMA DeltaFacts ==
  ASSUME NEW local \in Books, NEW side \in Sides, NEW price \in BookPrices, NEW gone \in BOOLEAN
  PROVE  Delta(local, side, price, gone) \in Books
BY DEF Delta, Books

\* Every step keeps the book of its type and true.
LEMMA BookKept == BookInv /\ [Next]_vars => BookInv'
<1>. SUFFICES ASSUME BookInv, [Next]_vars PROVE BookInv'
  OBVIOUS
<1>1. /\ book \in [venue : Books, local : Books, synced : BOOLEAN, leftover : BOOLEAN]
      /\ book.venue \in Books /\ book.local \in Books
      /\ (book.synced /\ ~ book.leftover => book.local = book.venue)
  BY DEF BookInv, BookOK, LocalBookIsVenues
<1>. USE DEF BookInv, BookOK, LocalBookIsVenues
<1>2. CASE BookMessage
  <2>1. ASSUME NEW data \in Books,
               book' = [venue |-> data, local |-> Snapshot(book.local, data), synced |-> TRUE,
                        leftover |-> \E side \in Sides : data[side] = {} /\ book.local[side] # {}]
        PROVE  BookInv'
    <3>. DEFINE leftover == \E side \in Sides : data[side] = {} /\ book.local[side] # {}
    <3>1. /\ Snapshot(book.local, data) \in Books
          /\ ~ leftover => Snapshot(book.local, data) = data
      BY <1>1, SnapshotFacts
    <3>2. /\ book' = [venue |-> data, local |-> Snapshot(book.local, data), synced |-> TRUE,
                     leftover |-> leftover]
          /\ leftover \in BOOLEAN
      BY <2>1
    <3>. HIDE DEF leftover
    <3>. QED BY <3>1, <3>2
  <2>2. ASSUME NEW side \in Sides, NEW price \in BookPrices, NEW gone \in BOOLEAN, book.synced,
               book' = [book EXCEPT !.venue = Delta(@, side, price, gone),
                                    !.local = Delta(@, side, price, gone)]
        PROVE  BookInv'
    <3>1. /\ Delta(book.venue, side, price, gone) \in Books
          /\ Delta(book.local, side, price, gone) \in Books
      BY <1>1, DeltaFacts
    <3>2. /\ book'.venue = Delta(book.venue, side, price, gone)
          /\ book'.local = Delta(book.local, side, price, gone)
          /\ book'.synced = book.synced /\ book'.leftover = book.leftover
          /\ book' = [venue |-> book'.venue, local |-> book'.local, synced |-> book'.synced,
                      leftover |-> book'.leftover]
      BY <1>1, <2>2
    <3>. QED BY <1>1, <2>2, <3>1, <3>2
  <2>3. CASE ~ book.synced
    BY <1>2, <2>1, <2>3 DEF BookMessage, Books
  <2>4. CASE book.synced
    <3>1. PICK side \in Sides, price \in BookPrices :
            book' = [book EXCEPT !.venue = Delta(@, side, price, price \in book.venue[side]),
                                 !.local = Delta(@, side, price, price \in book.venue[side])]
      BY <1>2, <2>4 DEF BookMessage
    <3>2. (price \in book.venue[side]) \in BOOLEAN
      OBVIOUS
    <3>. QED BY <2>2, <2>4, <3>1, <3>2
  <2>. QED BY <2>3, <2>4
<1>3. CASE HandleUnsubscribe \/ Reconnect
  <2>1. PICK synced \in BOOLEAN :
          book' = [book EXCEPT !.synced = synced] /\ (synced => book.synced)
    <3>1. CASE HandleUnsubscribe
      <4>1. (book.synced /\ topics' = topics) \in BOOLEAN
        OBVIOUS
      <4>. QED BY <3>1, <4>1 DEF HandleUnsubscribe
    <3>2. CASE Reconnect
      BY <3>2 DEF Reconnect
    <3>. QED BY <1>3, <3>1, <3>2
  <2>2. /\ book'.venue = book.venue /\ book'.local = book.local
        /\ book'.leftover = book.leftover /\ (book'.synced => book.synced)
        /\ book' \in [venue : Books, local : Books, synced : BOOLEAN, leftover : BOOLEAN]
    BY <1>1, <2>1
  <2>. QED BY <1>1, <2>2
<1>4. CASE book' = book
  BY <1>1, <1>4
<1>5. [Next]_vars => BookMessage \/ HandleUnsubscribe \/ Reconnect \/ book' = book
  BY DEF Next, AskSubscribe, AskUnsubscribe, HandleSubscribe, Deliver, BuildBar, AskReady, Expire,
     vars
<1>. QED BY <1>2, <1>3, <1>4, <1>5

-----------------------------------------------------------------------------
(* The theorems.                                                            *)

\* The invariant of the requests and the gates.
THEOREM GatesInvariant == Spec => []GatesInv
<1>1. Init => GatesInv
  <2>. SUFFICES ASSUME Init PROVE GatesInv
    OBVIOUS
  <2>. USE DEF Init
  <2>1. gates \in Seq(Gates) /\ DOMAIN gates = {}
    OBVIOUS
  <2>2. subscribes \in Seq(Symbols \X menu) /\ unsubscribes \in Seq(Symbols \X menu)
    OBVIOUS
  <2>3. aggregators \in [Symbols -> Seq(menu)]
    <3>1. <<>> \in Seq(menu)
      OBVIOUS
    <3>. QED BY <3>1
  <2>4. RequestsOK
    BY <2>2, <2>3 DEF RequestsOK
  <2>. QED BY <2>1, <2>4 DEF GatesInv, GatesOK, AskedAreAdmitted
<1>2. GatesInv /\ [Next]_vars => GatesInv'
  BY RequestsKept, GatesStep DEF GatesInv
<1>. QED BY <1>1, <1>2, PTL DEF Spec

\* A strategy that waits for its data and sees ready finds in the cache
\* whatever it was given: the gates of all its requests have heard it.
THEOREM ReadyIsTrue == Spec => []ReadyMeansCached
<1>1. GatesInv => ReadyMeansCached
  <2>. SUFFICES ASSUME GatesInv, tracked, subscriberAlive,
                       \A i \in DOMAIN gates : Ready(gates[i]) /\ ~ gates[i].late,
                       NEW r \in asked, r \notin ToSet(subscribes), r[2] # Trades
                PROVE  <<r[1], Event(r[2])>> \in cached
    BY DEF ReadyMeansCached
  <2>1. r[1] \in Symbols /\ r[2] \in menu
    BY DEF GatesInv, RequestsOK
  <2>2. PICK i \in DOMAIN gates :
          gates[i].key = GateOf(r[1], Event(r[2])) /\ r[1] \in DOMAIN gates[i].heard
    BY DEF GatesInv, AskedAreAdmitted, Admitted
  <2>3. GateSound(gates[i], cached)
    BY DEF GatesInv, GatesOK
  <2>4. gates[i].heard[r[1]]
    BY <2>2, <2>3 DEF GateSound, Ready, AllHeard
  <2>5. PICK e \in Published : <<r[1], e>> \in cached /\ GateOf(r[1], e) = gates[i].key
    BY <2>2, <2>3, <2>4 DEF GateSound, CachedIn
  <2>6. Event(r[2]) \in Published
    BY <2>1, FeedFacts DEF GatesInv
  <2>7. e = Event(r[2])
    BY <2>1, <2>2, <2>5, <2>6, GateFacts
  <2>. QED BY <2>5, <2>7
<1>. QED BY <1>1, GatesInvariant, PTL

\* The book the connector keeps of Bybit's messages is the venue's, through
\* any number of changes, reconnections and snapshots, but for the levels a
\* snapshot with an empty side leaves over.
THEOREM LocalBookIsTrue == Spec => []LocalBookIsVenues
<1>1. Init => BookInv
  BY DEF Init, BookInv, BookOK, LocalBookIsVenues, Books, Sides
<1>2. BookInv => LocalBookIsVenues
  BY DEF BookInv
<1>. QED BY <1>1, <1>2, BookKept, PTL DEF Spec

\* The trades of a symbol stay while one of its aggregators is left, and a new
\* aggregator always finds them.
THEOREM TradesStay == Spec => KlineRequestsKeepTrades
<1>. DEFINE Keep == \A s \in Symbols : aggregators'[s] # aggregators[s] /\ aggregators'[s] # <<>> =>
                      (At(s, TopicsOf(Trades)) \subseteq topics' <=>
                         \/ At(s, TopicsOf(Trades)) \subseteq topics
                         \/ Len(aggregators'[s]) > Len(aggregators[s]))
<1>1. RequestsOK /\ [Next]_vars => [Keep]_vars
  <2>. SUFFICES ASSUME RequestsOK, Next,
                       NEW x \in Symbols, aggregators'[x] # aggregators[x], aggregators'[x] # <<>>
                PROVE  At(x, TopicsOf(Trades)) \subseteq topics' <=>
                         \/ At(x, TopicsOf(Trades)) \subseteq topics
                         \/ Len(aggregators'[x]) > Len(aggregators[x])
    OBVIOUS
  <2>1. aggregators \in [Symbols -> Seq(menu)]
    BY DEF RequestsOK
  <2>2. CASE HandleSubscribe
    <3>1. PICK s, f : IF Built(f) THEN SubscribeBuilt(s, f) ELSE SubscribeNative(s, f)
      BY <2>2 DEF HandleSubscribe
    <3>2. SubscribeBuilt(s, f)
      BY <3>1 DEF SubscribeNative
    <3>3. /\ aggregators' = [aggregators EXCEPT ![s] = Append(@, f)]
          /\ topics' = topics \cup At(s, TopicsOf(Trades))
      BY <3>2 DEF SubscribeBuilt
    <3>4. x = s /\ aggregators'[x] = Append(aggregators[x], f)
      BY <2>1, <3>3
    <3>5. Len(Append(aggregators[x], f)) = Len(aggregators[x]) + 1 /\ Len(aggregators[x]) \in Nat
      BY <2>1
    <3>. QED BY <3>3, <3>4, <3>5
  <2>3. CASE HandleUnsubscribe
    <3>1. PICK s, f : IF Built(f) THEN UnsubscribeBuilt(s, f) ELSE UnsubscribeNative(s, f)
      BY <2>3 DEF HandleUnsubscribe
    <3>2. UnsubscribeBuilt(s, f)
      BY <3>1 DEF UnsubscribeNative
    <3>. DEFINE left == Without(aggregators[s], f)
    <3>3. /\ aggregators' = [aggregators EXCEPT ![s] = left]
          /\ left # <<>> => topics' = topics
      BY <3>2 DEF UnsubscribeBuilt
    <3>4. aggregators[x] \in Seq(menu)
      BY <2>1
    <3>. HIDE DEF left
    <3>5. x = s /\ aggregators'[x] = left
      BY <2>1, <3>3
    <3>6. left \in Seq(menu) /\ Len(left) <= Len(aggregators[x])
      BY <3>4, <3>5, WithoutFacts DEF left
    <3>7. Len(left) \in Nat /\ Len(aggregators[x]) \in Nat
      BY <3>4, <3>6
    <3>. QED BY <3>3, <3>5, <3>6, <3>7
  <2>. QED BY <2>2, <2>3
       DEF Next, AskSubscribe, AskUnsubscribe, Deliver, BuildBar, Reconnect, AskReady, Expire,
           connector
<1>2. GatesInv => RequestsOK
  BY DEF GatesInv
<1>. QED BY <1>1, <1>2, GatesInvariant, PTL DEF Spec, KlineRequestsKeepTrades

\* While the subscribing task lives no message meets a handler of the strategy
\* without its gate, except one whose request still waits.
THEOREM NoEventIsLost == Spec => []NoEventWithoutGate
<1>1. Init => ListenInv
  BY DEF Init, ListenInv, HandledOK, KlinesOK
<1>2. GatesInv /\ ListenInv /\ [Next]_vars => ListenInv'
  BY ListenStep
<1>3. GatesInv /\ ListenInv => NoEventWithoutGate
  <2>. SUFFICES ASSUME GatesInv, ListenInv, subscriberAlive, NEW st \in topics,
                       NEW e \in ToSet(EventsOf(st[2])), e.data \in handled
                PROVE  \/ HasGate(GateOf(st[1], e))
                       \/ \E r \in ToSet(subscribes) : Event(r[2]).data = e.data
    BY DEF NoEventWithoutGate
  <2>1. e \in Events
    <3>1. account \in AllAccounts
      BY FeedsAssumption DEF GatesInv, RequestsOK
    <3>. QED BY <3>1, EventsAreTyped DEF ToSet
  <2>2. CASE e.data = "kline"
    BY <2>2 DEF ListenInv, KlinesOK
  <2>3. CASE e.data # "kline"
    <3>1. GateOf(st[1], e) = <<e.data, "none">>
      BY <2>1, <2>3 DEF GateOf, Events, Feed
    <3>. QED BY <2>3, <3>1 DEF ListenInv, HandledOK
  <2>. QED BY <2>2, <2>3
<1>. QED BY <1>1, <1>2, <1>3, GatesInvariant, PTL DEF Spec

\* Once the queues are served, what the strategy asks for is what it is sent:
\* the topic of the request is subscribed and its messages become that event,
\* on every venue.
THEOREM AskedFeedsArrive == Spec => []AskedIsFed
<1>1. Init => FedInv
  BY DEF Init, FedInv, TurnsAreKnown, AskedIsServed
<1>2. GatesInv /\ FedInv /\ [Next]_vars => FedInv'
  BY FedStep DEF GatesInv
<1>3. GatesInv /\ FedInv => AskedIsFed
  <2>. SUFFICES ASSUME GatesInv, FedInv, Quiet, NEW r \in asked \ (turned \cup cut)
                PROVE  \/ Deaf(r[2])
                       \/ IF Built(r[2])
                          THEN /\ r[2] \in ToSet(aggregators[r[1]])
                               /\ \E t \in TopicsOf(Trades) : <<r[1], t>> \in topics
                          ELSE \E st \in topics :
                                 st[1] = r[1] /\ Event(r[2]) \in ToSet(EventsOf(st[2]))
    BY DEF AskedIsFed
  <2>1. ToSet(subscribes) = {} /\ subscriberAlive
    BY DEF Quiet, ToSet
  <2>2. (Built(r[2]) => r[2] \in ToSet(aggregators[r[1]])) /\ Served(r[1], r[2])
    BY <2>1 DEF FedInv, AskedIsServed
  <2>3. PICK t \in TopicsOf(Source(r[2])) : <<r[1], t>> \in topics
    BY <2>2 DEF Served, At
  <2>4. CASE Built(r[2])
    BY <2>2, <2>3, <2>4 DEF Source
  <2>5. CASE ~ Built(r[2])
    <3>1. account \in AllAccounts /\ t \in TopicsOf(r[2])
      BY <2>3, <2>5, FeedsAssumption DEF GatesInv, RequestsOK, Source
    <3>2. Deaf(r[2]) \/ Event(r[2]) \in ToSet(EventsOf(t))
      BY <3>1, TopicFeeds
    <3>. DEFINE st == <<r[1], t>>
    <3>3. st \in topics /\ st[1] = r[1] /\ st[2] = t
      BY <2>3
    <3>. HIDE DEF st
    <3>. QED BY <2>5, <3>2, <3>3
  <2>. QED BY <2>4, <2>5
<1>. QED BY <1>1, <1>2, <1>3, GatesInvariant, PTL DEF Spec
=============================================================================
