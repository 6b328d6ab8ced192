------------------------------- MODULE Feeds -------------------------------
(***************************************************************************)
(* Market data from the venue to the strategy, on one account: the         *)
(* requests and their two queues (base/sms.py), the topics and aggregators *)
(* of the connector, the cache, the readiness gates (core/entity.py) and   *)
(* the strategy's handlers.  FeedTopics has the tables of the venues.      *)
(*                                                                         *)
(* A message is published event by event: the cache hears each one first,  *)
(* the aggregators next, the strategy last; an exception in the strategy's *)
(* handler leaves the rest of the message unpublished.                     *)
(***************************************************************************)
EXTENDS FeedTopics, FiniteSets, Naturals, SequencesExt

CONSTANTS
  Symbols,
  Accounts,       \* pairs of a venue and a market
  Menus,          \* sets of feeds: a behaviour asks for those of one of them
  MaxRequests,    \* bound: requests of a behaviour
  BookPrices      \* prices of the local book of Bybit

AllAccounts == {"binance", "okx", "bybit", "bitget", "hyperliquid"} \X {"spot", "linear"}
Intervals == {p[1] : p \in BinanceWords}
Built(f) == f.data \in {"built_kline", "volume_kline"}

ASSUME FeedsAssumption ==
  /\ Accounts \subseteq AllAccounts
  /\ MaxRequests \in Nat
  /\ \A menu \in Menus : \A f \in menu :
       /\ f = Feed(f.data, f.detail)
       /\ \/ f.data = "volume_kline"
          \/ f.data \in {"kline", "built_kline"} /\ f.detail \in Intervals
          \/ f.data \in {"trade", "bookl1"} \cup Prices /\ f.detail = "none"
          \/ f.data = "bookl2" /\ f.detail \in Levels

VARIABLES
  account, menu,
  tracked,        \* FALSE: the strategy asks with ready=True, its gates are born open
  handled,        \* topics of the message bus the strategy listens to
  subscribes, unsubscribes,            \* the queues of the SMS
  subscriberAlive, unsubscriberAlive,  \* FALSE: the handler has raised
  topics,         \* <<symbol, topic>> the connector is subscribed to
  aggregators,    \* connector._aggregators
  gates,          \* _subscriptions_ready, in the order of their making
  cached,         \* <<symbol, event>> the cache holds
  book,           \* Bybit's local book of a symbol, and what the venue has
  asked,          \* requests the strategy has made and not taken back
  turned,         \* requests turned around while they were queued
  cut,            \* requests whose topic went with the unsubscription of another
  requests

queues == <<subscribes, unsubscribes, subscriberAlive, unsubscriberAlive>>
connector == <<topics, aggregators>>
history == <<asked, turned, requests>>
vars == <<account, menu, tracked, handled, queues, connector, gates, cached, book,
          history, cut>>

-----------------------------------------------------------------------------
(* The tables of the account.                                               *)

SubscribeTable == [a \in AllAccounts |->
  CASE a[1] = "binance" -> Compose(BinanceSubscribes, BinanceStreams(a[2]))
    [] a[1] = "okx"     -> Compose(OkxSubscribes, OkxChannels)
    [] a[1] = "bybit"   -> Compose(BybitSubscribes, BybitTopics)
    [] a[1] = "bitget"  -> Compose(BitgetSubscribes, BitgetTopics)
    [] OTHER            -> Compose(HyperliquidSubscribes, HyperliquidTopics)]

UnsubscribeTable == [a \in AllAccounts |->
  CASE a[1] = "binance" -> Compose(BinanceUnsubscribes, BinanceUnstreams(a[2]))
    [] a[1] = "okx"     -> Compose(OkxUnsubscribes, OkxUnchannels)
    [] a[1] = "bybit"   -> Compose(BybitSubscribes, BybitUntopics)
    [] a[1] = "bitget"  -> Compose(BitgetSubscribes, BitgetTopics)
    [] OTHER            -> Compose(HyperliquidSubscribes, HyperliquidTopics)]

EventTable == [a \in AllAccounts |->
  CASE a[1] = "binance" -> BinanceEvents
    [] a[1] = "okx"     -> OkxEvents
    [] a[1] = "bybit"   -> BybitEvents(a[2])
    [] a[1] = "bitget"  -> BitgetEvents
    [] OTHER            -> HyperliquidEvents]

\* At most one topic, none where the call raises.
TopicsOf(f)   == {row[2] : row \in {r \in SubscribeTable[account] : r[1] = f}}
UntopicsOf(f) == {row[2] : row \in {r \in UnsubscribeTable[account] : r[1] = f}}

\* The events of a message, those of its row, none where the handler knows no
\* such topic.
EventsOf(t) ==
  LET rows == {r \in EventTable[account] : r[1] = t}
  IN  IF rows = {} THEN <<>> ELSE (CHOOSE r \in rows : TRUE)[2]

Trades == Plain("trade")
At(s, ts) == {<<s, t>> : t \in ts}

\* The event a feed is asked for, the topic of the bus it comes on, and the
\* gate it is given to: an interval's, a symbol's, or that of its kind.
Event(f) == IF f.data = "built_kline" THEN Feed("kline", f.detail)
            ELSE IF f.data = "volume_kline" THEN Feed("kline", "volume")
            ELSE IF f.data = "bookl2" THEN Plain("bookl2") ELSE f
GateOf(s, e) == IF e = Feed("kline", "volume") THEN <<"symbol", s>> ELSE <<e.data, e.detail>>

-----------------------------------------------------------------------------
(* The gates: DataReady.                                                    *)

NewGate(key, s) ==
  [key |-> key, heard |-> [x \in {s} |-> FALSE], open |-> ~ tracked,
   started |-> FALSE, late |-> FALSE]

\* With a symbol more, not heard of yet.
Joined(heard, s) == [x \in DOMAIN heard \cup {s} |-> x # s /\ heard[x]]

\* Mutant: a gate that is open stays so for a symbol added later.
AddSymbolKeepsOpen(g, s) ==
  IF s \in DOMAIN g.heard THEN g ELSE [g EXCEPT !.heard = Joined(@, s)]

AddSymbol(g, s) ==
  IF s \in DOMAIN g.heard THEN g
  ELSE [g EXCEPT !.heard = Joined(@, s), !.open = FALSE]

AllHeard(g) == \A s \in DOMAIN g.heard : g.heard[s]

Input(g, s) ==
  LET told == [g EXCEPT !.started = TRUE,
                        !.heard = [x \in DOMAIN @ |-> @[x] \/ x = s]]
  IN  IF g.open THEN g ELSE [told EXCEPT !.open = AllHeard(told)]

Ready(g) == g.open \/ (g.started /\ (AllHeard(g) \/ g.late))

HasGate(key) == \E i \in DOMAIN gates : gates[i].key = key

\* What a request makes of the gates.  The gate of the trades never learns of
\* the symbols of a second request.
GatesWith(s, f) ==
  LET key == GateOf(s, Event(f))
  IN  IF ~ HasGate(key) THEN Append(gates, NewGate(key, s))
      ELSE IF f = Trades THEN gates
      ELSE [i \in DOMAIN gates |-> IF gates[i].key = key THEN AddSymbol(gates[i], s)
                                   ELSE gates[i]]

-----------------------------------------------------------------------------
Init ==
  /\ account \in Accounts /\ menu \in Menus /\ tracked \in BOOLEAN
  /\ handled = {} /\ subscribes = <<>> /\ unsubscribes = <<>>
  /\ subscriberAlive = TRUE /\ unsubscriberAlive = TRUE
  /\ topics = {} /\ aggregators = [s \in Symbols |-> <<>>]
  /\ gates = <<>> /\ cached = {}
  /\ book = [venue |-> [bids |-> {}, asks |-> {}], local |-> [bids |-> {}, asks |-> {}],
             synced |-> FALSE, leftover |-> FALSE]
  /\ asked = {} /\ turned = {} /\ cut = {} /\ requests = 0

\* The strategy's subscribe_*: its handler is on the bus at once, the request
\* goes to a queue.
AskSubscribe(s, f) ==
  /\ requests < MaxRequests
  /\ requests' = requests + 1
  /\ handled' = handled \cup {Event(f).data}
  /\ subscribes' = Append(subscribes, <<s, f>>)
  /\ asked' = asked \cup {<<s, f>>}
  /\ turned' = turned \cup ({<<s, f>>} \cap ToSet(unsubscribes))
  /\ UNCHANGED <<account, menu, tracked, unsubscribes, subscriberAlive, unsubscriberAlive,
                 connector, gates, cached, book, cut>>

\* Its unsubscribe_*: the handler stays on the bus.
AskUnsubscribe(s, f) ==
  /\ requests < MaxRequests
  /\ <<s, f>> \in asked
  /\ requests' = requests + 1
  /\ unsubscribes' = Append(unsubscribes, <<s, f>>)
  /\ asked' = asked \ {<<s, f>>}
  /\ turned' = turned \cup ({<<s, f>>} \cap ToSet(subscribes))
  /\ UNCHANGED <<account, menu, tracked, handled, subscribes, subscriberAlive,
                 unsubscriberAlive, connector, gates, cached, book, cut>>

\* Requests that the topics of this one serve too.
Sharing(s, f) ==
  {r \in asked : r[1] = s /\
     (IF Built(r[2]) THEN TopicsOf(Trades) ELSE TopicsOf(r[2])) \cap
     (IF Built(f) THEN TopicsOf(Trades) ELSE TopicsOf(f)) # {}}

\* A native feed: a refused one raises before anything is done.
SubscribeNative(s, f) ==
  /\ aggregators' = aggregators
  /\ IF TopicsOf(f) = {}
     THEN subscriberAlive' = FALSE /\ UNCHANGED <<topics, gates, cut>>
     ELSE /\ topics' = topics \cup At(s, TopicsOf(f))
          /\ gates' = GatesWith(s, f)
          /\ cut' = cut \ Sharing(s, f)
          /\ UNCHANGED subscriberAlive

\* A built kline: the trades, then the aggregator, a second like it too, then
\* the gate.  A second volume kline of a symbol raises at the gate.
SubscribeBuilt(s, f) ==
  /\ topics' = topics \cup At(s, TopicsOf(Trades))
  /\ aggregators' = [aggregators EXCEPT ![s] = Append(@, f)]
  /\ cut' = cut \ Sharing(s, f)
  /\ IF f.data = "volume_kline" /\ HasGate(<<"symbol", s>>)
     THEN subscriberAlive' = FALSE /\ UNCHANGED gates
     ELSE gates' = GatesWith(s, f) /\ UNCHANGED subscriberAlive

HandleSubscribe ==
  /\ subscriberAlive /\ subscribes # <<>>
  /\ LET s == Head(subscribes)[1]  f == Head(subscribes)[2]
     IN  IF Built(f) THEN SubscribeBuilt(s, f) ELSE SubscribeNative(s, f)
  /\ subscribes' = Tail(subscribes)
  /\ UNCHANGED <<account, menu, tracked, handled, unsubscribes, unsubscriberAlive,
                 cached, book, history>>

UnsubscribeNative(s, f) ==
  /\ aggregators' = aggregators
  /\ topics' = topics \ At(s, UntopicsOf(f))
  /\ unsubscriberAlive' = (UntopicsOf(f) # {})
  /\ cut' = cut \cup (Sharing(s, f) \ {<<s, f>>})

\* Aggregators but those of a request.
Without(list, f) ==
  FoldLeft(LAMBDA kept, a : IF a = f THEN kept ELSE Append(kept, a), <<>>, list)

\* Mutant: the trades go with the first aggregator that is removed.
UnsubscribeBuiltAndTrades(s, f) ==
  /\ aggregators' = [aggregators EXCEPT ![s] = Without(@, f)]
  /\ topics' = topics \ At(s, UntopicsOf(Trades))
  /\ cut' = cut \cup (Sharing(s, f) \ {<<s, f>>})
  /\ UNCHANGED unsubscriberAlive

\* With no aggregator left the trades are unsubscribed, whoever else uses them.
UnsubscribeBuilt(s, f) ==
  LET left == Without(aggregators[s], f)
  IN  /\ aggregators' = [aggregators EXCEPT ![s] = left]
      /\ topics' = IF left = <<>> THEN topics \ At(s, UntopicsOf(Trades)) ELSE topics
      /\ cut' = IF left = <<>> THEN cut \cup (Sharing(s, f) \ {<<s, f>>}) ELSE cut
      /\ UNCHANGED unsubscriberAlive

\* Mutant: an unsubscription takes the gate of its feed away.
HandleUnsubscribeDropsGate ==
  /\ unsubscriberAlive /\ unsubscribes # <<>>
  /\ LET s == Head(unsubscribes)[1]  f == Head(unsubscribes)[2]
     IN  /\ IF Built(f) THEN UnsubscribeBuilt(s, f) ELSE UnsubscribeNative(s, f)
         /\ gates' = SelectSeq(gates, LAMBDA g : g.key # GateOf(s, Event(f)))
  /\ unsubscribes' = Tail(unsubscribes)
  /\ book' = [book EXCEPT !.synced = @ /\ topics' = topics]
  /\ UNCHANGED <<account, menu, tracked, handled, subscribes, subscriberAlive,
                 cached, history>>

HandleUnsubscribe ==
  /\ unsubscriberAlive /\ unsubscribes # <<>>
  /\ LET s == Head(unsubscribes)[1]  f == Head(unsubscribes)[2]
     IN  IF Built(f) THEN UnsubscribeBuilt(s, f) ELSE UnsubscribeNative(s, f)
  /\ unsubscribes' = Tail(unsubscribes)
  /\ book' = [book EXCEPT !.synced = @ /\ topics' = topics]
  /\ UNCHANGED <<account, menu, tracked, handled, subscribes, subscriberAlive,
                 gates, cached, history>>

-----------------------------------------------------------------------------
(* Publishing.                                                              *)

\* How far a sequence of events gets: an event the strategy listens to and has
\* no gate for raises in its handler.
Reach(s, events) ==
  LET deaf == {i \in DOMAIN events : events[i].data \in handled /\ ~ HasGate(GateOf(s, events[i]))}
  IN  IF deaf = {} THEN Len(events) + 1 ELSE Min(deaf)

Publish(s, events) ==
  LET reach == Reach(s, events)
      given == {GateOf(s, events[i]) : i \in {j \in DOMAIN events : j < reach /\ events[j].data \in handled}}
  IN  /\ cached' = cached \cup {<<s, events[i]>> : i \in {j \in DOMAIN events : j <= reach}}
      /\ gates' = [i \in DOMAIN gates |->
                     IF gates[i].key \in given THEN Input(gates[i], s) ELSE gates[i]]

\* Bybit's order book, followed in the behaviours that ask for nothing else.
\* A snapshot clears the sides it has levels for.
BookTopic == <<"orderbook", "50">>
Sides == {"bids", "asks"}
FollowsBook == account[1] = "bybit" /\ menu = {Feed("bookl2", "50")}

\* Mutant: a snapshot is merged into what is there.
SnapshotMerges(local, data) == [side \in Sides |-> local[side] \cup data[side]]

Snapshot(local, data) ==
  [side \in Sides |-> IF data[side] = {} THEN local[side] ELSE data[side]]

Delta(local, side, price, gone) ==
  [local EXCEPT ![side] = IF gone THEN @ \ {price} ELSE @ \cup {price}]

BookMessage ==
  \/ /\ ~ book.synced
     /\ \E data \in [Sides -> SUBSET BookPrices] :
          book' = [venue |-> data, local |-> Snapshot(book.local, data), synced |-> TRUE,
                   leftover |-> \E side \in Sides : data[side] = {} /\ book.local[side] # {}]
  \/ /\ book.synced
     /\ \E side \in Sides, price \in BookPrices :
          LET gone == price \in book.venue[side]
          IN  book' = [book EXCEPT !.venue = Delta(@, side, price, gone),
                                   !.local = Delta(@, side, price, gone)]

\* A message of a topic; a trade may fill volume klines, which are published
\* before the strategy hears the trade.
Deliver(s, t) ==
  /\ <<s, t>> \in topics
  /\ \E full \in SUBSET (IF Trades \in ToSet(EventsOf(t))
                         THEN {a \in ToSet(aggregators[s]) : a.data = "volume_kline"} ELSE {}) :
       Publish(s, [i \in 1 .. Cardinality(full) |-> Feed("kline", "volume")] \o EventsOf(t))
  /\ IF FollowsBook /\ t = BookTopic THEN BookMessage ELSE UNCHANGED book
  /\ UNCHANGED <<account, menu, tracked, handled, queues, connector, history, cut>>

\* The timer of a time aggregator, once the symbol has been traded.
BuildBar(s) ==
  /\ <<s, Trades>> \in cached
  /\ \E a \in ToSet(aggregators[s]) : a.data = "built_kline" /\ Publish(s, <<Event(a)>>)
  /\ UNCHANGED <<account, menu, tracked, handled, queues, connector, book, history, cut>>

\* The connection comes back: the client subscribes again, Bybit sends a
\* snapshot first.
Reconnect ==
  /\ FollowsBook /\ book.synced
  /\ book' = [book EXCEPT !.synced = FALSE]
  /\ UNCHANGED <<account, menu, tracked, handled, queues, connector, gates, cached,
                 history, cut>>

\* The timeout of a gate runs from its first data.
Expire(i) ==
  /\ gates[i].started /\ ~ gates[i].late
  /\ gates' = [gates EXCEPT ![i].late = TRUE]
  /\ UNCHANGED <<account, menu, tracked, handled, queues, connector, cached, book,
                 history, cut>>

\* The strategy reads ready: all() stops at the first gate that is not, and
\* the ones before it stay open.
AskReady ==
  /\ gates' = [i \in DOMAIN gates |->
       [gates[i] EXCEPT !.open = @ \/ \A j \in 1 .. i : Ready(gates[j])]]
  /\ gates' # gates
  /\ UNCHANGED <<account, menu, tracked, handled, queues, connector, cached, book,
                 history, cut>>

Next ==
  \/ \E s \in Symbols, f \in menu : AskSubscribe(s, f) \/ AskUnsubscribe(s, f)
  \/ HandleSubscribe \/ HandleUnsubscribe
  \/ \E st \in topics : Deliver(st[1], st[2])
  \/ \E s \in Symbols : BuildBar(s)
  \/ Reconnect \/ AskReady
  \/ \E i \in DOMAIN gates : Expire(i)

Spec == Init /\ [][Next]_vars

-----------------------------------------------------------------------------
(* Properties.                                                              *)

\* Both queues are served and neither handler has raised.
Quiet == subscribes = <<>> /\ unsubscribes = <<>> /\ subscriberAlive /\ unsubscriberAlive

\* Feeds that are accepted and never published: OKX's index price, whose
\* messages the handler does not know, and the prices of a spot ticker.
Deaf(f) == \/ account[1] = "okx" /\ f = Plain("index_price")
           \/ account = <<"bybit", "spot">> /\ f.data \in Prices

\* Whatever a strategy has asked for and not taken back, it is sent: the topic
\* is subscribed and its messages become that event.  Left out are the feeds
\* above, a request turned around in the queues, and one whose shared topic
\* another unsubscription took away.
AskedIsFed ==
  Quiet => \A r \in asked \ (turned \cup cut) :
    \/ Deaf(r[2])
    \/ IF Built(r[2])
       THEN /\ r[2] \in ToSet(aggregators[r[1]])
            /\ \E t \in TopicsOf(Trades) : <<r[1], t>> \in topics
       ELSE \E st \in topics : st[1] = r[1] /\ Event(r[2]) \in ToSet(EventsOf(st[2]))

\* No event of a subscribed topic meets a handler of the strategy without its
\* gate, which would raise and lose the rest of the message, but while the
\* request for it waits or after the subscribing task has died.
NoEventWithoutGate ==
  subscriberAlive =>
    \A st \in topics : \A e \in ToSet(EventsOf(st[2])) :
      \/ e.data \notin handled
      \/ HasGate(GateOf(st[1], e))
      \/ \E r \in ToSet(subscribes) : Event(r[2]).data = e.data

\* When a strategy that waits for its data sees ready, the cache has the data
\* of every feed and symbol it was given: no None.  Left out are a gate whose
\* time has run out, and the later symbols of the trades.
ReadyMeansCached ==
  /\ tracked /\ subscriberAlive
  /\ \A i \in DOMAIN gates : Ready(gates[i]) /\ ~ gates[i].late
  => \A r \in asked \ ToSet(subscribes) :
       r[2] = Trades \/ <<r[1], Event(r[2])>> \in cached

\* A request for a built kline takes the trades away only with the last
\* aggregator of the symbol, and a new aggregator always finds them.
KlineRequestsKeepTrades ==
  [][\A s \in Symbols : aggregators'[s] # aggregators[s] /\ aggregators'[s] # <<>> =>
       (At(s, TopicsOf(Trades)) \subseteq topics' <=>
          \/ At(s, TopicsOf(Trades)) \subseteq topics
          \/ Len(aggregators'[s]) > Len(aggregators[s]))]_vars

\* The book the strategy is given is the venue's, through snapshots, changes
\* and reconnections.  After a snapshot with an empty side the levels of that
\* side are left over.
LocalBookIsVenues == book.synced /\ ~ book.leftover => book.local = book.venue
=============================================================================
